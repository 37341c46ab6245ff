---------------------------- MODULE MCEventQueue ----------------------------
(***************************************************************************)
(* Instances of EventQueue for TLC.                                        *)
(***************************************************************************)
EXTENDS EventQueue, TLC

CONSTANTS e1, e2, e3, d1, d2, i1, i2, w1, w2

OneDirectory == (e1 :> d1) @@ (e2 :> d1)
TwoDirectories == (e1 :> d1) @@ (e2 :> d2) @@ (e3 :> d1)
FirstTwo == (e1 :> d1) @@ (e2 :> d2)

OneWorker == (w1 :> i1)
SameProcess == (w1 :> i1) @@ (w2 :> i1)

\* Workers of one process may be exchanged, and events of one directory.
QueueSymmetry == Permutations({w1, w2}) \cup Permutations({e1, e2})
=============================================================================
