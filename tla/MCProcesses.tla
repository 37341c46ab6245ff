---------------------------- MODULE MCProcesses ----------------------------
(***************************************************************************)
(* An instance of Processes for TLC.                                       *)
(***************************************************************************)
EXTENDS MCEventQueue, Processes

CONSTANTS a1, a2, b1, x1, x2, x3,  \* Certificate
          la                       \* Traces

\* All traces are of one product.
MCProductOf == [t \in 1..MaxTraces |-> la]

\* Two calls in one process, a third in another.
MCProcessOf == (a1 :> i1) @@ (a2 :> i1) @@ (b1 :> i2)

ASSUME PartParameters == CertificateAssumption /\ TracesAssumption
=============================================================================
