----------------------------- MODULE Processes -----------------------------
(***************************************************************************)
(* What the processes of a deployment do beside each other: send out the   *)
(* event queue, where either workers overlap or one works at a time and    *)
(* requests to the store fail; keep a default certificate; and remove      *)
(* traces.  They share no state, so the first state chooses the part that  *)
(* a behaviour is of, and the others rest.                                 *)
(***************************************************************************)
EXTENDS EventQueue, Certificate, Traces

VARIABLE part

partsVars == <<part, vars, certVars, tracesVars>>

\* Which part it is, and what else the first state chooses: how the engine
\* pages traces, and the size of batches (one event where workers overlap).
PartInit ==
  /\ part \in {"overlap", "failing", "certificate", "traces"}
  /\ Init /\ CertInit /\ TracesInit
  /\ part # "traces" => ~tokens
  /\ part # "failing" => batchSize = 1

PartNext ==
  \/ /\ part = "overlap" /\ UNCHANGED <<part, certVars, tracesVars>> /\ Served
  \/ /\ part = "failing" /\ UNCHANGED <<part, certVars, tracesVars>> /\ Next
     /\ UNCHANGED dir /\ \E w \in Worker : pc'[w] = "off"
  \/ /\ part = "certificate" /\ UNCHANGED <<part, vars, tracesVars>> /\ CertNext
  \/ /\ part = "traces" /\ UNCHANGED <<part, vars, certVars>> /\ TracesNext

PartSpec == PartInit /\ [][PartNext]_partsVars

-----------------------------------------------------------------------------
(***************************************************************************)
(* The types of every part's state: only pushed events are stored and a    *)
(* worker handles events of its batch only, a certificate in use is        *)
(* one that was made, and a cleanup never pages beyond the last trace      *)
(* (queue.ts:90-158, x509.ts:60-120, sso-traces/index.ts:140-260).         *)
(***************************************************************************)
PartTypeOK == TypeOK /\ CertTypeOK /\ TracesTypeOK
=============================================================================
