------------------------------ MODULE Deployment ------------------------------
(***************************************************************************)
(* The processes of a deployment, which share its store.                   *)
(***************************************************************************)
CONSTANT Process
=============================================================================
