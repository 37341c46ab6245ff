-------------------------------- MODULE Absence --------------------------------
(***************************************************************************)
(* What stands for a record, key or value that is not there, in every      *)
(* module of the project, so that modules can be combined.                 *)
(***************************************************************************)
CONSTANT None
=============================================================================
