---------------------------- MODULE MCDirectories ----------------------------
(***************************************************************************)
(* Instances of Directories for TLC.                                       *)
(***************************************************************************)
EXTENDS MCDirectorySync, Directories

ASSUME RecordsParameters == RecordsAssumption
=============================================================================
