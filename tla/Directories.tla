---------------------------- MODULE Directories ----------------------------
(***************************************************************************)
(* SCIM requests, and the records of the directories that they are for,    *)
(* side by side: the first state chooses which of the two a behaviour is   *)
(* of, and the other rests.  Each keeps its own variables, and the         *)
(* properties are those of the two modules.                                *)
(***************************************************************************)
EXTENDS DirectorySync, DirectoryRecords

VARIABLE part

DirectoriesInit == part \in {"scim", "records"} /\ Init /\ RecordsInit

DirectoriesNext ==
  \/ part = "scim" /\ UNCHANGED <<part, recordsVars>> /\ Next
  \/ part = "records" /\ UNCHANGED <<part, vars>> /\ RecordsNext

DirectoriesSpec == DirectoriesInit /\ [][DirectoriesNext]_<<part, vars, recordsVars>>

-----------------------------------------------------------------------------
(***************************************************************************)
(* The types of both: members and entries are of stored items, and the     *)
(* index of directories holds stored records only (Base.ts:14-31,          *)
(* DirectoryConfig.ts:87-330).                                             *)
(***************************************************************************)
PartTypeOK == TypeOK /\ RecordsTypeOK
=============================================================================
