------------------------------ MODULE MCStores ------------------------------
(***************************************************************************)
(* An instance of RecordStore for TLC: every engine, one after the other.  *)
(***************************************************************************)
EXTENDS RecordStore, TLC

CONSTANTS k1, k2, a, b, p1, p2

StoreSymmetry ==
  Permutations({k1, k2}) \cup Permutations({a, b}) \cup Permutations({p1, p2})
=============================================================================
