-------------------------------- MODULE Clients --------------------------------
(***************************************************************************)
(* Who uses the API: callers, each with one call under way at a time, on   *)
(* behalf of tenants.                                                      *)
(***************************************************************************)
CONSTANTS
  Caller, Tenant,
  MaxCalls    \* calls made in all (a bound)
=============================================================================
