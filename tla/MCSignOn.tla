----------------------------- MODULE MCSignOn ------------------------------
(***************************************************************************)
(* An instance of SignOn for TLC.                                          *)
(***************************************************************************)
EXTENDS MCOAuthFlow, SignOn

CONSTANTS r1, r2

\* Two tenants that share an identity provider, and a logout of each.
MCTenantOf == (c1 :> ta) @@ (c2 :> tb)
MCSenderOf == (c1 :> x) @@ (c2 :> x)
MCAsker == (r1 :> ta) @@ (r2 :> tb)

ASSUME PartParameters ==
  LinkAssumption /\ LogoutAssumption /\ ConnectionsAssumption /\ AppsAssumption

\* A part that rests does so in one state.
MCInit ==
  /\ PartInit
  /\ part # "sign-on" => \A l \in Login : ask[l] = Asking("scope", ta, None)
  /\ part # "links" => keeps
  /\ part # "connections" => limited

\* A bound: in the sign-on each connection changes at most once, and none in a
\* login that names or hints at a connection beside what it asks for.
ChangesOnce ==
  \/ UNCHANGED conn
  \/ /\ \A c \in Connection : conn[c] = Created
     /\ \A l \in Login : ask[l] \notin HintedAsks

MCNext == PartNext /\ ChangesOnce

MCSpec == MCInit /\ [][MCNext]_partsVars
=============================================================================
