------------------------------- MODULE SignOn -------------------------------
(***************************************************************************)
(* The sign-on, the logout, and the parts that keep what they rely on      *)
(* (setup links, connections, federation apps), side by side.  They share  *)
(* no state in these models, so the first state chooses the part that a    *)
(* behaviour is of, and the others rest.                                   *)
(***************************************************************************)
EXTENDS OAuthFlow, SetupLink, Logout, Connections, FederationApps

VARIABLE part

partsVars == <<part, vars, linkVars, logoutVars, connsVars, appsVars>>

PartInit ==
  /\ part \in {"sign-on", "links", "logout", "connections", "apps"}
  /\ Init /\ LinkInit /\ LogoutInit /\ ConnsInit /\ AppsInit

PartNext ==
  \/ part = "sign-on" /\ UNCHANGED <<part, linkVars, logoutVars, connsVars, appsVars>> /\ Next
  \/ part = "links" /\ UNCHANGED <<part, vars, logoutVars, connsVars, appsVars>> /\ LinkNext
  \/ part = "logout" /\ UNCHANGED <<part, vars, linkVars, connsVars, appsVars>> /\ LogoutNext
  \/ part = "connections" /\ UNCHANGED <<part, vars, linkVars, logoutVars, appsVars>> /\ ConnsNext
  \/ part = "apps" /\ UNCHANGED <<part, vars, linkVars, logoutVars, connsVars>> /\ AppsNext

PartSpec == PartInit /\ [][PartNext]_partsVars

-----------------------------------------------------------------------------
(***************************************************************************)
(* The types of every part's state, with what its indexes always satisfy:  *)
(* a link's token leads to its account, a connection is filed under its    *)
(* own tenant, no two share a secret, and a session is of a login that was *)
(* resolved (setup-link.ts:244-287, saml.ts:61-206, oauth.ts:519-570).     *)
(***************************************************************************)
PartTypeOK == TypeOK /\ LinkTypeOK /\ LogoutTypeOK /\ ConnsTypeOK /\ AppsTypeOK
=============================================================================
