---------------------------- MODULE MCOAuthFlow ----------------------------
(***************************************************************************)
(* Instances of OAuthFlow for TLC.  Tenants ta and tb share the IdP x, ta  *)
(* has a second SAML connection, tb an OIDC one.                           *)
(***************************************************************************)
EXTENDS OAuthFlow, TLC

CONSTANTS l1, c1, c2, c3, c4, ta, tb, x, y, z, u1, u2, t1, t2

TrySymmetry == Permutations({t1, t2})

MCKind == (c1 :> "saml") @@ (c2 :> "saml") @@ (c3 :> "saml") @@ (c4 :> "oidc")
MCScopeOf == (c1 :> ta) @@ (c2 :> ta) @@ (c3 :> tb) @@ (c4 :> tb)
MCIssuerOf == (c1 :> x) @@ (c2 :> y) @@ (c3 :> x) @@ (c4 :> z)

Asking(how, scope, client) ==
  [how |-> how, scope |-> scope, client |-> client, hint |-> None, url |-> u1]
Hinting(how, scope, client, to) ==
  [Asking(how, scope, client) EXCEPT !.hint = to]

EveryAsk ==
  {Asking("scope", ta, None), Asking("scope", tb, None),
   Asking("client", ta, c1), Asking("client", tb, c4),
   Asking("oidcfed", ta, None), Asking("samlfed", ta, None),
   [Asking("oidcfed", ta, None) EXCEPT !.url = u2],
   Asking("idp", ta, None)}

\* Requests that name another tenant's connection, of the same IdP or not, and
\* one that hints at what cannot answer.
HintedAsks ==
  {Hinting("scope", ta, None, c3), Hinting("scope", ta, None, c4),
   Hinting("scope", ta, c3, None), Hinting("client", ta, c1, c3),
   Hinting("idp", ta, None, c3), Hinting("idp", ta, None, c4)}
AllAsks == EveryAsk \cup HintedAsks

\* One connection of a SAML tenant, one of an OIDC tenant.
FewAsks == {Asking("client", ta, c1), Asking("client", tb, c4)}

Change(state, urls) == [state |-> state, urls |-> urls]
OffAndOn == {Change("inactive", {u1, u2}),
             Change("active", {}), Change("absent", {})}
=============================================================================
