----------------------------- MODULE OAuthFlow -----------------------------
(***************************************************************************)
(* Signing in through the SSO bridge (npm/src/controller/oauth.ts and      *)
(* sso-handler.ts): a client sends a browser to authorize, the browser     *)
(* goes to an identity provider (IdP) and comes back, perhaps twice, with  *)
(* its answer, and the client exchanges the code it gets for a token and   *)
(* the token for a profile.                                                *)
(*                                                                         *)
(* What lies between two requests to the store is one step, so that        *)
(* connections may change and records may expire at every await.  SAML and *)
(* OIDC connections, the OAuth client, both kinds of federated apps and    *)
(* the IdP-initiated flow are told apart by what they ask.                 *)
(***************************************************************************)
EXTENDS Absence, Naturals, FiniteSets

CONSTANTS
  Login, Connection, Scope, Issuer, Url,
  Kind,        \* Kind[c]: "saml" or "oidc"
  ScopeOf,     \* ScopeOf[c]: tenant and product of connection c
  IssuerOf,    \* IssuerOf[c]: its IdP's entityID
  Asks,        \* what a login may ask for
  AppScopes,   \* the tenants (with the product) of the federated apps
  AppUrls,     \* redirect URLs of the OIDC-federated app
  Try,         \* how often a browser may post the same answer (a bound)
  Changes,     \* states a connection may be changed to (a bound)
  ChangeBound, \* how many connections may be changed (a bound)
  Expiring,    \* may records expire?
  Faults       \* may a store request or the check of an answer fail?

Flow == {"scope", "client", "oidcfed", "samlfed", "idp"}

ConnState == [state : {"active", "inactive", "absent"}, urls : SUBSET Url]

(***************************************************************************)
(* A tenant and product has one connection per IdP (connection/saml.ts     *)
(* refuses a second).  A client asks for a connection of its own, or for a *)
(* tenant.  Whatever it asks for, its request may also hint at an IdP by   *)
(* any connection (idp_hint), and one for a tenant may name any client.    *)
(***************************************************************************)
ASSUME FlowAssumption ==
  /\ None \notin Connection
  /\ Kind \in [Connection -> {"saml", "oidc"}]
  /\ ScopeOf \in [Connection -> Scope]
  /\ IssuerOf \in [Connection -> Issuer]
  /\ \A c, d \in Connection :
       ScopeOf[c] = ScopeOf[d] /\ IssuerOf[c] = IssuerOf[d] => c = d
  /\ Asks \subseteq [how : Flow, scope : Scope, client : Connection \cup {None},
                     hint : Connection \cup {None}, url : Url]
  /\ \A a \in Asks : a.how = "client" =>
       a.client \in Connection /\ a.scope = ScopeOf[a.client]
  /\ AppScopes \subseteq Scope /\ AppUrls \subseteq Url
  /\ Changes \subseteq ConnState /\ ChangeBound \in Nat
  /\ Expiring \in BOOLEAN /\ Faults \in BOOLEAN

\* A request that handles one post of the answer to a login.
Handler == Login \X Try

VARIABLES
  conn,     \* the connection records
  ask,      \* what each login asks for
  stage,    \* where each browser is
  hint,     \* the connection hinted at, or picked on the page, or None
  chosen,   \* the connection whose IdP the browser was sent to, or None
  session,  \* is the login's session in the store?
  answer,   \* the connection as which the user is known to the IdP, or None
  redeemed, \* has the OIDC answer been exchanged at the IdP?
  pc,       \* where each handler is
  seen,     \* connections each handler has read
  match,    \* the connection a handler settled on, or None
  code,     \* the code of each handler in the store
  xpc,      \* where the exchange of each code is
  token,    \* the token of each handler in the store
  learned,  \* connections each client got a profile for
  late,     \* history: handlers that began after the login was answered
  allowed   \* history: connections that allowed the URL since a handler began

browserVars == <<ask, stage, hint, chosen, answer>>
handlerVars == <<pc, seen, match, late, allowed>>
clientVars  == <<xpc, token, learned>>
vars == <<conn, browserVars, session, redeemed, handlerVars, code, clientVars>>

TypeOK ==
  /\ conn \in [Connection -> ConnState]
  /\ ask \in [Login -> Asks]
  /\ stage \in [Login -> {"start", "choosing", "storing", "away", "answered",
                          "refused"}]
  /\ hint \in [Login -> Connection \cup {None}]
  /\ chosen \in [Login -> Connection \cup {None}]
  /\ session \in [Login -> BOOLEAN]
  /\ answer \in [Login -> Connection \cup {None}]
  /\ redeemed \in [Login -> BOOLEAN]
  /\ pc \in [Handler -> {"idle", "located", "matched", "closing", "done",
                         "failed"}]
  /\ seen \in [Handler -> SUBSET (Connection \X SUBSET Url)]
  /\ match \in [Handler -> Connection \cup {None}]
  /\ code \in [Handler -> BOOLEAN]
  /\ xpc \in [Handler -> {"none", "read", "stored", "done", "refused"}]
  /\ token \in [Handler -> BOOLEAN]
  /\ learned \in [Login -> SUBSET Connection]
  /\ late \in [Handler -> BOOLEAN]
  /\ allowed \in [Handler -> SUBSET Connection]
  /\ \A l \in Login : session[l] => chosen[l] # None

Created == [state |-> "active", urls |-> Url]

Init ==
  /\ conn = [c \in Connection |-> Created]
  /\ ask \in [Login -> Asks]
  /\ stage = [l \in Login |-> "start"]
  /\ hint = [l \in Login |-> ask[l].hint]
  /\ chosen = [l \in Login |-> None]
  /\ session = [l \in Login |-> FALSE]
  /\ answer = [l \in Login |-> None]
  /\ redeemed = [l \in Login |-> FALSE]
  /\ pc = [h \in Handler |-> "idle"]
  /\ seen = [h \in Handler |-> {}]
  /\ match = [h \in Handler |-> None]
  /\ code = [h \in Handler |-> FALSE]
  /\ xpc = [h \in Handler |-> "none"]
  /\ token = [h \in Handler |-> FALSE]
  /\ learned = [l \in Login |-> {}]
  /\ late = [h \in Handler |-> FALSE]
  /\ allowed = [h \in Handler |-> {}]

-----------------------------------------------------------------------------
Present(c) == conn[c].state # "absent"
IsConnectionActive(c) == conn[c].state = "active"
How(l) == ask[l].how
Federated(l) == How(l) \in {"oidcfed", "samlfed"}

\* allowed.redirect, for the connection's URLs or else the federated app's.
\* A SAML-federated login has no redirect URL: its ACS URL is the app's.
RedirectAllowed(l, urls) ==
  \/ How(l) = "samlfed"
  \/ ask[l].url \in urls
  \/ How(l) = "oidcfed" /\ ask[l].url \in AppUrls

Asked_AnyOfTenant(l) ==
  IF hint[l] # None THEN {hint[l]}
  ELSE {c \in Connection :
          IF Federated(l) THEN ScopeOf[c] \in AppScopes
                          ELSE ScopeOf[c] = ask[l].scope}

\* The client's own connection; or, by resolveConnection, the one hinted at,
\* whatever it belongs to, and without a hint those of the tenants asked for.
Asked(l) ==
  IF How(l) = "client" THEN {ask[l].client}
  ELSE IF hint[l] # None THEN {hint[l]}
  ELSE {c \in Connection :
          IF Federated(l) THEN ScopeOf[c] \in AppScopes
                          ELSE ScopeOf[c] = ask[l].scope}
Candidates(l) == {c \in Asked(l) : Present(c)}

GoTo(l, where) == stage' = [stage EXCEPT ![l] = where]

-----------------------------------------------------------------------------
\* authorize finds no connection, or one that does not allow the URL or is
\* not active.
ResolveRefused(l) ==
  /\ How(l) # "idp" /\ stage[l] = "start"
  /\ \/ Candidates(l) = {}
     \/ \E c \in Candidates(l) :
          /\ Candidates(l) = {c}
          /\ ~RedirectAllowed(l, conn[c].urls) \/ ~IsConnectionActive(c)
  /\ GoTo(l, "refused")
  /\ UNCHANGED <<conn, ask, hint, chosen, answer, session, redeemed,
                 handlerVars, code, clientVars>>

\* It finds several: the browser is sent to the page where one is picked,
\* and comes back with the pick as idp_hint.
ResolveMany(l) ==
  /\ How(l) # "idp" /\ stage[l] = "start"
  /\ Cardinality(Candidates(l)) > 1
  /\ GoTo(l, "choosing")
  /\ UNCHANGED <<conn, ask, hint, chosen, answer, session, redeemed,
                 handlerVars, code, clientVars>>

Choose(l) ==
  /\ stage[l] = "choosing"
  /\ \E c \in Candidates(l) : hint' = [hint EXCEPT ![l] = c]
  /\ GoTo(l, "start")
  /\ UNCHANGED <<conn, ask, chosen, answer, session, redeemed,
                 handlerVars, code, clientVars>>

ResolveOne(l) ==
  /\ How(l) # "idp" /\ stage[l] = "start"
  /\ \E c \in Candidates(l) :
       /\ Candidates(l) = {c}
       /\ RedirectAllowed(l, conn[c].urls) /\ IsConnectionActive(c)
       /\ chosen' = [chosen EXCEPT ![l] = c]
  /\ GoTo(l, "storing")
  /\ UNCHANGED <<conn, ask, hint, answer, session, redeemed,
                 handlerVars, code, clientVars>>

Store_Forgets(l) ==
  /\ stage[l] = "storing"
  /\ GoTo(l, "away") /\ UNCHANGED session
  /\ UNCHANGED <<conn, ask, hint, chosen, answer, redeemed,
                 handlerVars, code, clientVars>>

\* The session is stored and the browser sent to the IdP; or the put throws
\* and the browser goes back with an error, the session stored or not.
Store(l) ==
  /\ stage[l] = "storing"
  /\ \/ GoTo(l, "away") /\ session' = [session EXCEPT ![l] = TRUE]
     \/ /\ Faults
        /\ GoTo(l, "refused")
        /\ session' \in {session, [session EXCEPT ![l] = TRUE]}
  /\ UNCHANGED <<conn, ask, hint, chosen, answer, redeemed,
                 handlerVars, code, clientVars>>

\* The IdP authenticates the user and sends the browser back.  In the
\* IdP-initiated flow it does so unasked, for a SAML IdP.
Vouch(l) ==
  /\ \/ /\ stage[l] = "away"
        /\ answer' = [answer EXCEPT ![l] = chosen[l]]
     \/ /\ How(l) = "idp" /\ stage[l] = "start"
        /\ \E c \in Connection : /\ Kind[c] = "saml"
                                 /\ answer' = [answer EXCEPT ![l] = c]
  /\ GoTo(l, "answered")
  /\ UNCHANGED <<conn, ask, hint, chosen, session, redeemed,
                 handlerVars, code, clientVars>>

-----------------------------------------------------------------------------
\* How far a handler is; a step of it changes no other's place.
Advance(h, where) == pc' = [pc EXCEPT ![h] = where]

\* History of a handler that begins now.
Begin(l, h) ==
  /\ stage[l] = "answered" /\ pc[h] = "idle"
  /\ late' = [late EXCEPT ![h] = \E t \in Try : pc[<<l, t>>] = "done"]
  /\ allowed' = [allowed EXCEPT ![h] =
                   {c \in Connection : RedirectAllowed(l, conn[c].urls)}]

\* samlResponse reads the connections of the answer's issuer, with their URLs.
SameIssuer(l) ==
  {c \in Connection : /\ Present(c) /\ Kind[c] = "saml"
                      /\ IssuerOf[c] = IssuerOf[answer[l]]}

SamlLocate(l, h) ==
  /\ Begin(l, h) /\ Kind[answer[l]] = "saml"
  /\ seen' = [seen EXCEPT ![h] = {<<c, conn[c].urls>> : c \in SameIssuer(l)}]
  /\ Advance(h, IF SameIssuer(l) = {} THEN "failed" ELSE "located")
  /\ UNCHANGED <<conn, browserVars, session, redeemed, match, code, clientVars>>

\* The connections that the session names, as client_id or idp_hint.  For a
\* federated app it names the one the login resolved to.
Named(l) == IF Federated(l) THEN {chosen[l]} ELSE {ask[l].client, hint[l]}

Matches(l, h) ==
  {r \in seen[h] : r[1] \in Named(l) \/ ScopeOf[r[1]] = ask[l].scope}

Settle(h, c) == match' = [match EXCEPT ![h] = c] /\ Advance(h, "matched")

SamlMatch_Any(l, h) ==
  /\ pc[h] = "located" /\ Kind[answer[l]] = "saml" /\ How(l) # "idp"
  /\ session[l]
  /\ \E r \in seen[h] : RedirectAllowed(l, r[2]) /\ Settle(h, r[1])
  /\ UNCHANGED <<conn, browserVars, session, redeemed, seen, late, allowed,
                 code, clientVars>>

SamlMatch_NoRedirectCheck(l, h) ==
  /\ pc[h] = "located" /\ Kind[answer[l]] = "saml" /\ How(l) # "idp"
  /\ session[l]
  /\ \E r \in Matches(l, h) : Settle(h, r[1])
  /\ UNCHANGED <<conn, browserVars, session, redeemed, seen, late, allowed,
                 code, clientVars>>

\* It reads the session and settles on the first connection that fits it;
\* which one is first is the store's choice.  Whether it is still active is
\* not asked.
SamlMatch(l, h) ==
  /\ pc[h] = "located" /\ Kind[answer[l]] = "saml" /\ How(l) # "idp"
  /\ session[l]
  /\ \E r \in Matches(l, h) : RedirectAllowed(l, r[2]) /\ Settle(h, r[1])
  /\ UNCHANGED <<conn, browserVars, session, redeemed, seen, late, allowed,
                 code, clientVars>>

SamlRefuse(l, h) ==
  /\ pc[h] = "located" /\ Kind[answer[l]] = "saml" /\ How(l) # "idp"
  /\ \/ ~session[l] \/ Matches(l, h) = {}
     \/ \E r \in Matches(l, h) : ~RedirectAllowed(l, r[2])
  /\ Advance(h, "failed")
  /\ UNCHANGED <<conn, browserVars, session, redeemed, seen, match, late,
                 allowed, code, clientVars>>

\* The IdP-initiated flow resolves the connection again: by idp_hint, any
\* connection it may be, or by the issuer.  Several lead to a page where one
\* is picked, which posts the answer again.
IdpCandidates(l) == IF hint[l] # None THEN {c \in {hint[l]} : Present(c)}
                                      ELSE SameIssuer(l)

IdpSelect(l, h) ==
  /\ pc[h] = "located" /\ How(l) = "idp"
  /\ Cardinality(IdpCandidates(l)) > 1
  /\ \E c \in IdpCandidates(l) : hint' = [hint EXCEPT ![l] = c]
  /\ Advance(h, "idle")
  /\ seen' = [seen EXCEPT ![h] = {}]
  /\ UNCHANGED <<conn, ask, stage, chosen, answer, session, redeemed, match,
                 late, allowed, code, clientVars>>

IdpMatch(l, h) ==
  /\ pc[h] = "located" /\ How(l) = "idp"
  /\ \E c \in IdpCandidates(l) :
       /\ IdpCandidates(l) = {c} /\ IsConnectionActive(c)
       /\ Kind[c] = "saml" /\ Settle(h, c)
  /\ UNCHANGED <<conn, browserVars, session, redeemed, seen, late, allowed,
                 code, clientVars>>

\* An OIDC connection that is hinted at has no metadata to go on with.
IdpRefuse(l, h) ==
  /\ pc[h] = "located" /\ How(l) = "idp"
  /\ \/ IdpCandidates(l) = {}
     \/ \E c \in IdpCandidates(l) :
          /\ IdpCandidates(l) = {c}
          /\ ~IsConnectionActive(c) \/ Kind[c] # "saml"
  /\ Advance(h, "failed")
  /\ UNCHANGED <<conn, browserVars, session, redeemed, seen, match, late,
                 allowed, code, clientVars>>

\* oidcAuthzResponse reads the session first, then the session's connection.
OidcLocate(l, h) ==
  /\ Begin(l, h) /\ Kind[answer[l]] = "oidc"
  /\ Advance(h, IF session[l] THEN "located" ELSE "failed")
  /\ UNCHANGED <<conn, browserVars, session, redeemed, seen, match, code,
                 clientVars>>

OidcMatch(l, h) ==
  /\ pc[h] = "located" /\ Kind[answer[l]] = "oidc"
  /\ LET c == chosen[l] IN
       IF Present(c) /\ RedirectAllowed(l, conn[c].urls)
       THEN Settle(h, c)
       ELSE Advance(h, "failed") /\ UNCHANGED match
  /\ UNCHANGED <<conn, browserVars, session, redeemed, seen, late, allowed,
                 code, clientVars>>

-----------------------------------------------------------------------------
\* A SAML answer is signed with the key of the matched connection's IdP.
Validates(l, h) ==
  Kind[answer[l]] = "saml" => IssuerOf[match[h]] = IssuerOf[answer[l]]

\* The answer is validated, or exchanged at the IdP, which an OIDC answer
\* can be once, and a code stored for the profile.  A SAML-federated login
\* needs no code: the response to the app is made at once.
Grant(l, h) ==
  /\ pc[h] = "matched" /\ Validates(l, h)
  /\ Kind[answer[l]] = "oidc" => ~redeemed[l]
  /\ redeemed' = [redeemed EXCEPT ![l] = @ \/ Kind[answer[l]] = "oidc"]
  /\ code' = [code EXCEPT ![h] = How(l) # "samlfed"]
  /\ Advance(h, "closing")
  /\ UNCHANGED <<conn, browserVars, session, seen, match, late, allowed,
                 clientVars>>

\* The answer does not validate, or the put throws: an error goes back.
GrantFails(l, h) ==
  /\ pc[h] = "matched"
  /\ Faults \/ redeemed[l] \/ ~Validates(l, h)
  /\ redeemed' = [redeemed EXCEPT ![l] = @ \/ Kind[answer[l]] = "oidc"]
  /\ Advance(h, "failed")
  /\ code' \in {code, [code EXCEPT ![h] = /\ Faults /\ Validates(l, h)
                                          /\ How(l) # "samlfed"]}
  /\ UNCHANGED <<conn, browserVars, session, seen, match, late, allowed,
                 clientVars>>

Close_KeepsSession(l, h) ==
  /\ pc[h] = "closing"
  /\ Advance(h, "done")
  /\ learned' = [learned EXCEPT ![l] =
                   IF How(l) = "samlfed" THEN @ \cup {match[h]} ELSE @]
  /\ UNCHANGED <<conn, browserVars, session, redeemed, seen, match, late,
                 allowed, code, xpc, token>>

\* The session is deleted and the browser sent on, with the code or with
\* the SAML response.
Close(l, h) ==
  /\ pc[h] = "closing"
  /\ session' = [session EXCEPT ![l] = FALSE]
  /\ Advance(h, "done")
  /\ learned' = [learned EXCEPT ![l] =
                   IF How(l) = "samlfed" THEN @ \cup {match[h]} ELSE @]
  /\ UNCHANGED <<conn, browserVars, redeemed, seen, match, late, allowed,
                 code, xpc, token>>

\* The delete throws: an error goes back although the code is stored.
CloseFails(l, h) ==
  /\ Faults /\ pc[h] = "closing"
  /\ session' \in {session, [session EXCEPT ![l] = FALSE]}
  /\ Advance(h, "failed")
  /\ UNCHANGED <<conn, browserVars, redeemed, seen, match, late, allowed,
                 code, clientVars>>

-----------------------------------------------------------------------------
\* token: read the code; the client's credentials are its own.
TokenRead(l, h) ==
  /\ pc[h] = "done" /\ How(l) # "samlfed" /\ xpc[h] = "none"
  /\ xpc' = [xpc EXCEPT ![h] = IF code[h] THEN "read" ELSE "refused"]
  /\ UNCHANGED <<conn, browserVars, session, redeemed, handlerVars, code,
                 token, learned>>

\* A token is stored for the profile; the put may throw.
TokenPut(h) ==
  /\ xpc[h] = "read"
  /\ \/ token' = [token EXCEPT ![h] = TRUE] /\ xpc' = [xpc EXCEPT ![h] = "stored"]
     \/ /\ Faults
        /\ token' \in {token, [token EXCEPT ![h] = TRUE]}
        /\ xpc' = [xpc EXCEPT ![h] = "refused"]
  /\ UNCHANGED <<conn, browserVars, session, redeemed, handlerVars, code,
                 learned>>

\* The delete that follows names the code with its key in front, which no
\* record has: nothing is deleted.  The client gets the token ...
TokenAnswered(h) ==
  /\ xpc[h] = "stored"
  /\ xpc' = [xpc EXCEPT ![h] = "done"]
  /\ UNCHANGED <<conn, browserVars, session, redeemed, handlerVars, code,
                 token, learned>>

\* ... or loses the answer and asks again.
TokenLost(h) ==
  /\ xpc[h] = "stored"
  /\ xpc' = [xpc EXCEPT ![h] = "none"]
  /\ UNCHANGED <<conn, browserVars, session, redeemed, handlerVars, code,
                 token, learned>>

\* userInfo: the profile stored with the token.
UserInfo(l, h) ==
  /\ xpc[h] = "done" /\ token[h]
  /\ learned' = [learned EXCEPT ![l] = @ \cup {match[h]}]
  /\ UNCHANGED <<conn, browserVars, session, redeemed, handlerVars, code, xpc,
                 token>>

-----------------------------------------------------------------------------
\* A connection is updated, switched on or off, or deleted.
ConnectionChanges(c) ==
  /\ Cardinality({c} \cup {d \in Connection : conn[d] # Created}) <= ChangeBound
  /\ \E s \in Changes \ {conn[c]} :
       /\ conn' = [conn EXCEPT ![c] = s]
       /\ allowed' = [h \in Handler |->
            IF pc[h] # "idle" /\ RedirectAllowed(h[1], s.urls)
              THEN allowed[h] \cup {c} ELSE allowed[h]]
  /\ UNCHANGED <<browserVars, session, redeemed, pc, seen, match, late, code,
                 clientVars>>

\* The time to live of a record passes.
Expire(l, h) ==
  /\ Expiring
  /\ \/ session[l] /\ session' = [session EXCEPT ![l] = FALSE]
        /\ UNCHANGED <<code, token>>
     \/ code[h] /\ code' = [code EXCEPT ![h] = FALSE]
        /\ UNCHANGED <<session, token>>
     \/ token[h] /\ token' = [token EXCEPT ![h] = FALSE]
        /\ UNCHANGED <<session, code>>
  /\ UNCHANGED <<conn, browserVars, redeemed, handlerVars, xpc, learned>>

Authorize(l) ==
  \/ ResolveRefused(l) \/ ResolveMany(l) \/ Choose(l) \/ ResolveOne(l)
  \/ Store(l)

Respond(l, h) ==
  \/ SamlLocate(l, h) \/ SamlMatch(l, h) \/ SamlRefuse(l, h)
  \/ IdpSelect(l, h) \/ IdpMatch(l, h) \/ IdpRefuse(l, h)
  \/ OidcLocate(l, h) \/ OidcMatch(l, h)
  \/ Grant(l, h) \/ GrantFails(l, h) \/ Close(l, h) \/ CloseFails(l, h)

Exchange(l, h) ==
  \/ TokenRead(l, h) \/ TokenPut(h) \/ TokenAnswered(h) \/ TokenLost(h)
  \/ UserInfo(l, h)

Next ==
  \/ \E l \in Login : Authorize(l) \/ Vouch(l)
  \/ \E h \in Handler :
       Respond(h[1], h) \/ Exchange(h[1], h) \/ Expire(h[1], h)
  \/ \E c \in Connection : ConnectionChanges(c)

Spec == Init /\ [][Next]_vars

(***************************************************************************)
(* Browsers, users and clients go on, requests are answered, and a token   *)
(* that is asked for again and again gets to the client.                   *)
(***************************************************************************)
Fairness ==
  /\ \A l \in Login : WF_vars(Authorize(l)) /\ WF_vars(Vouch(l))
  /\ \A h \in Handler : /\ WF_vars(Respond(h[1], h))
                        /\ WF_vars(Exchange(h[1], h))
                        /\ SF_vars(TokenAnswered(h))

FairSpec == Spec /\ Fairness

-----------------------------------------------------------------------------
\* The connections that a request names itself are of the tenant it asks for.
NamesOneTenant(l) ==
  \A c \in {ask[l].client, ask[l].hint} \ {None} : ScopeOf[c] = ask[l].scope

(***************************************************************************)
(* No mix-up: a profile was asserted by the IdP that the user was sent to. *)
(* When all that a request names is of one tenant, the profile is of the   *)
(* connection that the login resolved to.  When its client_id or idp_hint, *)
(* which nothing ties to the tenant, is another tenant's, or with a        *)
(* federated app, it may be of any connection the request names or of the  *)
(* tenant asked for, at that IdP, but of no other.  Unasked, it is of the  *)
(* connection hinted at, if one is (oauth.ts:690-726, 762, 890-896,        *)
(* sso-handler.ts:82-120).                                                 *)
(***************************************************************************)
ProfileOfRequest ==
  \A l \in Login : \A c \in learned[l] :
    /\ IssuerOf[c] = IssuerOf[answer[l]]
    /\ How(l) # "idp" =>
         \/ c = chosen[l] \/ ScopeOf[c] = ask[l].scope
         \/ ~Federated(l) /\ c \in {ask[l].client, ask[l].hint}
    /\ How(l) \in {"scope", "client"} /\ NamesOneTenant(l) => c = chosen[l]
    /\ How(l) = "idp" => ask[l].hint \in {None, c}

(***************************************************************************)
(* An answer is good for one login: posted again after the browser was     *)
(* sent on, it gets neither code nor response (oauth.ts:676-680, 797, 810, *)
(* 880-883, 983, 996).                                                     *)
(***************************************************************************)
LateAnswerRefused ==
  \A h \in Handler :
    late[h] /\ How(h[1]) # "idp" => pc[h] \notin {"closing", "done"}

(***************************************************************************)
(* A code goes only to a URL that its connection still allowed when, or    *)
(* after, the answer came in, not only when the login began                *)
(* (oauth.ts:732-744, 898-913).                                            *)
(***************************************************************************)
RedirectRechecked ==
  \A h \in Handler :
    pc[h] \in {"closing", "done"} /\ How(h[1]) # "idp" => match[h] \in allowed[h]

\* What of all this the browser, the IdP and the client get to see.
SentTo == [l \in Login |-> IF stage[l] \in {"away", "answered"} THEN chosen[l] ELSE None]
TakenUp == [h \in Handler |-> pc[h] # "idle" /\ (late[h] => How(h[1]) = "idp")]
HandedOver == [h \in Handler |-> IF pc[h] = "done" THEN match[h] ELSE None]

(***************************************************************************)
(* A login keeps to what a client and its users are promised, step by      *)
(* step: one IdP that the request may lead to, its word, a profile         *)
(* of the right connection for each post of the answer, and none of these  *)
(* replaced later, whatever overlaps, expires, fails or changes            *)
(* (oauth.ts:95-1433, sso-handler.ts:48-190).                              *)
(***************************************************************************)
Promise == INSTANCE LoginPromise
  WITH sent <- SentTo, vouched <- answer, taken <- TakenUp, handed <- HandedOver
LoginsAsPromised == Promise!Spec

(***************************************************************************)
(* A login whose connections stay as they are and whose records live long  *)
(* enough ends with a profile, for every kind of login, with the answer    *)
(* posted twice and tokens lost on the way (oauth.ts:95-1433).             *)
(***************************************************************************)
LoginSucceeds == \A l \in Login : <>(learned[l] # {})

(***************************************************************************)
(* The comment of oauth.ts:1327, "delete the code": once the client has    *)
(* its token, the code it gave for it is gone.                             *)
(***************************************************************************)
CodeDeletedOnExchange == \A h \in Handler : xpc[h] = "done" => ~code[h]
=============================================================================
