---------------------------- MODULE LoginPromise ----------------------------
(***************************************************************************)
(* What the SSO bridge promises a client and its users: a browser is sent  *)
(* to one IdP that its login may use, the IdP vouches for the user, each   *)
(* post of the answer hands over one profile at most, of a connection that *)
(* the login is for, and the client learns what was handed over.  Nothing  *)
(* of that is ever exchanged for something else, and once the browser was  *)
(* sent on, no post that comes later hands over anything.                  *)
(***************************************************************************)
EXTENDS Absence

CONSTANTS Login, Try, Connection, Kind, ScopeOf, IssuerOf, Asks, AppScopes

VARIABLES
  ask,      \* what each login asks for
  sent,     \* the connection whose IdP a browser was sent to, or None
  vouched,  \* the connection as which the IdP knows the user, or None
  taken,    \* the posts of the answer that are being handled, or were
  handed,   \* the connection whose profile a post handed over, or None
  learned   \* the connections each client has a profile for

vars == <<ask, sent, vouched, taken, handed, learned>>

Posts == Login \X Try

Init ==
  /\ ask \in [Login -> Asks]
  /\ sent = [l \in Login |-> None]
  /\ vouched = [l \in Login |-> None]
  /\ taken = [h \in Posts |-> FALSE]
  /\ handed = [h \in Posts |-> None]
  /\ learned = [l \in Login |-> {}]

-----------------------------------------------------------------------------
Unasked(l) == ask[l].how = "idp"
Federated(l) == ask[l].how \in {"oidcfed", "samlfed"}

\* The browser was sent on: some post has handed over its profile.
Over(l) == \E t \in Try : handed[<<l, t>>] # None

\* The connections whose IdP a login may use: the client's own; the one hinted
\* at, which goes before any tenant; or, without a hint, those of the tenant
\* asked for or of the federated app's tenants.
Usable(l) ==
  {c \in Connection :
     /\ ~Unasked(l)
     /\ ask[l].how = "client" => c = ask[l].client
     /\ ask[l].how # "client" /\ ask[l].hint # None => c = ask[l].hint
     /\ ask[l].hint = None =>
          /\ ask[l].how = "scope" => ScopeOf[c] = ask[l].scope
          /\ Federated(l) => ScopeOf[c] \in AppScopes}

\* The connections whose profile answers a login: of the IdP that vouched, and
\* the one the browser was sent to, one of the tenant asked for, or one that
\* the request names itself.
Fitting(l) ==
  {c \in Connection :
     /\ IssuerOf[c] = IssuerOf[vouched[l]]
     /\ ~Unasked(l) =>
          \/ c = sent[l] \/ ScopeOf[c] = ask[l].scope
          \/ ~Federated(l) /\ c \in {ask[l].client, ask[l].hint}
     /\ Unasked(l) => ask[l].hint \in {None, c}}

-----------------------------------------------------------------------------
Send(l) ==
  /\ sent[l] = None /\ vouched[l] = None
  /\ \E c \in Usable(l) : sent' = [sent EXCEPT ![l] = c]
  /\ UNCHANGED <<ask, vouched, taken, handed, learned>>

\* The IdP vouches for who was sent to it, or for somebody unasked.
Vouch(l) ==
  /\ vouched[l] = None
  /\ \E c \in Connection :
       /\ c = sent[l] \/ (Unasked(l) /\ Kind[c] = "saml")
       /\ vouched' = [vouched EXCEPT ![l] = c]
  /\ UNCHANGED <<ask, sent, taken, handed, learned>>

TakeUp(l, h) ==
  /\ vouched[l] # None /\ ~taken[h]
  /\ Over(l) => Unasked(l)
  /\ taken' = [taken EXCEPT ![h] = TRUE]
  /\ UNCHANGED <<ask, sent, vouched, handed, learned>>

\* An unasked answer may have to be posted again, with a connection picked.
PutBack(l, h) ==
  /\ Unasked(l) /\ taken[h] /\ handed[h] = None
  /\ taken' = [taken EXCEPT ![h] = FALSE]
  /\ UNCHANGED <<ask, sent, vouched, handed, learned>>

\* A SAML app is handed the profile itself, others a code for it.
HandOver(l, h) ==
  /\ taken[h] /\ handed[h] = None
  /\ \E c \in Fitting(l) :
       /\ handed' = [handed EXCEPT ![h] = c]
       /\ learned' = [learned EXCEPT ![l] =
                        IF ask[l].how = "samlfed" THEN @ \cup {c} ELSE @]
  /\ UNCHANGED <<ask, sent, vouched, taken>>

Learn(l, h) ==
  /\ handed[h] # None
  /\ learned' = [learned EXCEPT ![l] = @ \cup {handed[h]}]
  /\ UNCHANGED <<ask, sent, vouched, taken, handed>>

Next ==
  \/ \E l \in Login : Send(l) \/ Vouch(l)
  \/ \E l \in Login, t \in Try :
       LET h == <<l, t>> IN
         TakeUp(l, h) \/ PutBack(l, h) \/ HandOver(l, h) \/ Learn(l, h)

Spec == Init /\ [][Next]_vars
=============================================================================
