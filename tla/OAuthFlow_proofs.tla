-------------------------- MODULE OAuthFlow_proofs --------------------------
(***************************************************************************)
(* What OAuthFlow guarantees for any number of logins, connections and     *)
(* tenants, and of posts of the same answer.                               *)
(***************************************************************************)
EXTENDS OAuthFlow, FiniteSetTheorems, TLAPS

\* ProfileOfRequest, of one login and one connection: what the request says ...
Suits(l, c) ==
  /\ How(l) # "idp" =>
       \/ c = chosen[l] \/ ScopeOf[c] = ask[l].scope
       \/ ~Federated(l) /\ c \in {ask[l].client, ask[l].hint}
  /\ How(l) \in {"scope", "client"} /\ NamesOneTenant(l) => c = chosen[l]
  /\ How(l) = "idp" => ask[l].hint \in {None, c}

\* ... and what the IdP does.
SameIdp(l, c) == IssuerOf[c] = IssuerOf[answer[l]]

Fits(l, c) == Suits(l, c) /\ SameIdp(l, c)

\* A browser is sent to an IdP, or to pick one, only if it did not start
\* there; to pick one only if nothing says already which it is.
Sent(l) ==
  /\ stage[l] \in {"choosing", "storing", "away"} => How(l) # "idp"
  /\ stage[l] \in {"storing", "away"} => chosen[l] \in Connection
  /\ stage[l] = "choosing" => hint[l] = None /\ How(l) # "client"

\* The request's hint stays; a pick on the page is one of the connections that
\* the login asked for.
Hinted(l) ==
  /\ ask[l].hint # None => hint[l] = ask[l].hint
  /\ ask[l].hint = None /\ hint[l] # None =>
       /\ How(l) # "client"
       /\ How(l) = "scope" => ScopeOf[hint[l]] = ask[l].scope
       /\ Federated(l) => ScopeOf[hint[l]] \in AppScopes

\* The connection a login resolved to is the client's, or the one hinted at or
\* picked, or else of the tenant it asked for.
ChosenFits(l) ==
  chosen[l] # None =>
    /\ stage[l] \notin {"start", "choosing"}
    /\ How(l) # "idp"
    /\ How(l) = "client" => chosen[l] = ask[l].client
    /\ How(l) # "client" => hint[l] \in {None, chosen[l]}
    /\ ask[l].hint = None =>
         /\ How(l) = "scope" => ScopeOf[chosen[l]] = ask[l].scope
         /\ Federated(l) => ScopeOf[chosen[l]] \in AppScopes

\* The IdP that answers is the one the browser was sent to.
AnswerFits(l) ==
  /\ stage[l] # "answered" => answer[l] = None
  /\ stage[l] = "answered" =>
       /\ answer[l] \in Connection
       /\ IF How(l) = "idp" THEN Kind[answer[l]] = "saml"
                            ELSE answer[l] = chosen[l]

BrowserInv ==
  \A l \in Login : Sent(l) /\ Hinted(l) /\ ChosenFits(l) /\ AnswerFits(l)

\* A handler runs for a login that was answered, has read connections of the
\* IdP that answered, and settled on one that suits the request; that it is
\* of this IdP too is known at once, or when the answer was validated.
HandlerFits(h) ==
  /\ pc[h] # "idle" => stage[h[1]] = "answered"
  /\ \A r \in seen[h] : /\ stage[h[1]] = "answered"
                        /\ IssuerOf[r[1]] = IssuerOf[answer[h[1]]]
  /\ pc[h] \in {"matched", "closing", "done"} =>
       match[h] \in Connection /\ Suits(h[1], match[h])
  /\ pc[h] \in {"closing", "done"} \/ (pc[h] = "matched" /\ How(h[1]) # "idp") =>
       SameIdp(h[1], match[h])
  /\ xpc[h] # "none" => pc[h] = "done"

HandlerInv == \A h \in Handler : HandlerFits(h)

LearnedInv ==
  \A l \in Login : \A c \in learned[l] : stage[l] = "answered" /\ Fits(l, c)

IInv == TypeOK /\ BrowserInv /\ HandlerInv /\ LearnedInv

-----------------------------------------------------------------------------
\* Every step is one of these.
LEMMA StepCases ==
  ASSUME [Next]_vars
  PROVE  \/ \E l \in Login : Authorize(l) \/ Vouch(l)
         \/ \E l \in Login, h \in Handler :
              l = h[1] /\ (Respond(l, h) \/ Exchange(l, h) \/ Expire(l, h))
         \/ \E c \in Connection : ConnectionChanges(c)
         \/ UNCHANGED vars
<1>1. \A h \in Handler : h[1] \in Login
  BY DEF Handler
<1>. QED
  BY <1>1 DEF Next

LEMMA InitTyped == Init => TypeOK
BY FlowAssumption DEF Init, TypeOK, ConnState, Created

\* Types are preserved by every step of a browser.
LEMMA BrowserTyped ==
  ASSUME TypeOK, BrowserInv, NEW l \in Login, Authorize(l) \/ Vouch(l)
  PROVE  TypeOK'
<1> USE DEF TypeOK, GoTo
<1>1. CASE ResolveRefused(l)
  BY <1>1 DEF ResolveRefused, handlerVars, clientVars
<1>2. CASE ResolveMany(l)
  BY <1>2 DEF ResolveMany, handlerVars, clientVars
<1>3. CASE Choose(l)
  <2>1. PICK c \in Candidates(l) : hint' = [hint EXCEPT ![l] = c]
    BY <1>3 DEF Choose
  <2>2. c \in Connection
    BY <2>1, FlowAssumption, <1>3 DEF Candidates, Asked, How
  <2>. QED
    BY <1>3, <2>1, <2>2 DEF Choose, handlerVars, clientVars
<1>4. CASE ResolveOne(l)
  BY <1>4, FlowAssumption DEF ResolveOne, Candidates, Asked, How, handlerVars,
     clientVars
<1>5. CASE Store(l)
  <2>1. chosen[l] # None
    BY <1>5, FlowAssumption DEF Store, BrowserInv, Sent
  <2>. QED
    BY <1>5, <2>1 DEF Store, handlerVars, clientVars
<1>6. CASE Vouch(l)
  BY <1>6 DEF Vouch, handlerVars, clientVars
<1>. QED
  BY <1>1, <1>2, <1>3, <1>4, <1>5, <1>6 DEF Authorize

\* Types are preserved by every step that handles an answer.
LEMMA HandlerTyped ==
  ASSUME TypeOK, HandlerInv, NEW l \in Login, NEW h \in Handler, l = h[1],
         Respond(l, h)
  PROVE  TypeOK'
<1> USE DEF TypeOK, Advance, browserVars, clientVars
<1>1. \A c \in SameIssuer(l) : c \in Connection /\ conn[c].urls \in SUBSET Url
  BY DEF SameIssuer, ConnState
<1>2. IdpCandidates(l) \subseteq Connection
  BY <1>1 DEF IdpCandidates
<1>3. CASE SamlLocate(l, h)
  <2>1. {<<c, conn[c].urls>> : c \in SameIssuer(l)}
          \in SUBSET (Connection \X SUBSET Url)
    BY <1>1
  <2>2. seen' \in [Handler -> SUBSET (Connection \X SUBSET Url)]
    BY <1>3, <2>1 DEF SamlLocate
  <2>3. /\ late' \in [Handler -> BOOLEAN]
        /\ allowed' \in [Handler -> SUBSET Connection]
        /\ pc' \in [Handler -> {"idle", "located", "matched", "closing",
                                "done", "failed"}]
    BY <1>3 DEF SamlLocate, Begin
  <2>. QED
    BY <1>3, <2>2, <2>3 DEF SamlLocate
<1>4. CASE SamlMatch(l, h)
  BY <1>4 DEF SamlMatch, Matches, Settle
<1>5. CASE SamlRefuse(l, h)
  BY <1>5 DEF SamlRefuse
<1>6. CASE IdpSelect(l, h)
  BY <1>6, <1>2 DEF IdpSelect
<1>7. CASE IdpMatch(l, h)
  BY <1>7, <1>2 DEF IdpMatch, Settle
<1>8. CASE IdpRefuse(l, h)
  BY <1>8 DEF IdpRefuse
<1>9. CASE OidcLocate(l, h)
  BY <1>9 DEF OidcLocate, Begin
<1>10. CASE OidcMatch(l, h)
  BY <1>10 DEF OidcMatch, Settle
<1>11. CASE Grant(l, h)
  BY <1>11 DEF Grant
<1>12. CASE GrantFails(l, h)
  BY <1>12, FlowAssumption DEF GrantFails
<1>13. CASE Close(l, h)
  BY <1>13 DEF Close, HandlerInv, HandlerFits
<1>14. CASE CloseFails(l, h)
  BY <1>14 DEF CloseFails
<1>. QED
  BY <1>3, <1>4, <1>5, <1>6, <1>7, <1>8, <1>9, <1>10, <1>11, <1>12, <1>13,
     <1>14 DEF Respond

\* Types are preserved by every other step.
LEMMA OtherTyped ==
  ASSUME TypeOK, HandlerInv, NEW l \in Login, NEW h \in Handler, l = h[1],
         Exchange(l, h) \/ Expire(l, h)
  PROVE  TypeOK'
<1> USE DEF TypeOK, browserVars, handlerVars, clientVars
<1>1. CASE TokenRead(l, h)
  BY <1>1 DEF TokenRead
<1>2. CASE TokenPut(h)
  BY <1>2 DEF TokenPut
<1>3. CASE TokenAnswered(h)
  BY <1>3 DEF TokenAnswered
<1>4. CASE TokenLost(h)
  BY <1>4 DEF TokenLost
<1>5. CASE UserInfo(l, h)
  BY <1>5 DEF UserInfo, HandlerInv, HandlerFits
<1>6. CASE Expire(l, h)
  BY <1>6 DEF Expire
<1>. QED
  BY <1>1, <1>2, <1>3, <1>4, <1>5, <1>6 DEF Exchange

LEMMA ChangeTyped ==
  ASSUME TypeOK, NEW c \in Connection, ConnectionChanges(c)
  PROVE  TypeOK'
<1>1. conn' \in [Connection -> ConnState]
  BY FlowAssumption DEF ConnectionChanges, TypeOK
<1>2. allowed' \in [Handler -> SUBSET Connection]
  BY DEF ConnectionChanges, TypeOK
<1>. QED
  BY <1>1, <1>2 DEF ConnectionChanges, TypeOK, browserVars, clientVars

LEMMA TypeStep == IInv /\ [Next]_vars => TypeOK'
<1> SUFFICES ASSUME IInv, [Next]_vars
             PROVE  TypeOK'
  OBVIOUS
<1>1. CASE UNCHANGED vars
  BY <1>1 DEF IInv, TypeOK, vars, browserVars, handlerVars, clientVars
<1>. QED
  BY <1>1, StepCases, BrowserTyped, HandlerTyped, OtherTyped, ChangeTyped
     DEF IInv

-----------------------------------------------------------------------------
\* There is a choice only where nothing says which connection it is.
LEMMA SeveralUnhinted ==
  ASSUME NEW l \in Login
  PROVE  /\ Cardinality(Candidates(l)) > 1 => hint[l] = None /\ How(l) # "client"
         /\ Cardinality(IdpCandidates(l)) > 1 => hint[l] = None
<1>1. ASSUME NEW S, NEW c, S \subseteq {c} PROVE ~(Cardinality(S) > 1)
  <2>1. S = {} \/ S = {c}
    BY <1>1
  <2>2. Cardinality({}) = 0 /\ Cardinality({c}) = 1
    BY FS_EmptySet, FS_Singleton
  <2>. QED
    BY <2>1, <2>2
<1>2. hint[l] # None \/ How(l) = "client" => \E c : Candidates(l) \subseteq {c}
  BY DEF Candidates, Asked
<1>3. hint[l] # None => IdpCandidates(l) \subseteq {hint[l]}
  BY DEF IdpCandidates
<1>. QED
  BY <1>1, <1>2, <1>3

-----------------------------------------------------------------------------
\* What a browser has been through changes with authorize, with the IdP's
\* answer, and with the pick of a connection after it; with nothing else.
LEMMA BrowserQuiet ==
  ASSUME [Next]_vars
  PROVE  \/ UNCHANGED browserVars
         \/ \E l \in Login : Authorize(l) \/ Vouch(l)
         \/ \E l \in Login, h \in Handler : l = h[1] /\ IdpSelect(l, h)
<1>1. ASSUME NEW l \in Login, NEW h \in Handler, Respond(l, h)
      PROVE  UNCHANGED browserVars \/ IdpSelect(l, h)
  BY <1>1 DEF Respond, SamlLocate, SamlMatch, SamlRefuse, IdpMatch, IdpRefuse,
     OidcLocate, OidcMatch, Grant, GrantFails, Close, CloseFails
<1>2. ASSUME NEW l \in Login, NEW h \in Handler, Exchange(l, h) \/ Expire(l, h)
      PROVE  UNCHANGED browserVars
  BY <1>2 DEF Exchange, TokenRead, TokenPut, TokenAnswered, TokenLost, UserInfo,
     Expire
<1>3. ASSUME NEW c \in Connection, ConnectionChanges(c)
      PROVE  UNCHANGED browserVars
  BY <1>3 DEF ConnectionChanges
<1>4. CASE UNCHANGED vars
  BY <1>4 DEF vars
<1>. QED
  BY <1>1, <1>2, <1>3, <1>4, StepCases

LEMMA BrowserStep == IInv /\ [Next]_vars => BrowserInv'
<1> SUFFICES ASSUME IInv, [Next]_vars, NEW l \in Login
             PROVE  (Sent(l) /\ Hinted(l) /\ ChosenFits(l) /\ AnswerFits(l))'
  BY DEF BrowserInv
<1>1. TypeOK /\ Sent(l) /\ Hinted(l) /\ ChosenFits(l) /\ AnswerFits(l)
  BY DEF IInv, BrowserInv
<1> USE <1>1, FlowAssumption
    DEF TypeOK, Sent, Hinted, ChosenFits, AnswerFits, How, Federated, GoTo
<1>2. CASE UNCHANGED browserVars
  BY <1>2 DEF browserVars
<1>3. ASSUME NEW k \in Login, ResolveRefused(k) \/ ResolveMany(k) \/ Store(k)
      PROVE  (Sent(l) /\ Hinted(l) /\ ChosenFits(l) /\ AnswerFits(l))'
  BY <1>3, SeveralUnhinted DEF ResolveRefused, ResolveMany, Store
<1>4. ASSUME NEW k \in Login, Choose(k)
      PROVE  (Sent(l) /\ Hinted(l) /\ ChosenFits(l) /\ AnswerFits(l))'
  <2>1. PICK c \in Candidates(k) : hint' = [hint EXCEPT ![k] = c]
    BY <1>4 DEF Choose
  <2>2. CASE k # l
    BY <1>4, <2>1, <2>2 DEF Choose
  <2>3. CASE k = l
    <3>1. /\ How(l) # "client" /\ hint[l] = None
          /\ How(l) = "scope" => ScopeOf[c] = ask[l].scope
          /\ Federated(l) => ScopeOf[c] \in AppScopes
      BY <1>4, <2>1, <2>3 DEF Choose, Candidates, Asked, Federated
    <3>. QED
      BY <1>4, <2>1, <2>3, <3>1 DEF Choose
  <2>. QED
    BY <2>2, <2>3
<1>5. ASSUME NEW k \in Login, ResolveOne(k)
      PROVE  (Sent(l) /\ Hinted(l) /\ ChosenFits(l) /\ AnswerFits(l))'
  <2>1. PICK c \in Candidates(k) : chosen' = [chosen EXCEPT ![k] = c]
    BY <1>5 DEF ResolveOne
  <2>2. CASE k # l
    BY <1>5, <2>1, <2>2 DEF ResolveOne
  <2>3. CASE k = l
    <3>1. /\ c \in Connection
          /\ How(l) = "client" => c = ask[l].client
          /\ How(l) # "client" => hint[l] \in {None, c}
          /\ ask[l].hint = None =>
               /\ How(l) = "scope" => ScopeOf[c] = ask[l].scope
               /\ Federated(l) => ScopeOf[c] \in AppScopes
      BY <2>1, <2>3 DEF Candidates, Asked, Federated
    <3>. QED
      BY <1>5, <2>1, <2>3, <3>1 DEF ResolveOne
  <2>. QED
    BY <2>2, <2>3
<1>6. ASSUME NEW k \in Login, Vouch(k)
      PROVE  (Sent(l) /\ Hinted(l) /\ ChosenFits(l) /\ AnswerFits(l))'
  <2>1. CASE k # l
    BY <1>6, <2>1 DEF Vouch
  <2>2. CASE k = l
    BY <1>6, <2>2 DEF Vouch
  <2>. QED
    BY <2>1, <2>2
<1>7. ASSUME NEW k \in Login, NEW h \in Handler, k = h[1], IdpSelect(k, h)
      PROVE  (Sent(l) /\ Hinted(l) /\ ChosenFits(l) /\ AnswerFits(l))'
  <2>1. PICK c \in IdpCandidates(k) : hint' = [hint EXCEPT ![k] = c]
    BY <1>7 DEF IdpSelect
  <2>2. stage[k] = "answered"
    BY <1>7 DEF IdpSelect, IInv, HandlerInv, HandlerFits
  <2>3. CASE k # l
    BY <1>7, <2>1, <2>3 DEF IdpSelect
  <2>4. CASE k = l
    <3>1. hint[l] = None
      BY <1>7, <2>4, SeveralUnhinted DEF IdpSelect
    <3>. QED
      BY <1>7, <2>1, <2>2, <2>4, <3>1 DEF IdpSelect
  <2>. QED
    BY <2>3, <2>4
<1>. QED
  BY <1>2, <1>3, <1>4, <1>5, <1>6, <1>7, BrowserQuiet DEF Authorize

-----------------------------------------------------------------------------
\* What an answered login asked for, resolved to and was answered by stays.
LEMMA AnsweredStays ==
  ASSUME IInv, [Next]_vars, NEW l \in Login, stage[l] = "answered"
  PROVE  /\ ask'[l] = ask[l] /\ chosen'[l] = chosen[l]
         /\ answer'[l] = answer[l] /\ stage'[l] = "answered"
<1>1. CASE UNCHANGED browserVars
  BY <1>1 DEF browserVars
<1>2. ASSUME NEW k \in Login, Authorize(k) \/ Vouch(k)
      PROVE  /\ ask'[l] = ask[l] /\ chosen'[l] = chosen[l]
             /\ answer'[l] = answer[l] /\ stage'[l] = "answered"
  BY <1>2 DEF Authorize, ResolveRefused, ResolveMany, Choose, ResolveOne, Store,
     Vouch, GoTo, IInv, TypeOK
<1>3. ASSUME NEW k \in Login, NEW h \in Handler, IdpSelect(k, h)
      PROVE  /\ ask'[l] = ask[l] /\ chosen'[l] = chosen[l]
             /\ answer'[l] = answer[l] /\ stage'[l] = "answered"
  BY <1>3 DEF IdpSelect
<1>. QED
  BY <1>1, <1>2, <1>3, BrowserQuiet

\* So what fits it goes on fitting it.
LEMMA FitsStays ==
  ASSUME IInv, [Next]_vars, NEW l \in Login, NEW c, stage[l] = "answered",
         Fits(l, c)
  PROVE  Fits(l, c)'
BY AnsweredStays DEF Fits, Suits, SameIdp, NamesOneTenant, How, Federated

\* A handler that stays where it is goes on fitting its login.
LEMMA SameHandler ==
  ASSUME IInv, [Next]_vars, NEW h \in Handler,
         pc'[h] = pc[h], seen'[h] = seen[h], match'[h] = match[h],
         xpc'[h] # "none" => pc[h] = "done"
  PROVE  HandlerFits(h)'
<1>1. HandlerFits(h) /\ h[1] \in Login
  BY DEF IInv, HandlerInv, Handler
<1>2. pc[h] # "idle" => stage'[h[1]] = "answered"
  BY <1>1, AnsweredStays DEF HandlerFits
<1>3. ASSUME NEW r \in seen[h]
      PROVE  /\ stage'[h[1]] = "answered"
             /\ IssuerOf[r[1]] = IssuerOf[answer'[h[1]]]
  BY <1>1, <1>3, AnsweredStays DEF HandlerFits
<1>4. pc[h] \in {"matched", "closing", "done"} =>
        /\ Suits(h[1], match[h])'
        /\ SameIdp(h[1], match[h]) => SameIdp(h[1], match[h])'
        /\ How(h[1])' = How(h[1])
  <2> SUFFICES ASSUME pc[h] \in {"matched", "closing", "done"}
               PROVE  /\ Suits(h[1], match[h])'
                      /\ SameIdp(h[1], match[h]) => SameIdp(h[1], match[h])'
                      /\ How(h[1])' = How(h[1])
    OBVIOUS
  <2>1. Suits(h[1], match[h]) /\ stage[h[1]] = "answered"
    BY <1>1 DEF HandlerFits
  <2>2. /\ ask'[h[1]] = ask[h[1]] /\ chosen'[h[1]] = chosen[h[1]]
        /\ answer'[h[1]] = answer[h[1]]
    BY <1>1, <2>1, AnsweredStays
  <2>. QED
    BY <2>1, <2>2 DEF Suits, SameIdp, NamesOneTenant, How, Federated
<1>. QED
  BY <1>1, <1>2, <1>3, <1>4 DEF HandlerFits

\* Whichever connection a SAML handler settles on by Matches fits the login.
LEMMA MatchFits ==
  ASSUME IInv, NEW h \in Handler, NEW r \in Matches(h[1], h),
         pc[h] = "located", How(h[1]) # "idp"
  PROVE  r[1] \in Connection /\ Fits(h[1], r[1])
<1> DEFINE l == h[1]
<1>1. l \in Login /\ HandlerFits(h) /\ TypeOK
  BY DEF IInv, HandlerInv, Handler
<1>2. Hinted(l) /\ ChosenFits(l) /\ AnswerFits(l)
  BY <1>1 DEF IInv, BrowserInv
<1>3. /\ r \in seen[h] /\ r[1] \in Connection
      /\ IssuerOf[r[1]] = IssuerOf[answer[l]]
      /\ r[1] \in Named(l) \/ ScopeOf[r[1]] = ask[l].scope
  BY <1>1 DEF Matches, HandlerFits, TypeOK
<1>4. answer[l] = chosen[l] /\ chosen[l] \in Connection /\ chosen[l] # None
  BY <1>1, <1>2, FlowAssumption DEF HandlerFits, AnswerFits
<1>5. How(l) \in Flow /\ SameIdp(l, r[1]) /\ None \notin Connection
  BY <1>1, <1>3, FlowAssumption DEF TypeOK, How, SameIdp
<1>6. CASE Federated(l)
  BY <1>3, <1>5, <1>6 DEF Fits, Suits, Named, Federated
<1>7. CASE How(l) \in {"scope", "client"}
  <2>1. r[1] \in {ask[l].client, ask[l].hint} \/ ScopeOf[r[1]] = ask[l].scope
    BY <1>2, <1>3, <1>5, <1>7 DEF Named, Hinted, Federated
  <2>2. ASSUME NamesOneTenant(l) PROVE r[1] = chosen[l]
    <3>1. ScopeOf[r[1]] = ask[l].scope
      BY <1>3, <1>5, <2>1, <2>2 DEF NamesOneTenant
    <3>2. CASE How(l) = "client"
      BY <1>1, <1>2, <1>3, <1>4, <3>1, <3>2, FlowAssumption
         DEF ChosenFits, TypeOK, How
    <3>3. CASE How(l) = "scope"
      <4>1. ScopeOf[chosen[l]] = ask[l].scope
        BY <1>2, <1>4, <2>2, <3>3, <1>5 DEF ChosenFits, Hinted, NamesOneTenant
      <4>. QED
        BY <1>3, <1>4, <3>1, <4>1, FlowAssumption
    <3>. QED
      BY <1>7, <3>2, <3>3
  <2>. QED
    BY <1>3, <1>5, <1>7, <2>1, <2>2 DEF Fits, Suits, Federated
<1>. QED
  BY <1>3, <1>5, <1>6, <1>7 DEF Federated, Flow

\* A handler that moves keeps to what fits its login.
LEMMA RespondFits ==
  ASSUME IInv, TypeOK', [Next]_vars, NEW l \in Login, NEW h \in Handler,
         l = h[1], Respond(l, h)
  PROVE  HandlerFits(h)'
<1>1. /\ TypeOK /\ HandlerFits(h) /\ AnswerFits(l) /\ ChosenFits(l) /\ Hinted(l)
      /\ Sent(l)
  BY DEF IInv, HandlerInv, BrowserInv
<1>2. stage[l] = "answered"
  BY <1>1 DEF Respond, SamlLocate, SamlMatch, SamlRefuse, IdpSelect, IdpMatch,
     IdpRefuse, OidcLocate, OidcMatch, Grant, GrantFails, Close, CloseFails,
     Begin, HandlerFits
<1>3. /\ ask'[l] = ask[l] /\ chosen'[l] = chosen[l]
      /\ answer'[l] = answer[l] /\ stage'[l] = "answered"
  BY <1>2, AnsweredStays
<1>4. ASSUME NEW c, Fits(l, c) PROVE Fits(l, c)'
  BY <1>2, <1>4, FitsStays
<1>5. pc[h] # "done" /\ UNCHANGED xpc
  BY DEF Respond, SamlLocate, SamlMatch, SamlRefuse, IdpSelect, IdpMatch,
     IdpRefuse, OidcLocate, OidcMatch, Grant, GrantFails, Close, CloseFails,
     Begin, clientVars
<1>6. xpc'[h] = "none"
  BY <1>1, <1>5 DEF HandlerFits
<1>4a. ASSUME NEW c, Suits(l, c) PROVE Suits(l, c)'
  BY <1>3, <1>4a DEF Suits, NamesOneTenant, How, Federated
<1>7. ASSUME seen' = seen, pc'[h] \notin {"matched", "closing", "done"}
      PROVE  HandlerFits(h)'
  BY <1>1, <1>3, <1>6, <1>7 DEF HandlerFits
<1>8. ASSUME seen' = seen, NEW c \in Connection, Fits(l, c), match'[h] = c
      PROVE  HandlerFits(h)'
  BY <1>1, <1>3, <1>4, <1>6, <1>8 DEF HandlerFits, Fits
<1>9. CASE SamlLocate(l, h)
  <2>1. seen'[h] = {<<c, conn[c].urls>> : c \in SameIssuer(l)}
    BY <1>1, <1>9 DEF SamlLocate, TypeOK
  <2>2. \A r \in seen'[h] : IssuerOf[r[1]] = IssuerOf[answer[l]]
    BY <2>1 DEF SameIssuer
  <2>3. pc'[h] \in {"failed", "located"}
    BY <1>1, <1>9 DEF SamlLocate, Advance, TypeOK
  <2>. QED
    BY <1>3, <1>6, <2>2, <2>3 DEF HandlerFits
<1>10. CASE SamlMatch(l, h)
  <2>1. PICK r \in Matches(l, h) : Settle(h, r[1])
    BY <1>10 DEF SamlMatch
  <2>2. r[1] \in Connection /\ Fits(l, r[1])
    BY <1>10, <2>1, MatchFits DEF SamlMatch
  <2>3. match'[h] = r[1]
    BY <1>1, <2>1 DEF Settle, TypeOK
  <2>. QED
    BY <1>8, <1>10, <2>2, <2>3 DEF SamlMatch
<1>11. CASE SamlRefuse(l, h) \/ IdpRefuse(l, h)
  BY <1>1, <1>7, <1>11 DEF SamlRefuse, IdpRefuse, Advance, TypeOK
<1>12. CASE IdpSelect(l, h)
  <2>1. seen'[h] = {} /\ pc'[h] = "idle"
    BY <1>1, <1>12 DEF IdpSelect, Advance, TypeOK
  <2>. QED
    BY <1>6, <2>1 DEF HandlerFits
<1>13. CASE IdpMatch(l, h)
  <2>1. PICK c \in IdpCandidates(l) : Settle(h, c)
    BY <1>13 DEF IdpMatch
  <2>2. c \in Connection /\ Suits(l, c)
    BY <1>1, <1>13, <2>1
       DEF IdpMatch, IdpCandidates, SameIssuer, Hinted, TypeOK, Suits
  <2>3. match'[h] = c /\ pc'[h] = "matched" /\ How(l)' = "idp"
    BY <1>1, <1>3, <1>13, <2>1 DEF IdpMatch, Settle, Advance, TypeOK, How
  <2>4. Suits(l, c)'
    BY <1>4a, <2>2
  <2>. QED
    BY <1>1, <1>3, <1>6, <1>13, <2>2, <2>3, <2>4 DEF HandlerFits, IdpMatch
<1>14. CASE OidcLocate(l, h)
  <2>1. pc'[h] \in {"located", "failed"} /\ seen' = seen
    BY <1>1, <1>14 DEF OidcLocate, Advance, TypeOK
  <2>. QED
    BY <1>7, <2>1
<1>15. CASE OidcMatch(l, h)
  <2>1. chosen[l] = answer[l] /\ answer[l] \in Connection
    BY <1>1, <1>2, <1>15 DEF OidcMatch, AnswerFits
  <2>2. CASE Settle(h, chosen[l])
    <3>1. match'[h] = chosen[l]
      BY <1>1, <2>2 DEF Settle, TypeOK
    <3>2. Fits(l, chosen[l])
      BY <1>1, <1>2, <1>15, <2>1 DEF OidcMatch, Fits, Suits, SameIdp, AnswerFits
    <3>. QED
      BY <1>8, <1>15, <2>1, <3>1, <3>2 DEF OidcMatch
  <2>3. CASE Advance(h, "failed")
    <3>1. pc'[h] = "failed"
      BY <1>1, <2>3 DEF Advance, TypeOK
    <3>. QED
      BY <1>7, <1>15, <3>1 DEF OidcMatch
  <2>. QED
    BY <1>15, <2>2, <2>3 DEF OidcMatch
<1>16. CASE Grant(l, h) \/ Close(l, h)
  <2>1. Suits(l, match[h]) /\ match[h] \in Connection
    BY <1>1, <1>16 DEF Grant, Close, HandlerFits
  <2>2. SameIdp(l, match[h])
    <3>1. CASE Close(l, h)
      BY <1>1, <3>1 DEF Close, HandlerFits
    <3>2. CASE Grant(l, h) /\ Kind[answer[l]] = "saml"
      BY <3>2 DEF Grant, Validates, SameIdp
    <3>3. CASE Grant(l, h) /\ Kind[answer[l]] # "saml"
      BY <1>1, <1>2, <3>3 DEF Grant, HandlerFits, AnswerFits
    <3>. QED
      BY <1>16, <3>1, <3>2, <3>3
  <2>. QED
    BY <1>8, <1>16, <2>1, <2>2 DEF Grant, Close, Fits
<1>17. CASE GrantFails(l, h) \/ CloseFails(l, h)
  BY <1>1, <1>7, <1>17 DEF GrantFails, CloseFails, Advance, TypeOK
<1>. QED
  BY <1>9, <1>10, <1>11, <1>12, <1>13, <1>14, <1>15, <1>16, <1>17 DEF Respond

LEMMA HandlerStep == IInv /\ [Next]_vars => HandlerInv'
<1> SUFFICES ASSUME IInv, [Next]_vars, NEW g \in Handler
             PROVE  HandlerFits(g)'
  BY DEF HandlerInv
<1>1. TypeOK /\ TypeOK' /\ HandlerFits(g)
  BY TypeStep DEF IInv, HandlerInv
<1>2. ASSUME NEW l \in Login, NEW h \in Handler, l = h[1], Respond(l, h)
      PROVE  HandlerFits(g)'
  <2>1. CASE g = h
    BY <1>1, <1>2, <2>1, RespondFits
  <2>2. CASE g # h
    <3>1. pc'[g] = pc[g] /\ seen'[g] = seen[g] /\ match'[g] = match[g]
      BY <1>1, <1>2, <2>2 DEF Respond, SamlLocate, SamlMatch, SamlRefuse,
         IdpSelect, IdpMatch, IdpRefuse, OidcLocate, OidcMatch, Grant,
         GrantFails, Close, CloseFails, Settle, Advance, TypeOK
    <3>2. xpc' = xpc
      BY <1>2 DEF Respond, SamlLocate, SamlMatch, SamlRefuse,
         IdpSelect, IdpMatch, IdpRefuse, OidcLocate, OidcMatch, Grant,
         GrantFails, Close, CloseFails, clientVars
    <3>. QED
      BY <1>1, <3>1, <3>2, SameHandler DEF HandlerFits
  <2>. QED
    BY <2>1, <2>2
<1>3. ASSUME NEW l \in Login, NEW h \in Handler, l = h[1],
             Exchange(l, h) \/ Expire(l, h)
      PROVE  HandlerFits(g)'
  <2>1. UNCHANGED <<pc, seen, match>>
    BY <1>3 DEF Exchange, TokenRead, TokenPut, TokenAnswered, TokenLost,
       UserInfo, Expire, handlerVars
  <2>2. xpc'[g] # "none" => pc[g] = "done"
    BY <1>1, <1>3 DEF Exchange, TokenRead, TokenPut, TokenAnswered, TokenLost,
       UserInfo, Expire, HandlerFits, TypeOK
  <2>. QED
    BY <2>1, <2>2, SameHandler
<1>4. ASSUME UNCHANGED <<pc, seen, match, xpc>> PROVE HandlerFits(g)'
  BY <1>1, <1>4, SameHandler DEF HandlerFits
<1>5. ASSUME NEW l \in Login, Authorize(l) \/ Vouch(l) PROVE HandlerFits(g)'
  BY <1>4, <1>5 DEF Authorize, ResolveRefused, ResolveMany, Choose, ResolveOne,
     Store, Vouch, handlerVars, clientVars
<1>6. ASSUME NEW c \in Connection, ConnectionChanges(c) PROVE HandlerFits(g)'
  BY <1>4, <1>6 DEF ConnectionChanges, clientVars
<1>7. CASE UNCHANGED vars
  BY <1>4, <1>7 DEF vars, handlerVars, clientVars
<1>. QED
  BY <1>2, <1>3, <1>5, <1>6, <1>7, StepCases

-----------------------------------------------------------------------------
\* Profiles are handed out by a SAML response and by userInfo only.
LEMMA LearnedQuiet ==
  ASSUME [Next]_vars
  PROVE  \/ UNCHANGED learned
         \/ \E l \in Login, h \in Handler :
              l = h[1] /\ (Close(l, h) \/ UserInfo(l, h))
<1>1. ASSUME NEW l \in Login, NEW h \in Handler, Respond(l, h)
      PROVE  UNCHANGED learned \/ Close(l, h)
  BY <1>1 DEF Respond, SamlLocate, SamlMatch, SamlRefuse, IdpSelect, IdpMatch,
     IdpRefuse, OidcLocate, OidcMatch, Grant, GrantFails, CloseFails, clientVars
<1>2. ASSUME NEW l \in Login, NEW h \in Handler, Exchange(l, h) \/ Expire(l, h)
      PROVE  UNCHANGED learned \/ UserInfo(l, h)
  BY <1>2 DEF Exchange, TokenRead, TokenPut, TokenAnswered, TokenLost, Expire
<1>3. ASSUME NEW l \in Login, Authorize(l) \/ Vouch(l)
      PROVE  UNCHANGED learned
  BY <1>3 DEF Authorize, ResolveRefused, ResolveMany, Choose, ResolveOne, Store,
     Vouch, clientVars
<1>4. ASSUME NEW c \in Connection, ConnectionChanges(c)
      PROVE  UNCHANGED learned
  BY <1>4 DEF ConnectionChanges, clientVars
<1>5. CASE UNCHANGED vars
  BY <1>5 DEF vars, clientVars
<1>. QED
  BY <1>1, <1>2, <1>3, <1>4, <1>5, StepCases

LEMMA LearnedStep == IInv /\ [Next]_vars => LearnedInv'
<1> SUFFICES ASSUME IInv, [Next]_vars, NEW l \in Login, NEW c \in learned'[l]
             PROVE  stage'[l] = "answered" /\ Fits(l, c)'
  BY DEF LearnedInv
<1>1. ASSUME stage[l] = "answered", Fits(l, c)
      PROVE  stage'[l] = "answered" /\ Fits(l, c)'
  BY <1>1, AnsweredStays, FitsStays
<1>2. CASE c \in learned[l]
  BY <1>1, <1>2 DEF IInv, LearnedInv
<1>3. CASE c \notin learned[l]
  <2>1. PICK k \in Login, h \in Handler :
          k = h[1] /\ (Close(k, h) \/ UserInfo(k, h))
    BY <1>3, LearnedQuiet
  <2>2. k = l /\ c = match[h]
    BY <1>3, <2>1 DEF Close, UserInfo, IInv, TypeOK
  <2>3. pc[h] \in {"closing", "done"} /\ HandlerFits(h)
    BY <2>1 DEF Close, UserInfo, IInv, HandlerInv, HandlerFits
  <2>. QED
    BY <1>1, <2>1, <2>2, <2>3 DEF HandlerFits, Fits
<1>. QED
  BY <1>2, <1>3

-----------------------------------------------------------------------------
LEMMA InitInv == Init => IInv
<1> SUFFICES ASSUME Init PROVE IInv
  OBVIOUS
<1>1. BrowserInv
  BY DEF Init, BrowserInv, Sent, Hinted, ChosenFits, AnswerFits
<1>2. HandlerInv
  BY DEF Init, HandlerInv, HandlerFits
<1>3. LearnedInv
  BY DEF Init, LearnedInv
<1>. QED
  BY <1>1, <1>2, <1>3, InitTyped DEF IInv

LEMMA InvStep == IInv /\ [Next]_vars => IInv'
BY TypeStep, BrowserStep, HandlerStep, LearnedStep DEF IInv

LEMMA Invariant == Spec => []IInv
BY InitInv, InvStep, PTL DEF Spec

(***************************************************************************)
(* State and records keep their types, and no session is stored before the *)
(* login is resolved to a connection (oauth.ts:519-570).                   *)
(***************************************************************************)
THEOREM TypeCorrect == Spec => []TypeOK
<1>1. IInv => TypeOK
  BY DEF IInv
<1>. QED
  BY <1>1, Invariant, PTL

(***************************************************************************)
(* However many tenants share an IdP, whatever connections a request       *)
(* hints at or names, however often an answer is posted and whatever       *)
(* becomes of the connections and records in between, a profile is of the  *)
(* IdP that answered and of a connection that the request names or whose   *)
(* tenant it asks for; it is of the one that the login resolved to if all  *)
(* that the request names is of one tenant (oauth.ts:716-730, 890-896).    *)
(***************************************************************************)
THEOREM NoMixUp == Spec => []ProfileOfRequest
<1>1. IInv => ProfileOfRequest
  BY DEF IInv, LearnedInv, Fits, Suits, SameIdp, ProfileOfRequest
<1>. QED
  BY <1>1, Invariant, PTL

-----------------------------------------------------------------------------
\* Once the browser was sent on, the session is gone, and a handler that
\* begins after that gets no further than to find it missing.
LateFits(h) ==
  /\ pc[h] = "done" => ~session[h[1]]
  /\ late[h] /\ How(h[1]) # "idp" =>
       /\ ~session[h[1]] /\ stage[h[1]] = "answered"
       /\ pc[h] \in {"located", "failed"}
       /\ Kind[answer[h[1]]] = "oidc" => pc[h] = "failed"

LateInv == \A h \in Handler : LateFits(h)

\* allowed holds every connection that allows the URL now, or did so when
\* the handler read it.
AllowedFits(h) ==
  /\ pc[h] = "idle" => seen[h] = {}
  /\ pc[h] # "idle" =>
       /\ \A c \in Connection :
            RedirectAllowed(h[1], conn[c].urls) => c \in allowed[h]
       /\ \A r \in seen[h] : RedirectAllowed(h[1], r[2]) => r[1] \in allowed[h]
  /\ pc[h] \in {"matched", "closing", "done"} /\ How(h[1]) # "idp" =>
       match[h] \in allowed[h]

AllowedInv == \A h \in Handler : AllowedFits(h)

\* A login asks for the same all along.
LEMMA AskStays == [Next]_vars => ask' = ask
<1> SUFFICES ASSUME [Next]_vars PROVE ask' = ask
  OBVIOUS
<1>1. CASE UNCHANGED browserVars
  BY <1>1 DEF browserVars
<1>2. ASSUME NEW l \in Login, Authorize(l) \/ Vouch(l) PROVE ask' = ask
  BY <1>2 DEF Authorize, ResolveRefused, ResolveMany, Choose, ResolveOne, Store,
     Vouch
<1>3. ASSUME NEW l \in Login, NEW h \in Handler, IdpSelect(l, h)
      PROVE  ask' = ask
  BY <1>3 DEF IdpSelect
<1>. QED
  BY <1>1, <1>2, <1>3, BrowserQuiet

\* A step of a handler leaves all others, and the connections, as they are.
LEMMA OthersStay ==
  ASSUME TypeOK, NEW l \in Login, NEW h \in Handler, Respond(l, h),
         NEW g \in Handler, g # h
  PROVE  /\ pc'[g] = pc[g] /\ seen'[g] = seen[g] /\ match'[g] = match[g]
         /\ late'[g] = late[g] /\ allowed'[g] = allowed[g] /\ conn' = conn
BY DEF Respond, SamlLocate, SamlMatch, SamlRefuse, IdpSelect, IdpMatch,
   IdpRefuse, OidcLocate, OidcMatch, Grant, GrantFails, Close, CloseFails,
   Begin, Settle, Advance, TypeOK

\* Handlers move, and forget what they read, in steps of their own only.
LEMMA HandlersQuiet ==
  ASSUME [Next]_vars
  PROVE  \/ \E l \in Login, h \in Handler : l = h[1] /\ Respond(l, h)
         \/ UNCHANGED <<pc, seen, match, late, allowed, conn>>
         \/ \E c \in Connection : ConnectionChanges(c)
<1>1. ASSUME NEW l \in Login, NEW h \in Handler, Exchange(l, h) \/ Expire(l, h)
      PROVE  UNCHANGED <<pc, seen, match, late, allowed, conn>>
  BY <1>1 DEF Exchange, TokenRead, TokenPut, TokenAnswered, TokenLost, UserInfo,
     Expire, handlerVars
<1>2. ASSUME NEW l \in Login, Authorize(l) \/ Vouch(l)
      PROVE  UNCHANGED <<pc, seen, match, late, allowed, conn>>
  BY <1>2 DEF Authorize, ResolveRefused, ResolveMany, Choose, ResolveOne, Store,
     Vouch, handlerVars
<1>3. CASE UNCHANGED vars
  BY <1>3 DEF vars, handlerVars
<1>. QED
  BY <1>1, <1>2, <1>3, StepCases

\* The session of an answered login does not come back.
LEMMA SessionGone ==
  ASSUME IInv, [Next]_vars, NEW l \in Login, stage[l] = "answered", ~session[l]
  PROVE  ~session'[l]
<1>1. TypeOK
  BY DEF IInv
<1>2. ASSUME NEW k \in Login, Authorize(k) \/ Vouch(k) PROVE ~session'[l]
  BY <1>1, <1>2 DEF Authorize, ResolveRefused, ResolveMany, Choose, ResolveOne,
     Store, Vouch, TypeOK
<1>3. ASSUME NEW k \in Login, NEW h \in Handler, Respond(k, h)
      PROVE  ~session'[l]
  BY <1>1, <1>3 DEF Respond, SamlLocate, SamlMatch, SamlRefuse, IdpSelect,
     IdpMatch, IdpRefuse, OidcLocate, OidcMatch, Grant, GrantFails, Close,
     CloseFails, TypeOK
<1>4. ASSUME NEW k \in Login, NEW h \in Handler, Exchange(k, h) \/ Expire(k, h)
      PROVE  ~session'[l]
  BY <1>1, <1>4 DEF Exchange, TokenRead, TokenPut, TokenAnswered, TokenLost,
     UserInfo, Expire, TypeOK
<1>5. ASSUME NEW c \in Connection, ConnectionChanges(c) PROVE ~session'[l]
  BY <1>5 DEF ConnectionChanges
<1>6. CASE UNCHANGED vars
  BY <1>6 DEF vars
<1>. QED
  BY <1>2, <1>3, <1>4, <1>5, <1>6, StepCases

\* A handler's own steps: if it began late it does not get past the session.
LEMMA RespondLate ==
  ASSUME IInv, LateInv, [Next]_vars, NEW l \in Login, NEW h \in Handler,
         l = h[1], Respond(l, h)
  PROVE  LateFits(h)'
<1>1. TypeOK /\ LateFits(h) /\ HandlerFits(h)
  BY DEF IInv, LateInv, HandlerInv
<1>2. stage[l] = "answered"
  BY <1>1 DEF Respond, SamlLocate, SamlMatch, SamlRefuse, IdpSelect, IdpMatch,
     IdpRefuse, OidcLocate, OidcMatch, Grant, GrantFails, Close, CloseFails,
     Begin, HandlerFits
<1>3. /\ How(l)' = How(l) /\ answer'[l] = answer[l] /\ stage'[l] = "answered"
      /\ ~session[l] => ~session'[l]
  BY <1>2, AnsweredStays, SessionGone DEF How
<1>4. ASSUME \E t \in Try : pc[<<l, t>>] = "done" PROVE ~session[l]
  BY <1>4 DEF LateInv, LateFits, Handler
<1>5. CASE Begin(l, h) /\ (SamlLocate(l, h) \/ OidcLocate(l, h))
  <2>1. late'[h] = \E t \in Try : pc[<<l, t>>] = "done"
    BY <1>1, <1>5 DEF Begin, TypeOK
  <2>2. pc'[h] \in {"located", "failed"}
    BY <1>1, <1>5 DEF SamlLocate, OidcLocate, Advance, TypeOK
  <2>3. Kind[answer[l]] = "oidc" /\ ~session[l] => pc'[h] = "failed"
    BY <1>1, <1>5 DEF SamlLocate, OidcLocate, Advance, TypeOK
  <2>. QED
    BY <1>2, <1>3, <1>4, <2>1, <2>2, <2>3 DEF LateFits
<1>6. CASE IdpSelect(l, h) \/ IdpMatch(l, h) \/ IdpRefuse(l, h)
  <2>1. How(l) = "idp"
    BY <1>6 DEF IdpSelect, IdpMatch, IdpRefuse
  <2>2. pc'[h] # "done"
    BY <1>1, <1>6 DEF IdpSelect, IdpMatch, IdpRefuse, Settle, Advance, TypeOK
  <2>. QED
    BY <1>3, <2>1, <2>2 DEF LateFits
<1>7. CASE SamlRefuse(l, h)
  BY <1>1, <1>2, <1>3, <1>7 DEF SamlRefuse, Advance, LateFits, TypeOK
<1>8. CASE SamlMatch(l, h) \/ OidcMatch(l, h)
  <2>1. ~(late[h] /\ How(l) # "idp")
    <3>1. CASE SamlMatch(l, h)
      BY <1>1, <3>1 DEF SamlMatch, LateFits
    <3>2. CASE OidcMatch(l, h)
      BY <1>1, <3>2 DEF OidcMatch, LateFits
    <3>. QED
      BY <1>8, <3>1, <3>2
  <2>2. pc'[h] # "done" /\ late' = late
    BY <1>1, <1>8 DEF SamlMatch, OidcMatch, Settle, Advance, TypeOK
  <2>. QED
    BY <1>3, <2>1, <2>2 DEF LateFits
<1>9. CASE Grant(l, h) \/ GrantFails(l, h) \/ CloseFails(l, h)
  <2>1. ~(late[h] /\ How(l) # "idp")
    BY <1>1, <1>9 DEF Grant, GrantFails, CloseFails, LateFits
  <2>2. pc'[h] # "done" /\ late' = late
    BY <1>1, <1>9 DEF Grant, GrantFails, CloseFails, Advance, TypeOK
  <2>. QED
    BY <1>3, <2>1, <2>2 DEF LateFits
<1>10. CASE Close(l, h)
  <2>1. ~(late[h] /\ How(l) # "idp")
    BY <1>1, <1>10 DEF Close, LateFits
  <2>2. ~session'[l] /\ late' = late
    BY <1>1, <1>10 DEF Close, TypeOK
  <2>. QED
    BY <1>3, <2>1, <2>2 DEF LateFits
<1>. QED
  BY <1>5, <1>6, <1>7, <1>8, <1>9, <1>10 DEF Respond, SamlLocate, OidcLocate

LEMMA LateStep == IInv /\ LateInv /\ [Next]_vars => LateInv'
<1> SUFFICES ASSUME IInv, LateInv, [Next]_vars, NEW g \in Handler
             PROVE  LateFits(g)'
  BY DEF LateInv
<1>1. LateFits(g) /\ HandlerFits(g) /\ TypeOK /\ g[1] \in Login
  BY DEF LateInv, IInv, HandlerInv, Handler
<1>2. ASSUME pc'[g] = pc[g], late'[g] = late[g] PROVE LateFits(g)'
  <2>1. How(g[1])' = How(g[1])
    BY AskStays DEF How
  <2>2. stage[g[1]] = "answered" =>
          /\ answer'[g[1]] = answer[g[1]] /\ stage'[g[1]] = "answered"
          /\ ~session[g[1]] => ~session'[g[1]]
    BY <1>1, AnsweredStays, SessionGone
  <2>3. pc[g] = "done" => stage[g[1]] = "answered"
    BY <1>1 DEF HandlerFits
  <2>. QED
    BY <1>1, <1>2, <2>1, <2>2, <2>3 DEF LateFits
<1>3. ASSUME NEW l \in Login, NEW h \in Handler, l = h[1], Respond(l, h)
      PROVE  LateFits(g)'
  BY <1>1, <1>2, <1>3, RespondLate, OthersStay
<1>4. ASSUME NEW c \in Connection, ConnectionChanges(c) PROVE LateFits(g)'
  BY <1>2, <1>4 DEF ConnectionChanges
<1>. QED
  BY <1>2, <1>3, <1>4, HandlersQuiet

LEMMA InitLate == Init => LateInv
BY DEF Init, LateInv, LateFits

(***************************************************************************)
(* However often and by however many handlers an answer is posted, once    *)
(* the browser was sent on a new post gets neither code nor response       *)
(* (oauth.ts:676-680, 810, 880-883, 996).                                  *)
(***************************************************************************)
THEOREM AnswerGoodOnce == Spec => []LateAnswerRefused
<1>1. LateInv => LateAnswerRefused
  BY DEF LateInv, LateFits, LateAnswerRefused
<1>. QED
  BY <1>1, Invariant, InitLate, LateStep, PTL DEF Spec

-----------------------------------------------------------------------------
\* A handler's own steps: what it reads or settles on allowed the URL.
LEMMA RespondAllowed ==
  ASSUME IInv, AllowedInv, [Next]_vars, NEW l \in Login, NEW h \in Handler,
         l = h[1], Respond(l, h)
  PROVE  AllowedFits(h)'
<1>1. TypeOK /\ AllowedFits(h) /\ HandlerFits(h) /\ AnswerFits(l)
  BY DEF IInv, AllowedInv, HandlerInv, BrowserInv
<1>2. UNCHANGED <<conn, ask>>
  BY AskStays DEF Respond, SamlLocate, SamlMatch, SamlRefuse, IdpSelect,
     IdpMatch, IdpRefuse, OidcLocate, OidcMatch, Grant, GrantFails, Close,
     CloseFails
<1>3. /\ \A u : RedirectAllowed(l, u)' <=> RedirectAllowed(l, u)
      /\ How(l)' = How(l)
  BY <1>2 DEF RedirectAllowed, How
<1>4. ASSUME pc[h] # "idle", UNCHANGED <<seen, allowed>>, pc'[h] # "idle",
             pc'[h] \in {"matched", "closing", "done"} /\ How(l) # "idp" =>
               match'[h] \in allowed[h]
      PROVE  AllowedFits(h)'
  BY <1>1, <1>2, <1>3, <1>4 DEF AllowedFits
<1>5. ASSUME pc[h] = "idle", pc'[h] \in {"located", "failed"},
             allowed'[h] = {c \in Connection : RedirectAllowed(l, conn[c].urls)},
             \A r \in seen'[h] : r[1] \in Connection /\ r[2] = conn[r[1]].urls
      PROVE  AllowedFits(h)'
  BY <1>2, <1>3, <1>5 DEF AllowedFits
<1>6. CASE SamlLocate(l, h) \/ OidcLocate(l, h)
  <2>1. /\ pc[h] = "idle"
        /\ allowed'[h] = {c \in Connection : RedirectAllowed(l, conn[c].urls)}
    BY <1>1, <1>6 DEF SamlLocate, OidcLocate, Begin, TypeOK
  <2>2. pc'[h] \in {"located", "failed"}
    BY <1>1, <1>6 DEF SamlLocate, OidcLocate, Advance, TypeOK
  <2>3. CASE SamlLocate(l, h)
    <3>1. seen'[h] = {<<c, conn[c].urls>> : c \in SameIssuer(l)}
      BY <1>1, <2>3 DEF SamlLocate, TypeOK
    <3>. QED
      BY <1>5, <2>1, <2>2, <3>1 DEF SameIssuer
  <2>4. CASE OidcLocate(l, h)
    <3>1. seen'[h] = {}
      BY <1>1, <2>1, <2>4 DEF OidcLocate, AllowedFits
    <3>. QED
      BY <1>5, <2>1, <2>2, <3>1
  <2>. QED
    BY <1>6, <2>3, <2>4
<1>7. CASE SamlMatch(l, h)
  <2>1. PICK r \in seen[h] : RedirectAllowed(l, r[2]) /\ Settle(h, r[1])
    BY <1>7 DEF SamlMatch, Matches
  <2>2. match'[h] = r[1] /\ pc'[h] = "matched"
    BY <1>1, <2>1 DEF Settle, Advance, TypeOK
  <2>3. r[1] \in allowed[h]
    BY <1>1, <1>7, <2>1 DEF SamlMatch, AllowedFits
  <2>. QED
    BY <1>4, <1>7, <2>2, <2>3 DEF SamlMatch
<1>8. CASE SamlRefuse(l, h) \/ IdpMatch(l, h) \/ IdpRefuse(l, h)
  <2>1. pc'[h] = "failed" \/ (How(l) = "idp" /\ pc'[h] # "idle")
    BY <1>1, <1>8 DEF SamlRefuse, IdpMatch, IdpRefuse, Settle, Advance, TypeOK
  <2>. QED
    BY <1>4, <1>8, <2>1 DEF SamlRefuse, IdpMatch, IdpRefuse
<1>9. CASE IdpSelect(l, h)
  BY <1>1, <1>9 DEF IdpSelect, Advance, AllowedFits, TypeOK
<1>10. CASE OidcMatch(l, h)
  <2>1. chosen[l] \in Connection \/ How(l) = "idp"
    BY <1>1, <1>10 DEF OidcMatch, AnswerFits, HandlerFits
  <2>2. CASE RedirectAllowed(l, conn[chosen[l]].urls) /\ Settle(h, chosen[l])
    <3>1. match'[h] = chosen[l] /\ pc'[h] = "matched"
      BY <1>1, <2>2 DEF Settle, Advance, TypeOK
    <3>2. How(l) # "idp" => chosen[l] \in allowed[h]
      BY <1>1, <1>10, <2>1, <2>2 DEF OidcMatch, AllowedFits
    <3>. QED
      BY <1>4, <1>10, <3>1, <3>2 DEF OidcMatch
  <2>3. CASE Advance(h, "failed")
    <3>1. pc'[h] = "failed"
      BY <1>1, <2>3 DEF Advance, TypeOK
    <3>. QED
      BY <1>4, <1>10, <3>1 DEF OidcMatch
  <2>. QED
    BY <1>10, <2>2, <2>3 DEF OidcMatch
<1>11. CASE Grant(l, h) \/ Close(l, h)
  <2>1. pc'[h] \in {"closing", "done"} /\ UNCHANGED <<seen, match, allowed>>
    BY <1>1, <1>11 DEF Grant, Close, Advance, TypeOK
  <2>2. pc[h] \in {"matched", "closing"}
    BY <1>11 DEF Grant, Close
  <2>3. How(l) # "idp" => match[h] \in allowed[h]
    BY <1>1, <2>2 DEF AllowedFits
  <2>. QED
    BY <1>4, <2>1, <2>2, <2>3
<1>12. CASE GrantFails(l, h) \/ CloseFails(l, h)
  <2>1. pc'[h] = "failed" /\ pc[h] # "idle" /\ UNCHANGED <<seen, allowed>>
    BY <1>1, <1>12 DEF GrantFails, CloseFails, Advance, TypeOK
  <2>. QED
    BY <1>4, <2>1
<1>. QED
  BY <1>6, <1>7, <1>8, <1>9, <1>10, <1>11, <1>12 DEF Respond

LEMMA AllowedStep == IInv /\ AllowedInv /\ [Next]_vars => AllowedInv'
<1> SUFFICES ASSUME IInv, AllowedInv, [Next]_vars, NEW g \in Handler
             PROVE  AllowedFits(g)'
  BY DEF AllowedInv
<1>1. AllowedFits(g) /\ TypeOK /\ g[1] \in Login
  BY DEF AllowedInv, IInv, Handler
<1>2. /\ \A u : RedirectAllowed(g[1], u)' <=> RedirectAllowed(g[1], u)
      /\ How(g[1])' = How(g[1])
  BY AskStays DEF RedirectAllowed, How
<1>3. ASSUME pc'[g] = pc[g], seen'[g] = seen[g], match'[g] = match[g],
             allowed'[g] = allowed[g], conn' = conn
      PROVE  AllowedFits(g)'
  BY <1>1, <1>2, <1>3 DEF AllowedFits
<1>4. ASSUME NEW l \in Login, NEW h \in Handler, l = h[1], Respond(l, h)
      PROVE  AllowedFits(g)'
  BY <1>1, <1>3, <1>4, RespondAllowed, OthersStay
<1>5. ASSUME NEW c \in Connection, ConnectionChanges(c) PROVE AllowedFits(g)'
  <2>1. PICK s \in Changes :
          /\ conn' = [conn EXCEPT ![c] = s]
          /\ allowed' = [h \in Handler |->
               IF pc[h] # "idle" /\ RedirectAllowed(h[1], s.urls)
                 THEN allowed[h] \cup {c} ELSE allowed[h]]
    BY <1>5 DEF ConnectionChanges
  <2>2. UNCHANGED <<pc, seen, match>>
    BY <1>5 DEF ConnectionChanges
  <2>3. /\ allowed[g] \subseteq allowed'[g]
        /\ pc[g] # "idle" /\ RedirectAllowed(g[1], s.urls) => c \in allowed'[g]
    BY <2>1
  <2>4. \A d \in Connection : conn'[d] = IF d = c THEN s ELSE conn[d]
    BY <1>1, <2>1 DEF TypeOK
  <2>. QED
    BY <1>1, <1>2, <2>2, <2>3, <2>4 DEF AllowedFits
<1>. QED
  BY <1>3, <1>4, <1>5, HandlersQuiet

LEMMA InitAllowed == Init => AllowedInv
BY DEF Init, AllowedInv, AllowedFits

(***************************************************************************)
(* Whatever becomes of the connections, a handler hands out a code only    *)
(* for a URL that the code's connection allowed after the answer came in   *)
(* (oauth.ts:732-744, 898-913).                                            *)
(***************************************************************************)
THEOREM UrlCheckedAgain == Spec => []RedirectRechecked
<1>1. AllowedInv => RedirectRechecked
  BY DEF AllowedInv, AllowedFits, RedirectRechecked
<1>. QED
  BY <1>1, Invariant, InitAllowed, AllowedStep, PTL DEF Spec
-----------------------------------------------------------------------------
(***************************************************************************)
(* The refinement of LoginPromise.  Most steps show nothing outside: only  *)
(* the browser's departure, the IdP's word, the start and the end of a     *)
(* handler, and the client's call of userInfo do.                          *)
(***************************************************************************)
\* Nothing that browser, IdP or client get to see changes.
Unseen == UNCHANGED <<ask, SentTo, answer, TakenUp, HandedOver, learned>>

LEMMA UnseenIsStutter == Unseen => UNCHANGED Promise!vars
BY DEF Unseen, Promise!vars

\* Browsers alone show where they were sent to, handlers alone the rest.
LEMMA SentToStays ==
  ASSUME \A l \in Login :
           \/ stage'[l] = stage[l] /\ chosen'[l] = chosen[l]
           \/ {stage[l], stage'[l]} \cap {"away", "answered"} = {}
  PROVE  SentTo' = SentTo
BY DEF SentTo

LEMMA HandlersUnseen ==
  ASSUME ask' = ask,
         \A h \in Handler :
           \/ pc'[h] = pc[h] /\ late'[h] = late[h] /\ match'[h] = match[h]
           \/ /\ late'[h] = late[h]
              /\ {pc[h], pc'[h]} \cap {"idle", "done"} = {}
  PROVE  TakenUp' = TakenUp /\ HandedOver' = HandedOver
<1>1. \A h \in Handler : How(h[1])' = How(h[1])
  BY DEF How
<1>2. TakenUp' = TakenUp
  BY <1>1 DEF TakenUp
<1>3. HandedOver' = HandedOver
  BY DEF HandedOver
<1>. QED
  BY <1>2, <1>3

\* Which connections the promise speaks of, in the terms of the code.
LEMMA PromisedSets ==
  ASSUME IInv, NEW l \in Login
  PROVE  /\ stage[l] = "storing" => chosen[l] \in Promise!Usable(l)
         /\ \A c \in Connection : stage[l] = "answered" /\ Fits(l, c) =>
              c \in Promise!Fitting(l)
         /\ Promise!Over(l) <=> \E t \in Try : pc[<<l, t>>] = "done"
         /\ Promise!Unasked(l) <=> How(l) = "idp"
<1>1. /\ TypeOK /\ Sent(l) /\ Hinted(l) /\ ChosenFits(l) /\ AnswerFits(l)
      /\ \A t \in Try : <<l, t>> \in Handler /\ HandlerFits(<<l, t>>)
  BY DEF IInv, BrowserInv, HandlerInv, Handler
<1>2. How(l) \in Flow /\ None \notin Connection
  BY <1>1, FlowAssumption DEF TypeOK, How
<1>3. stage[l] = "storing" => chosen[l] \in Promise!Usable(l)
  BY <1>1, <1>2 DEF Sent, ChosenFits, Hinted, How, Federated, Promise!Usable,
     Promise!Unasked, Promise!Federated
<1>4. ASSUME NEW c \in Connection, stage[l] = "answered", Fits(l, c)
      PROVE  c \in Promise!Fitting(l)
  <2>1. SentTo[l] = chosen[l]
    BY <1>4 DEF SentTo
  <2>. QED
    BY <1>4, <2>1 DEF Fits, Suits, SameIdp, How, Federated, Promise!Fitting,
       Promise!Unasked, Promise!Federated
<1>5. \A t \in Try : HandedOver[<<l, t>>] # None <=> pc[<<l, t>>] = "done"
  BY <1>1, <1>2 DEF HandedOver, HandlerFits
<1>. QED
  BY <1>3, <1>4, <1>5 DEF Promise!Over, Promise!Unasked, How

LEMMA BrowserPromised ==
  ASSUME IInv, NEW l \in Login, Authorize(l) \/ Vouch(l)
  PROVE  Unseen \/ Promise!Send(l) \/ Promise!Vouch(l)
<1>1. TypeOK /\ Sent(l) /\ ChosenFits(l) /\ AnswerFits(l)
  BY DEF IInv, BrowserInv
<1>2. /\ UNCHANGED <<ask, pc, late, match, learned>>
      /\ TakenUp' = TakenUp /\ HandedOver' = HandedOver
  <2>1. UNCHANGED <<ask, pc, late, match, learned>>
    BY DEF Authorize, ResolveRefused, ResolveMany, Choose, ResolveOne, Store,
       Vouch, handlerVars, clientVars
  <2>. QED
    BY <2>1, HandlersUnseen
<1>3. CASE ResolveRefused(l) \/ ResolveMany(l) \/ Choose(l) \/ ResolveOne(l)
  <2>1. SentTo' = SentTo
    BY <1>1, <1>3, SentToStays
       DEF ResolveRefused, ResolveMany, Choose, ResolveOne, GoTo, TypeOK
  <2>2. answer' = answer
    BY <1>3 DEF ResolveRefused, ResolveMany, Choose, ResolveOne
  <2>. QED
    BY <1>2, <2>1, <2>2 DEF Unseen
<1>4. CASE Store(l)
  <2>1. stage[l] = "storing" /\ answer[l] = None /\ UNCHANGED <<chosen, answer>>
    BY <1>1, <1>4 DEF Store, AnswerFits
  <2>2. CASE GoTo(l, "away")
    <3>1. SentTo[l] = None
      BY <2>1 DEF SentTo
    <3>2. \A k \in Login : SentTo'[k] = IF k = l THEN chosen[l] ELSE SentTo[k]
      BY <1>1, <2>1, <2>2 DEF GoTo, SentTo, TypeOK
    <3>3. SentTo' = [SentTo EXCEPT ![l] = chosen[l]]
      BY <3>2 DEF SentTo
    <3>4. chosen[l] \in Promise!Usable(l)
      BY <2>1, PromisedSets
    <3>. QED
      BY <1>2, <2>1, <3>1, <3>3, <3>4 DEF Promise!Send
  <2>3. CASE GoTo(l, "refused")
    <3>1. SentTo' = SentTo
      BY <1>1, <2>1, <2>3, SentToStays DEF GoTo, TypeOK
    <3>. QED
      BY <1>2, <2>1, <3>1 DEF Unseen
  <2>. QED
    BY <1>4, <2>2, <2>3 DEF Store
<1>5. CASE Vouch(l)
  <2>1. SentTo' = SentTo
    <3>1. ASSUME NEW k \in Login PROVE SentTo'[k] = SentTo[k]
      BY <1>1, <1>5 DEF Vouch, GoTo, ChosenFits, SentTo, TypeOK
    <3>. QED
      BY <3>1 DEF SentTo
  <2>2. answer[l] = None
    BY <1>1, <1>5 DEF Vouch, AnswerFits
  <2>3. PICK c : /\ answer' = [answer EXCEPT ![l] = c]
                 /\ \/ stage[l] = "away" /\ c = chosen[l]
                    \/ How(l) = "idp" /\ c \in Connection /\ Kind[c] = "saml"
    BY <1>5 DEF Vouch
  <2>4. c \in Connection /\ (c = SentTo[l] \/ (How(l) = "idp" /\ Kind[c] = "saml"))
    BY <1>1, <2>3 DEF Sent, SentTo
  <2>. QED
    BY <1>2, <2>1, <2>2, <2>3, <2>4 DEF Promise!Vouch, Promise!Unasked, How
<1>. QED
  BY <1>3, <1>4, <1>5 DEF Authorize

LEMMA ResponsePromised ==
  ASSUME IInv, LateInv, NEW l \in Login, NEW h \in Handler, l = h[1],
         Respond(l, h)
  PROVE  \/ Unseen
         \/ Promise!TakeUp(l, h) \/ Promise!PutBack(l, h) \/ Promise!HandOver(l, h)
<1>1. TypeOK /\ HandlerFits(h) /\ LateFits(h) /\ AnswerFits(l) /\ None \notin Connection
  BY FlowAssumption DEF IInv, HandlerInv, LateInv, BrowserInv
<1>2. /\ UNCHANGED <<ask, stage, chosen, answer>>
      /\ SentTo' = SentTo /\ \A k : How(k)' = How(k)
  <2>1. UNCHANGED <<ask, stage, chosen, answer>>
    BY DEF Respond, SamlLocate, SamlMatch, SamlRefuse, IdpSelect, IdpMatch,
       IdpRefuse, OidcLocate, OidcMatch, Grant, GrantFails, Close, CloseFails,
       browserVars
  <2>. QED
    BY <2>1 DEF SentTo, How
<1>3. \A g \in Handler \ {h} :
        pc'[g] = pc[g] /\ late'[g] = late[g] /\ match'[g] = match[g]
  BY <1>1, OthersStay
<1>4. stage[l] = "answered"
  BY <1>1 DEF Respond, SamlLocate, SamlMatch, SamlRefuse, IdpSelect, IdpMatch,
     IdpRefuse, OidcLocate, OidcMatch, Grant, GrantFails, Close, CloseFails,
     Begin, HandlerFits
<1>5. CASE SamlLocate(l, h) \/ OidcLocate(l, h)
  <2>1. /\ pc[h] = "idle" /\ pc'[h] \in {"located", "failed"}
        /\ late'[h] = \E t \in Try : pc[<<l, t>>] = "done"
        /\ learned' = learned
    BY <1>1, <1>5 DEF SamlLocate, OidcLocate, Begin, Advance, TypeOK, clientVars
  <2>2. \A g \in Handler : HandedOver'[g] = HandedOver[g]
    BY <1>3, <2>1 DEF HandedOver
  <2>3. HandedOver' = HandedOver
    BY <2>2 DEF HandedOver
  <2>4. TakenUp[h] = FALSE /\ TakenUp'[h] = (late'[h] => How(l) = "idp")
    BY <1>2, <2>1 DEF TakenUp
  <2>5. \A g \in Handler \ {h} : TakenUp'[g] = TakenUp[g]
    BY <1>2, <1>3 DEF TakenUp
  <2>6. CASE TakenUp'[h] = TRUE
    <3>1. TakenUp' = [TakenUp EXCEPT ![h] = TRUE]
      BY <2>5, <2>6 DEF TakenUp
    <3>2. Promise!Over(l) => Promise!Unasked(l)
      BY <2>1, <2>4, <2>6, PromisedSets
    <3>. QED
      BY <1>1, <1>2, <1>4, <2>1, <2>3, <2>4, <3>1, <3>2
         DEF AnswerFits, Promise!TakeUp
  <2>7. CASE TakenUp'[h] = FALSE
    <3>1. TakenUp' = TakenUp
      BY <2>4, <2>5, <2>7 DEF TakenUp
    <3>. QED
      BY <1>2, <2>1, <2>3, <3>1 DEF Unseen
  <2>. QED
    BY <2>4, <2>6, <2>7
<1>6. CASE IdpSelect(l, h)
  <2>1. /\ How(l) = "idp" /\ pc[h] = "located" /\ pc'[h] = "idle"
        /\ UNCHANGED <<late, match, learned>>
    BY <1>1, <1>6 DEF IdpSelect, Advance, TypeOK, clientVars
  <2>2. HandedOver[h] = None /\ \A g \in Handler : HandedOver'[g] = HandedOver[g]
    BY <1>3, <2>1 DEF HandedOver
  <2>3. TakenUp[h] /\ \A g \in Handler : TakenUp'[g] = IF g = h THEN FALSE ELSE TakenUp[g]
    BY <1>2, <1>3, <2>1 DEF TakenUp
  <2>4. HandedOver' = HandedOver /\ TakenUp' = [TakenUp EXCEPT ![h] = FALSE]
    BY <2>2, <2>3 DEF HandedOver, TakenUp
  <2>. QED
    BY <1>2, <2>1, <2>2, <2>3, <2>4 DEF Promise!PutBack, Promise!Unasked, How
<1>7. CASE Close(l, h)
  <2>1. /\ pc[h] = "closing" /\ pc'[h] = "done" /\ UNCHANGED <<late, match>>
        /\ learned' = [learned EXCEPT ![l] =
             IF How(l) = "samlfed" THEN @ \cup {match[h]} ELSE @]
    BY <1>1, <1>7 DEF Close, Advance, TypeOK
  <2>2. match[h] \in Promise!Fitting(l)
    BY <1>1, <1>4, <2>1, PromisedSets DEF HandlerFits, Fits
  <2>3. HandedOver[h] = None
        /\ \A g \in Handler : HandedOver'[g] = IF g = h THEN match[h] ELSE HandedOver[g]
    BY <1>3, <2>1 DEF HandedOver
  <2>4. TakenUp[h] /\ \A g \in Handler : TakenUp'[g] = TakenUp[g]
    BY <1>1, <1>2, <1>3, <2>1 DEF TakenUp, LateFits
  <2>5. /\ HandedOver' = [HandedOver EXCEPT ![h] = match[h]]
        /\ TakenUp' = TakenUp
    BY <2>3, <2>4 DEF HandedOver, TakenUp
  <2>. QED
    BY <1>2, <2>1, <2>2, <2>3, <2>4, <2>5 DEF Promise!HandOver, How
<1>8. CASE \/ SamlMatch(l, h) \/ SamlRefuse(l, h) \/ IdpMatch(l, h) \/ IdpRefuse(l, h)
           \/ OidcMatch(l, h) \/ Grant(l, h) \/ GrantFails(l, h) \/ CloseFails(l, h)
  <2>1. /\ {pc[h], pc'[h]} \cap {"idle", "done"} = {}
        /\ UNCHANGED <<late, learned>>
    BY <1>1, <1>8 DEF SamlMatch, SamlRefuse, IdpMatch, IdpRefuse, OidcMatch, Grant,
       GrantFails, CloseFails, Settle, Advance, TypeOK, clientVars
  <2>2. TakenUp' = TakenUp /\ HandedOver' = HandedOver
    BY <1>2, <1>3, <2>1, HandlersUnseen
  <2>. QED
    BY <1>2, <2>1, <2>2 DEF Unseen
<1>. QED
  BY <1>5, <1>6, <1>7, <1>8 DEF Respond

LEMMA ExchangePromised ==
  ASSUME IInv, NEW l \in Login, NEW h \in Handler, l = h[1],
         Exchange(l, h) \/ Expire(l, h)
  PROVE  Unseen \/ Promise!Learn(l, h)
<1>1. UNCHANGED <<ask, stage, chosen, answer, pc, late, match>>
  BY DEF Exchange, TokenRead, TokenPut, TokenAnswered, TokenLost, UserInfo, Expire,
     browserVars, handlerVars
<1>2. UNCHANGED <<SentTo, TakenUp, HandedOver>>
  BY <1>1, SentToStays, HandlersUnseen
<1>3. CASE learned' = learned
  BY <1>1, <1>2, <1>3 DEF Unseen
<1>4. CASE UserInfo(l, h)
  <2>1. pc[h] = "done" /\ match[h] \in Connection /\ None \notin Connection
    BY <1>4, FlowAssumption DEF UserInfo, IInv, HandlerInv, HandlerFits
  <2>2. HandedOver[h] = match[h] /\ HandedOver[h] # None
    BY <2>1 DEF HandedOver
  <2>. QED
    BY <1>1, <1>2, <1>4, <2>2 DEF UserInfo, Promise!Learn
<1>. QED
  BY <1>3, <1>4 DEF Exchange, TokenRead, TokenPut, TokenAnswered, TokenLost, Expire

LEMMA StepPromised ==
  IInv /\ LateInv /\ [Next]_vars => [Promise!Next]_(Promise!vars)
<1> SUFFICES ASSUME IInv, LateInv, [Next]_vars
             PROVE  Unseen \/ Promise!Next
  BY UnseenIsStutter
<1>1. ASSUME NEW l \in Login, Authorize(l) \/ Vouch(l) PROVE Unseen \/ Promise!Next
  BY <1>1, BrowserPromised DEF Promise!Next
<1>2. ASSUME NEW l \in Login, NEW h \in Handler, l = h[1],
             Respond(l, h) \/ Exchange(l, h) \/ Expire(l, h)
      PROVE  Unseen \/ Promise!Next
  <2>1. PICK t \in Try : h = <<l, t>>
    BY <1>2 DEF Handler
  <2>2. \/ Unseen
        \/ Promise!TakeUp(l, h) \/ Promise!PutBack(l, h)
        \/ Promise!HandOver(l, h) \/ Promise!Learn(l, h)
    BY <1>2, ResponsePromised, ExchangePromised
  <2>. QED
    BY <2>1, <2>2 DEF Promise!Next
<1>3. ASSUME NEW c \in Connection, ConnectionChanges(c) PROVE Unseen
  <2>1. UNCHANGED <<ask, stage, chosen, answer, pc, late, match, learned>>
    BY <1>3 DEF ConnectionChanges, browserVars, clientVars
  <2>. QED
    BY <2>1, SentToStays, HandlersUnseen DEF Unseen
<1>4. CASE UNCHANGED vars
  <2>1. UNCHANGED <<ask, stage, chosen, answer, pc, late, match, learned>>
    BY <1>4 DEF vars, browserVars, handlerVars, clientVars
  <2>. QED
    BY <2>1, SentToStays, HandlersUnseen DEF Unseen
<1>. QED
  BY <1>1, <1>2, <1>3, <1>4, StepCases

LEMMA InitPromised == Init => Promise!Init
<1> SUFFICES ASSUME Init PROVE Promise!Init
  OBVIOUS
<1>1. /\ SentTo = [l \in Login |-> None]
      /\ HandedOver = [h \in Handler |-> None]
      /\ TakenUp = [h \in Handler |-> FALSE]
  BY DEF Init, SentTo, HandedOver, TakenUp
<1>. QED
  BY <1>1 DEF Init, Promise!Init, Promise!Posts, Handler

(***************************************************************************)
(* For any number of logins, tenants, connections and posts of an answer,  *)
(* and whatever expires, fails, overlaps or changes, each login goes the   *)
(* way that LoginPromise allows: the IdP that a browser was sent to, its   *)
(* word, and the connection that a post settled on are each fixed once and *)
(* for all, in this order, and a client learns nothing else                *)
(* (oauth.ts:95-1433, sso-handler.ts:48-190).                              *)
(***************************************************************************)
THEOREM LoginsKeepPromise == Spec => LoginsAsPromised
<1>1. Spec => []LateInv
  BY Invariant, InitLate, LateStep, PTL DEF Spec
<1>. QED
  BY <1>1, Invariant, InitPromised, StepPromised, PTL
     DEF Spec, LoginsAsPromised, Promise!Spec
=============================================================================
