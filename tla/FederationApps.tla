----------------------------- MODULE FederationApps -----------------------------
(***************************************************************************)
(* The records of the identity federation apps                             *)
(* (npm/src/ee/identity-federation/app.ts).  An app is identified by its   *)
(* owner (tenant and product) and its type; a SAML app is also found by    *)
(* its EntityID, an OIDC app has a client secret.  A request for a SAML    *)
(* app may leave out the type: the app is a SAML app all the same, but     *)
(* whether its EntityID is taken is not looked up.  An update puts the     *)
(* record back without its index entries, which the store then leaves as   *)
(* they are.  A step is one request to the store.                          *)
(***************************************************************************)
EXTENDS Absence, Clients, Naturals

CONSTANTS Owner, Entity

App == Owner \X {"saml", "oidc"}
AppRecord == [entity : Entity \cup {None}, typed : BOOLEAN, secret : Nat]
AppCall == [op : {"create", "update", "delete"}, app : App, entity : Entity \cup {None},
            typed : BOOLEAN,
            at : {"get", "entity", "put", "answer"}, saved : AppRecord \cup {None}]

\* What is assumed of the constants, by the modules that instantiate this one.
AppsAssumption ==
  MaxCalls \in Nat /\ None \notin Entity \cup AppRecord \cup AppCall

VARIABLES
  app,         \* the stored app of each owner and type, or None
  entities,    \* the index of EntityIDs
  appCall,     \* the call each caller has under way, or None
  appCalls,    \* number of calls made
  appSecrets,  \* number of secrets generated
  appKnown,    \* history: the secret last answered for an OIDC app, or 0
  appRaced     \* history: two calls overlapped that both created, or one deleted

appsVars == <<app, entities, appCall, appCalls, appSecrets, appKnown, appRaced>>

AppsTypeOK ==
  /\ app \in [App -> AppRecord \cup {None}]
  /\ entities \subseteq Entity \X App
  /\ appCall \in [Caller -> AppCall \cup {None}]
  /\ appCalls \in 0..MaxCalls /\ appSecrets \in Nat
  /\ appKnown \in [App -> Nat] /\ appRaced \in BOOLEAN
  /\ \A e \in entities : app[e[2]] = None => appRaced

AppsInit ==
  /\ app = [a \in App |-> None]
  /\ entities = {}
  /\ appCall = [p \in Caller |-> None]
  /\ appCalls = 0 /\ appSecrets = 0
  /\ appKnown = [a \in App |-> 0] /\ appRaced = FALSE

-----------------------------------------------------------------------------
StoredApps == {a \in App : app[a] # None}
AppAt(p, op, label) == appCall[p] # None /\ appCall[p].op = op /\ appCall[p].at = label
AppMove(p, c) == appCall' = [appCall EXCEPT ![p] = c]
AppGoto(p, label) == AppMove(p, [appCall[p] EXCEPT !.at = label])
EndApp(p) == AppMove(p, None)

\* Calls that may disturb each other, where those of updates alone do not.
Disturb(op, other) ==
  op = "delete" \/ other = "delete" \/ (op = "create" /\ other = "create")

BeginApp(p, op, a, entity, typed) ==
  /\ appCall[p] = None /\ appCalls < MaxCalls
  /\ appCalls' = appCalls + 1
  /\ AppMove(p, [op |-> op, app |-> a, entity |-> entity, typed |-> typed, saved |-> None,
              at |-> IF op = "delete" THEN "put" ELSE "get"])
  /\ appKnown' = IF op = "delete" THEN [appKnown EXCEPT ![a] = 0] ELSE appKnown
  /\ appRaced' = (appRaced \/ \E q \in Caller : appCall[q] # None /\ Disturb(op, appCall[q].op))
  /\ UNCHANGED <<app, entities, appSecrets>>

\* An owner has one app of a type.  The EntityID is looked up next if the type
\* that was given, not the one that is meant, is "saml".
GetNone(p) ==
  /\ AppAt(p, "create", "get")
  /\ IF appCall[p].app \in StoredApps THEN EndApp(p)
     ELSE AppGoto(p, IF appCall[p].app[2] = "saml" /\ appCall[p].typed THEN "entity" ELSE "put")
  /\ UNCHANGED <<app, entities, appCalls, appSecrets, appKnown, appRaced>>

GetByEntityID_OwnOnly(p) ==
  /\ AppAt(p, "create", "entity")
  /\ IF \E a \in StoredApps : a[1] = appCall[p].app[1] /\ <<appCall[p].entity, a>> \in entities
     THEN EndApp(p) ELSE AppGoto(p, "put")
  /\ UNCHANGED <<app, entities, appCalls, appSecrets, appKnown, appRaced>>

GetByEntityID(p) ==
  /\ AppAt(p, "create", "entity")
  /\ IF \E a \in StoredApps : <<appCall[p].entity, a>> \in entities
     THEN EndApp(p) ELSE AppGoto(p, "put")
  /\ UNCHANGED <<app, entities, appCalls, appSecrets, appKnown, appRaced>>

PutApp(p) ==
  LET a == appCall[p].app
      oidc == a[2] = "oidc"
  IN /\ AppAt(p, "create", "put")
     /\ appSecrets' = IF oidc THEN appSecrets + 1 ELSE appSecrets
     /\ app' = [app EXCEPT ![a] = [entity |-> appCall[p].entity, typed |-> appCall[p].typed,
                                   secret |-> IF oidc THEN appSecrets' ELSE 0]]
     /\ entities' = IF oidc THEN entities ELSE entities \cup {<<appCall[p].entity, a>>}
     /\ AppMove(p, [appCall[p] EXCEPT !.at = "answer", !.saved = app'[a]])
     /\ UNCHANGED <<appCalls, appKnown, appRaced>>

GetSaved(p) ==
  /\ AppAt(p, "update", "get")
  /\ IF appCall[p].app \in StoredApps
     THEN AppMove(p, [appCall[p] EXCEPT !.at = "put", !.saved = app[appCall[p].app]])
     ELSE EndApp(p)
  /\ UNCHANGED <<app, entities, appCalls, appSecrets, appKnown, appRaced>>

\* What an update changes (names, URLs, tenants, mappings) is left out; it
\* changes neither the EntityID nor the secret, and puts no index entries.
PutSavedApp(p) ==
  /\ AppAt(p, "update", "put")
  /\ app' = [app EXCEPT ![appCall[p].app] = appCall[p].saved]
  /\ AppGoto(p, "answer")
  /\ UNCHANGED <<entities, appCalls, appSecrets, appKnown, appRaced>>

DeleteApp(p) ==
  /\ AppAt(p, "delete", "put")
  /\ app' = [app EXCEPT ![appCall[p].app] = None]
  /\ entities' = {e \in entities : e[2] # appCall[p].app}
  /\ AppGoto(p, "answer")
  /\ UNCHANGED <<appCalls, appSecrets, appKnown, appRaced>>

AnswerApp(p) ==
  /\ appCall[p] # None /\ appCall[p].at = "answer"
  /\ appKnown' = IF appCall[p].op = "create"
                 THEN [appKnown EXCEPT ![appCall[p].app] = appCall[p].saved.secret]
                 ELSE appKnown
  /\ EndApp(p)
  /\ UNCHANGED <<app, entities, appCalls, appSecrets, appRaced>>

\* A request to the store fails.
FailApp(p) ==
  /\ appCall[p] # None
  /\ EndApp(p)
  /\ UNCHANGED <<app, entities, appCalls, appSecrets, appKnown, appRaced>>

AppsNext == \E p \in Caller :
  \/ \E a \in App, entity \in Entity, typed \in BOOLEAN :
       a[2] = "saml" /\ BeginApp(p, "create", a, entity, typed)
  \/ \E a \in App :
       \/ a[2] = "oidc" /\ BeginApp(p, "create", a, None, TRUE)
       \/ BeginApp(p, "update", a, None, TRUE) \/ BeginApp(p, "delete", a, None, TRUE)
  \/ GetNone(p) \/ GetByEntityID(p) \/ PutApp(p) \/ GetSaved(p) \/ PutSavedApp(p)
  \/ DeleteApp(p) \/ AnswerApp(p) \/ FailApp(p)

AppsSpec == AppsInit /\ [][AppsNext]_appsVars

-----------------------------------------------------------------------------
(***************************************************************************)
(* An app is found by its EntityID (a login request names nothing else),   *)
(* together with stored apps of the same EntityID only, and of two that    *)
(* share one at least one was created without a type: apps that give it    *)
(* never do.  Updates that overlap each other or a creation do not disturb *)
(* this.  A deletion or a second creation at the same time may: an update  *)
(* can bring back a deleted app without its index entry, and two creations *)
(* can pass the check (app.ts:249, 256, 302).                              *)
(***************************************************************************)
EntityFindsApp == ~appRaced =>
  \A a \in StoredApps : app[a].entity # None =>
    LET found == {b \in App : <<app[a].entity, b>> \in entities} IN
      /\ a \in found
      /\ \A b \in found : b \in StoredApps /\ app[b].entity = app[a].entity
      /\ \A b \in found \ {a} : ~(app[a].typed /\ app[b].typed)

(***************************************************************************)
(* The client secret answered for an OIDC app stays valid until its        *)
(* deletion is asked for, whatever updates write back.                     *)
(***************************************************************************)
ClientSecretKept == ~appRaced =>
  \A a \in App : appKnown[a] # 0 => a \in StoredApps /\ app[a].secret = appKnown[a]

(***************************************************************************)
(* What an app was registered with stays its own.                          *)
(***************************************************************************)
AppsAreKept == EntityFindsApp /\ ClientSecretKept
=============================================================================
