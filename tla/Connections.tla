------------------------------ MODULE Connections ------------------------------
(***************************************************************************)
(* The SSO connections of one product (npm/src/controller/api.ts and       *)
(* connection/*.ts).  A connection is identified by its tenant and by its  *)
(* IdP: the EntityID of a SAML IdP, the client id at an OIDC provider.     *)
(* Each call reads, then writes, then tells the webhook, and other calls   *)
(* run in between; a step is one request to the store or to the webhook.   *)
(***************************************************************************)
EXTENDS Absence, Clients, Naturals, FiniteSets

CONSTANTS
  Idp, Saml,
  Limit       \* connections that a product under development may have

Conn == Tenant \X Idp
ConnRecord == [secret : Nat \ {0}, active : BOOLEAN]
State == {"active", "inactive", "gone"}
ConnOp == {"create", "update", "delete", "deleteAll"}
ConnCall == [op : ConnOp, tenant : Tenant,
             on : SUBSET Idp,                \* the IdPs it concerns
             left : SUBSET Idp,              \* those it has yet to delete,
             now : SUBSET Idp,               \* and those it tells the webhook of
             change : {None, TRUE, FALSE},   \* an update's "active", if it has one
             shown : Nat,                    \* the secret the caller shows
             at : {"limit", "entity", "read", "put", "delete", "notify"},
             saved : ConnRecord \cup {None},  \* the record as read or as put
             event : State]

\* What is assumed of the constants, by the modules that instantiate this one.
ConnectionsAssumption ==
  /\ Saml \subseteq Idp /\ Limit \in Nat \ {0} /\ MaxCalls \in Nat
  /\ None \notin ConnRecord \cup ConnCall

VARIABLES
  limited,      \* is the product under development, on the hosted service and
                \* a store that counts records?  SQL and MongoDB do; of other
                \* engines the limit is not asked for
  stored,       \* stored[c]: the stored connection, or None
  connCall,     \* the call each caller has under way, or None
  connCalls,    \* number of calls made, and of secrets generated
  secrets,
  told,         \* history: what the webhook was last told of a connection
  known,        \* history: the secret last answered to its owner, or 0
  gone,         \* history: connections deleted, by calls that were answered
  missed,       \* history: those whose webhook call has failed
  crossed,      \* history: IdPs that two calls concerned at the same time,
  raced,        \* history: those where one deleted, or both created
  crowded       \* history: have any two creates overlapped?

history == <<told, known, gone, missed, crossed, raced, crowded>>
connsVars == <<limited, stored, connCall, connCalls, secrets, history>>

ConnsTypeOK ==
  /\ limited \in BOOLEAN
  /\ stored \in [Conn -> ConnRecord \cup {None}]
  /\ connCall \in [Caller -> ConnCall \cup {None}]
  /\ connCalls \in 0..MaxCalls /\ secrets \in Nat
  /\ told \in [Conn -> State] /\ known \in [Conn -> Nat]
  /\ gone \subseteq Conn /\ missed \subseteq Conn
  /\ raced \subseteq crossed /\ crossed \subseteq Idp /\ crowded \in BOOLEAN
  /\ \A c, d \in Conn : c # d /\ stored[c] # None /\ stored[d] # None =>
       stored[c].secret # stored[d].secret

ConnsInit ==
  /\ limited \in BOOLEAN
  /\ stored = [c \in Conn |-> None]
  /\ connCall = [p \in Caller |-> None]
  /\ connCalls = 0 /\ secrets = 0
  /\ told = [c \in Conn |-> "gone"] /\ known = [c \in Conn |-> 0]
  /\ gone = {} /\ missed = {} /\ crossed = {} /\ raced = {} /\ crowded = FALSE

-----------------------------------------------------------------------------
Deletes == {"delete", "deleteAll"}
Targets(c) == {c.tenant} \X c.on
StoredConns == {c \in Conn : stored[c] # None}
ConnAt(p, ops, label) == connCall[p] # None /\ connCall[p].op \in ops /\ connCall[p].at = label
ConnMove(p, c) == connCall' = [connCall EXCEPT ![p] = c]
ConnGoto(p, label) == ConnMove(p, [connCall[p] EXCEPT !.at = label])
EndConn(p) == ConnMove(p, None)
Frame == UNCHANGED <<limited, connCalls>>
Only(p) == stored[<<connCall[p].tenant, CHOOSE i \in connCall[p].on : TRUE>>]

\* Calls on the same IdP that may disturb each other, where updates do not.
CanRace(op, other) ==
  op \in Deletes \/ other \in Deletes \/ (op = "create" /\ other = "create")

\* A call arrives.  The owner of a connection shows the secret it knows.
Arrive(p, op, t, on, change) ==
  LET others == {q \in Caller : connCall[q] # None}
      mine == {t} \X on
  IN /\ connCall[p] = None /\ connCalls < MaxCalls
     /\ connCalls' = connCalls + 1
     /\ ConnMove(p, [op |-> op, tenant |-> t, on |-> on, left |-> on, now |-> on,
                     change |-> change, saved |-> None, event |-> "gone",
                     shown |-> IF \E i \in on : on = {i}
                               THEN known[<<t, CHOOSE i \in on : TRUE>>] ELSE 0,
                     at |-> IF op = "create" THEN "limit" ELSE "read"])
     /\ known' = IF op \in Deletes THEN [c \in Conn |-> IF c \in mine THEN 0 ELSE known[c]]
                 ELSE known
     /\ gone' = IF op = "create" THEN gone \ mine ELSE gone
     /\ crossed' = crossed \cup {i \in on : \E q \in others : i \in connCall[q].on}
     /\ raced' = raced \cup {i \in on : \E q \in others :
                                i \in connCall[q].on /\ CanRace(op, connCall[q].op)}
     /\ crowded' = (crowded \/ (op = "create" /\ \E q \in others : connCall[q].op = "create"))
     /\ UNCHANGED <<limited, stored, secrets, told, missed>>

BeginConn(p) == \E t \in Tenant :
  \/ \E i \in Idp : Arrive(p, "create", t, {i}, None) \/ Arrive(p, "delete", t, {i}, None)
  \/ \E i \in Idp, change \in {None, TRUE, FALSE} : Arrive(p, "update", t, {i}, change)
  \/ \E strategy \in {Saml, Idp \ Saml, Idp} : Arrive(p, "deleteAll", t, strategy, None)

\* Where the limit applies, the connections are counted first.
CheckLimit(p) ==
  /\ ConnAt(p, {"create"}, "limit")
  /\ IF limited /\ Cardinality(StoredConns) >= Limit THEN EndConn(p)
     ELSE ConnGoto(p, IF connCall[p].on \subseteq Saml THEN "entity" ELSE "read")
  /\ Frame /\ UNCHANGED <<stored, secrets, history>>

\* No other tenant may have the EntityID.
CheckEntityID_Skip(p) ==
  /\ ConnAt(p, {"create"}, "entity")
  /\ ConnGoto(p, "read")
  /\ Frame /\ UNCHANGED <<stored, secrets, history>>

CheckEntityID(p) ==
  /\ ConnAt(p, {"create"}, "entity")
  /\ IF \E c \in StoredConns : c[1] # connCall[p].tenant /\ c[2] \in connCall[p].on THEN EndConn(p)
     ELSE ConnGoto(p, "read")
  /\ Frame /\ UNCHANGED <<stored, secrets, history>>

\* The connection may exist; Ory is asked for its organization before the put.
ReadExisting(p) ==
  /\ ConnAt(p, {"create"}, "read")
  /\ ConnMove(p, [connCall[p] EXCEPT !.at = "put", !.saved = Only(p)])
  /\ Frame /\ UNCHANGED <<stored, secrets, history>>

\* An update needs the connection and its secret.
ReadSaved(p) ==
  /\ ConnAt(p, {"update"}, "read")
  /\ IF Only(p) # None /\ connCall[p].shown \in {Only(p).secret}
     THEN ConnMove(p, [connCall[p] EXCEPT !.at = "put", !.saved = Only(p)])
     ELSE EndConn(p)
  /\ Frame /\ UNCHANGED <<stored, secrets, history>>

StoreConn(p, record) ==
  stored' = [c \in Conn |-> IF c \in Targets(connCall[p]) THEN record ELSE stored[c]]

PutConn_NewSecret(p) ==
  /\ ConnAt(p, {"create"}, "put")
  /\ secrets' = secrets + 1
  /\ LET record == [secret |-> secrets', active |-> TRUE]
     IN /\ StoreConn(p, record)
        /\ ConnMove(p, [connCall[p] EXCEPT !.at = "notify", !.saved = record, !.event = "active"])
  /\ Frame /\ UNCHANGED history

\* One created again keeps its secret, but not that it was deactivated.
PutConn(p) ==
  /\ ConnAt(p, {"create"}, "put")
  /\ secrets' = IF connCall[p].saved = None THEN secrets + 1 ELSE secrets
  /\ LET record == [secret |-> IF connCall[p].saved = None THEN secrets' ELSE connCall[p].saved.secret,
                    active |-> TRUE]
     IN /\ StoreConn(p, record)
        /\ ConnMove(p, [connCall[p] EXCEPT !.at = "notify", !.saved = record, !.event = "active"])
  /\ Frame /\ UNCHANGED history

EventOf(record) == IF record.active THEN "active" ELSE "inactive"

PutSavedConn_TellsOld(p) ==
  /\ ConnAt(p, {"update"}, "put")
  /\ IF connCall[p].change = None THEN StoreConn(p, connCall[p].saved) /\ EndConn(p)
     ELSE LET record == [connCall[p].saved EXCEPT !.active = connCall[p].change]
          IN /\ StoreConn(p, record)
             /\ ConnMove(p, [connCall[p] EXCEPT !.at = "notify", !.event = EventOf(connCall[p].saved)])
  /\ Frame /\ UNCHANGED <<secrets, history>>

\* The record as read, with the changes, is put whatever has happened to it;
\* the webhook hears of it if the update says whether it is active.
PutSavedConn(p) ==
  /\ ConnAt(p, {"update"}, "put")
  /\ IF connCall[p].change = None THEN StoreConn(p, connCall[p].saved) /\ EndConn(p)
     ELSE LET record == [connCall[p].saved EXCEPT !.active = connCall[p].change]
          IN /\ StoreConn(p, record)
             /\ ConnMove(p, [connCall[p] EXCEPT !.at = "notify", !.event = EventOf(record)])
  /\ Frame /\ UNCHANGED <<secrets, history>>

\* Without the connection there is nothing to delete, and with another secret
\* it may not be.
ReadDoomed(p) ==
  /\ ConnAt(p, {"delete"}, "read")
  /\ IF Only(p) # None /\ Only(p).secret \in {connCall[p].shown}
     THEN ConnGoto(p, "delete") ELSE EndConn(p)
  /\ gone' = IF Only(p) = None THEN gone \cup Targets(connCall[p]) ELSE gone
  /\ Frame /\ UNCHANGED <<stored, secrets, told, known, missed, crossed, raced, crowded>>

\* All the connections of the tenant, or those of one strategy.
ListDoomed(p) ==
  LET found == {i \in connCall[p].on : stored[<<connCall[p].tenant, i>>] # None}
  IN /\ ConnAt(p, {"deleteAll"}, "read")
     /\ IF found = {} THEN EndConn(p)
        ELSE ConnMove(p, [connCall[p] EXCEPT !.at = "delete", !.left = found])
     /\ gone' = IF found = {} THEN gone \cup Targets(connCall[p]) ELSE gone
     /\ Frame /\ UNCHANGED <<stored, secrets, told, known, missed, crossed, raced, crowded>>

\* One of them, which the webhook then hears of, before the next.
DeleteConn(p) ==
  /\ ConnAt(p, Deletes, "delete")
  /\ \E i \in connCall[p].left :
       /\ stored' = [stored EXCEPT ![<<connCall[p].tenant, i>>] = None]
       /\ ConnMove(p, [connCall[p] EXCEPT !.at = "notify", !.left = @ \ {i}, !.now = {i}])
  /\ Frame /\ UNCHANGED <<secrets, history>>

\* What the call has just changed.
Changed(p) == {connCall[p].tenant} \X connCall[p].now

\* The webhook answers, and the call with it, or goes on to the next.
Notify(p) ==
  LET more == connCall[p].op \in Deletes /\ connCall[p].left # {}
  IN /\ connCall[p] # None /\ connCall[p].at = "notify"
     /\ told' = [c \in Conn |-> IF c \in Changed(p) THEN connCall[p].event ELSE told[c]]
     /\ known' = IF connCall[p].op = "create"
                 THEN [c \in Conn |-> IF c \in Targets(connCall[p])
                                      THEN connCall[p].saved.secret ELSE known[c]]
                 ELSE known
     /\ IF more THEN ConnGoto(p, "delete") ELSE EndConn(p)
     /\ gone' = IF connCall[p].op \in Deletes /\ ~more THEN gone \cup Targets(connCall[p]) ELSE gone
     /\ Frame /\ UNCHANGED <<stored, secrets, missed, crossed, raced, crowded>>

\* The webhook fails, and the call with it: what was stored or deleted stays so.
NotifyFails(p) ==
  /\ connCall[p] # None /\ connCall[p].at = "notify"
  /\ missed' = missed \cup Changed(p)
  /\ EndConn(p)
  /\ Frame /\ UNCHANGED <<stored, secrets, told, known, gone, crossed, raced, crowded>>

\* The store, Ory or the IdP's metadata cannot be reached.
FailConn(p) ==
  /\ connCall[p] # None /\ connCall[p].at # "notify"
  /\ EndConn(p)
  /\ Frame /\ UNCHANGED <<stored, secrets, history>>

Step(p) ==
  \/ CheckLimit(p) \/ CheckEntityID(p) \/ ReadExisting(p) \/ PutConn(p)
  \/ ReadSaved(p) \/ PutSavedConn(p) \/ ReadDoomed(p) \/ ListDoomed(p) \/ DeleteConn(p)
  \/ Notify(p) \/ NotifyFails(p) \/ FailConn(p)

ConnsNext == \E p \in Caller : BeginConn(p) \/ Step(p)

ConnsSpec == ConnsInit /\ [][ConnsNext]_connsVars

-----------------------------------------------------------------------------
(***************************************************************************)
(* An IdP's EntityID belongs to one tenant, as long as no deletion met     *)
(* another call on it and no two creations met.                            *)
(***************************************************************************)
OneTenant(i) == \A c, d \in StoredConns : c[2] = i /\ d[2] = i => c = d
OneTenantUnlessRaced == \A i \in Saml \ raced : OneTenant(i)

(***************************************************************************)
(* "EntityID already exists for different tenant/product" is the error     *)
(* that a second tenant is meant to get (connection/saml.ts:147).          *)
(***************************************************************************)
EntityIDOfOneTenant == \A i \in Saml : OneTenant(i)

(***************************************************************************)
(* The secret answered for a connection stays valid until its deletion is  *)
(* asked for: updates and creations may overlap, in any order, and write   *)
(* back records they read before (connection/saml.ts:174, 330).            *)
(***************************************************************************)
SecretKept == \A c \in Conn : known[c] # 0 /\ c[2] \notin raced =>
  stored[c] # None /\ stored[c].secret = known[c]

(***************************************************************************)
(* A connection whose deletion was answered is gone: an update that read   *)
(* it before could bring it back, and a deletion by tenant might miss one. *)
(***************************************************************************)
DeletedIsGone == \A c \in gone : c[2] \notin raced => stored[c] = None

(***************************************************************************)
(* What was answered is kept: secrets stay valid, deletions stay done.     *)
(***************************************************************************)
AnsweredIsKept == SecretKept /\ DeletedIsGone

(***************************************************************************)
(* When no call is under way, the webhook has last been told what the      *)
(* store holds, where calls did not overlap and none of its calls failed.  *)
(***************************************************************************)
WebhookFollows == \A c \in Conn \ missed :
  c[2] \notin crossed /\ (\A p \in Caller : connCall[p] # None => c[2] \notin connCall[p].on) =>
    told[c] = IF stored[c] = None THEN "gone" ELSE EventOf(stored[c])

(***************************************************************************)
(* A product under development has no more connections than it may, on a   *)
(* store that counts, unless two creations overlapped (they count before   *)
(* either is stored).                                                      *)
(***************************************************************************)
LimitKept == limited /\ ~crowded /\ raced = {} => Cardinality(StoredConns) <= Limit

(***************************************************************************)
(* The two checks that a creation makes before it is stored hold later,    *)
(* however calls overlap, except for the races that the parts name.        *)
(***************************************************************************)
CreatesKeepLimits == OneTenantUnlessRaced /\ LimitKept
=============================================================================
