-------------------------------- MODULE Logout --------------------------------
(***************************************************************************)
(* Single logout (npm/src/controller/logout.ts): the application sends the *)
(* browser to the identity provider with a logout request; the provider    *)
(* posts its answer back through the browser, which is then sent on.  A    *)
(* step is what lies between two requests to the store.                    *)
(***************************************************************************)
EXTENDS Absence, Clients, Naturals, FiniteSets

CONSTANTS
  Request, Post,          \* logout requests, and answers that are posted
  Provider, TenantOf,     \* connections, and the tenant of each
  Sender, SenderOf,       \* identity providers, and that of each connection
  Asker,                  \* the tenant that makes each request
  MaxTrouble              \* changes and failures in all (a bound)

Record == [slo : BOOLEAN,      \* does the metadata name a logout URL?
           current : BOOLEAN]  \* and the certificate the provider signs with?

\* What is assumed of the constants, by the modules that instantiate this one.
LogoutAssumption ==
  /\ None \notin Record \cup Provider \cup {"Success", "failed"}
  /\ TenantOf \in [Provider -> Tenant] /\ SenderOf \in [Provider -> Sender]
  /\ Asker \in [Request -> Tenant] /\ MaxTrouble \in Nat

VARIABLES
  record,    \* what the store has of each connection, or None
  request,   \* how far each request is
  sentTo,    \* the connection whose provider the browser was sent to, or None
  pending,   \* is the request's session in the store?
  status,    \* what the provider says of the request, or None
  post,      \* the handler of each answer, or None
  landed,    \* requests whose browser has been sent on
  over,      \* history: requests whose session a handler has deleted
  trouble    \* number of changes and failures

logoutVars == <<record, request, sentTo, pending, status, post, landed, over, trouble>>

Response == [relayState : Request, inResponseTo : Request,
            at : {"found", "valid", "done", "refused"},
            late : BOOLEAN]  \* history: did it begin when the logout was over?

LogoutTypeOK ==
  /\ record \in [Provider -> Record \cup {None}]
  /\ request \in [Request -> {"new", "signing", "sent", "refused"}]
  /\ sentTo \in [Request -> Provider \cup {None}]
  /\ pending \in [Request -> BOOLEAN]
  /\ status \in [Request -> {None, "Success", "failed"}]
  /\ post \in [Post -> Response \cup {None}]
  /\ landed \subseteq Request /\ over \subseteq Request
  /\ trouble \in 0..MaxTrouble

LogoutInit ==
  /\ record = [c \in Provider |-> [slo |-> TRUE, current |-> TRUE]]
  /\ request = [r \in Request |-> "new"] /\ sentTo = [r \in Request |-> None]
  /\ pending = [r \in Request |-> FALSE] /\ status = [r \in Request |-> None]
  /\ post = [p \in Post |-> None]
  /\ landed = {} /\ over = {} /\ trouble = 0

-----------------------------------------------------------------------------
Stored(conns) == {c \in conns : record[c] # None}
ByTenant(t) == Stored({c \in Provider : TenantOf[c] = t})
BySender(i) == Stored({c \in Provider : SenderOf[c] = i})

(* createRequest: the first connection of the tenant, which need not be    *)
(* the one the user came in by; then the certificate and the signature.    *)
CreateRequest(r) ==
  /\ request[r] = "new"
  /\ \/ \E c \in ByTenant(Asker[r]) :
          /\ record[c].slo
          /\ sentTo' = [sentTo EXCEPT ![r] = c]
          /\ request' = [request EXCEPT ![r] = "signing"]
     \/ /\ \/ ByTenant(Asker[r]) = {}
           \/ \E c \in ByTenant(Asker[r]) : ~record[c].slo
        /\ request' = [request EXCEPT ![r] = "refused"] /\ UNCHANGED sentTo
  /\ UNCHANGED <<record, pending, status, post, landed, over, trouble>>

PutSession(r) ==
  /\ request[r] = "signing"
  /\ request' = [request EXCEPT ![r] = "sent"]
  /\ pending' = [pending EXCEPT ![r] = TRUE]
  /\ UNCHANGED <<record, sentTo, status, post, landed, over, trouble>>

\* The identity provider ends the user's sessions, or cannot.
Conclude(r, s) ==
  /\ request[r] = "sent" /\ status[r] = None
  /\ status' = [status EXCEPT ![r] = s]
  /\ UNCHANGED <<record, request, sentTo, pending, post, landed, over, trouble>>

-----------------------------------------------------------------------------
(* handleResponse of the answer to request m, with the relay state of r.   *)
Move(p, label) == post' = [post EXCEPT ![p].at = label]

GetSession_Takes(p, r, m) ==
  /\ post[p] = None /\ status[m] # None
  /\ post' = [post EXCEPT ![p] =
       [relayState |-> r, inResponseTo |-> m, late |-> r \in over,
        at |-> IF pending[r] THEN "found" ELSE "refused"]]
  /\ pending' = [pending EXCEPT ![r] = FALSE]
  /\ UNCHANGED <<record, request, sentTo, status, landed, over, trouble>>

GetSession(p, r, m) ==
  /\ post[p] = None /\ status[m] # None
  /\ post' = [post EXCEPT ![p] =
       [relayState |-> r, inResponseTo |-> m, late |-> r \in over,
        at |-> IF pending[r] THEN "found" ELSE "refused"]]
  /\ UNCHANGED <<record, request, sentTo, pending, status, landed, over, trouble>>

\* The signature is checked with a connection of the issuer, the first one:
\* it need not be the one the request went to.
Validate(p) ==
  LET h == post[p]
      issuer == SenderOf[sentTo[h.inResponseTo]]
      answers == status[h.inResponseTo] = "Success" /\ h.inResponseTo = h.relayState
  IN /\ h # None /\ h.at = "found"
     /\ \/ ~answers /\ Move(p, "refused")
        \/ answers /\ BySender(issuer) = {} /\ Move(p, "refused")
        \/ \E c \in BySender(issuer) :
             answers /\ Move(p, IF record[c].current THEN "valid" ELSE "refused")
     /\ UNCHANGED <<record, request, sentTo, pending, status, landed, over, trouble>>

SendOn(p) == Move(p, "done") /\ landed' = landed \cup {post[p].relayState}

DeleteSession_Keeps(p) ==
  /\ post[p] # None /\ post[p].at = "valid"
  /\ over' = over \cup {post[p].relayState}
  /\ SendOn(p)
  /\ UNCHANGED <<record, request, sentTo, pending, status, trouble>>

DeleteSession(p) ==
  LET r == post[p].relayState IN
  /\ post[p] # None /\ post[p].at = "valid"
  /\ pending' = [pending EXCEPT ![r] = FALSE]
  /\ over' = over \cup {r}
  /\ SendOn(p)
  /\ UNCHANGED <<record, request, sentTo, status, trouble>>

-----------------------------------------------------------------------------
Troubled == trouble < MaxTrouble /\ trouble' = trouble + 1

\* A delete that fails is ignored; any other request that does ends the call.
DeleteFails(p) ==
  /\ post[p] # None /\ post[p].at = "valid" /\ Troubled
  /\ SendOn(p)
  /\ UNCHANGED <<record, request, sentTo, pending, status, over>>

HandlerFails(p) ==
  /\ post[p] # None /\ post[p].at = "found" /\ Troubled
  /\ Move(p, "refused")
  /\ UNCHANGED <<record, request, sentTo, pending, status, landed, over>>

RequestFails(r) ==
  /\ request[r] = "signing" /\ Troubled
  /\ request' = [request EXCEPT ![r] = "refused"]
  /\ UNCHANGED <<record, sentTo, pending, status, post, landed, over>>

\* The session's time to live passes.
SessionExpires(r) ==
  /\ pending[r] /\ Troubled
  /\ pending' = [pending EXCEPT ![r] = FALSE]
  /\ UNCHANGED <<record, request, sentTo, status, post, landed, over>>

\* A connection is deleted or its metadata changes.
ProviderChanges(c) ==
  /\ Troubled
  /\ \E new \in Record \cup {None} : new # record[c] /\ record' = [record EXCEPT ![c] = new]
  /\ UNCHANGED <<request, sentTo, pending, status, post, landed, over>>

ResponseStep(p) == Validate(p) \/ DeleteSession(p)

LogoutNext ==
  \/ \E r \in Request : \/ CreateRequest(r) \/ PutSession(r) \/ RequestFails(r) \/ SessionExpires(r)
                        \/ \E s \in {"Success", "failed"} : Conclude(r, s)
  \/ \E p \in Post : \/ ResponseStep(p) \/ DeleteFails(p) \/ HandlerFails(p)
                     \/ \E r, m \in Request : GetSession(p, r, m)
  \/ \E c \in Provider : ProviderChanges(c)

LogoutSpec == LogoutInit /\ [][LogoutNext]_logoutVars

-----------------------------------------------------------------------------
(***************************************************************************)
(* A browser is sent on as logged out only if the provider has ended the   *)
(* user's session for the request of that browser, whatever answers are    *)
(* posted with whatever relay state (logout.ts:112-124).                   *)
(***************************************************************************)
LoggedOut == \A r \in landed : status[r] = "Success"

(***************************************************************************)
(* An answer posted when a handler has deleted the session gets nothing    *)
(* (logout.ts:110-114, 139).                                               *)
(***************************************************************************)
AnsweredOnce == \A p \in Post : post[p] # None /\ post[p].late => post[p].at = "refused"

(***************************************************************************)
(* A logout sends its browser on once, and only when it is one.            *)
(***************************************************************************)
LoggedOutOnce == LoggedOut /\ AnsweredOnce

(***************************************************************************)
(* What the provider confirms is accepted once: if nothing failed, expired *)
(* or was changed, its answer is refused only when the same one has been   *)
(* accepted before, and no answer to another request posted with its relay *)
(* state uses the session up (logout.ts:110-124, 139).                     *)
(***************************************************************************)
ConfirmedIsAccepted ==
  LET Answers(p, r) == post[p] # None /\ post[p].relayState = r /\ post[p].inResponseTo = r
  IN trouble = 0 =>
       \A p \in Post, r \in Request :
         Answers(p, r) /\ status[r] = "Success" /\ post[p].at = "refused" => r \in landed
=============================================================================
