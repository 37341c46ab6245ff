------------------------------- MODULE SetupLink -------------------------------
(***************************************************************************)
(* Setup links (npm/src/controller/setup-link.ts): URLs with a token, by   *)
(* which the administrator of a tenant sets up its connections.  There is  *)
(* one record per tenant, product and service (an account here); the token *)
(* is only found in its URL and in the index of tokens.  A step is one     *)
(* request to the store.                                                   *)
(***************************************************************************)
EXTENDS Absence, Clients, Naturals

CONSTANTS
  Account, Token,
  KeepsEntries    \* what the engines may do with the index entries of a record
                  \* that is put again: TRUE if they stay, FALSE on MongoDB

Link == [token : Token, valid : BOOLEAN]
Op == {"create", "regenerate", "remove", "removeById"}
Call == [op : Op, account : Account, at : {"find", "delete", "put", "answer"},
         token : Token \cup {None},  \* the one to answer
         met : BOOLEAN,              \* history: has a call overlapped that may undo it?
         old : SUBSET Token]         \* history: tokens of the account given before

\* What is assumed of the constants, by the modules that instantiate this one.
LinkAssumption ==
  /\ KeepsEntries \subseteq BOOLEAN /\ MaxCalls \in Nat
  /\ None \notin Link \cup Call

VARIABLES
  keeps,    \* what this deployment's engine does
  link,     \* the link of each account, or None
  index,    \* the index of tokens: pairs of a token and an account
  call,     \* the call each caller has under way, or None
  calls,    \* number of calls made
  given,    \* history: the tokens answered
  refused,  \* history: those the portal has refused as expired
  expired,  \* history: those that found a record when it expired
  undone,   \* history: those that another call may have taken back
  revoked   \* history: those that a finished regeneration or removal has

linkVars == <<keeps, link, index, call, calls, given, refused, expired, undone, revoked>>

LinkTypeOK ==
  /\ keeps \in BOOLEAN
  /\ link \in [Account -> Link \cup {None}]
  /\ index \subseteq Token \X Account
  /\ \A a \in Account : link[a] = None => \A e \in index : e[2] # a
  /\ \A a \in Account : link[a] # None => <<link[a].token, a>> \in index
  /\ call \in [Caller -> Call \cup {None}]
  /\ calls \in 0..MaxCalls
  /\ given \subseteq Token /\ refused \subseteq Token /\ expired \subseteq Token
  /\ undone \subseteq Token /\ revoked \subseteq given

LinkInit ==
  /\ keeps \in KeepsEntries
  /\ link = [a \in Account |-> None]
  /\ index = {}
  /\ call = [p \in Caller |-> None]
  /\ calls = 0
  /\ given = {} /\ refused = {} /\ expired = {} /\ undone = {} /\ revoked = {}

-----------------------------------------------------------------------------
Removing == {"regenerate", "remove", "removeById"}
TokensOf(a) == {t \in Token : <<t, a>> \in index}
At(p, label) == call[p] # None /\ call[p].at = label
Valid(a) == link[a] # None /\ link[a].valid
Stale(a) == link[a] # None /\ ~link[a].valid
Goto(p, label) == call' = [call EXCEPT ![p].at = label]
Used == {e[1] : e \in index} \cup given \cup {call[p].token : p \in {q \in Caller : call[q] # None}}
Fresh == Token \ (Used \cup expired \cup undone)
History == <<given, refused, expired, undone, revoked>>

\* Of two calls that overlap, one that removes may undo the other, and so
\* may any where a put replaces the entries.
Undoes(op) == op \in Removing \/ ~keeps

BeginCall(p, op, a) ==
  LET others == {q \in Caller : call[q] # None /\ call[q].account = a}
  IN /\ call[p] = None /\ calls < MaxCalls
     /\ calls' = calls + 1
     /\ call' = [q \in Caller |->
          IF q = p THEN [op |-> op, account |-> a, token |-> None, old |-> TokensOf(a) \cap given,
                         at |-> IF op = "removeById" THEN "delete" ELSE "find",
                         met |-> \E o \in others : Undoes(call[o].op)]
          ELSE IF q \in others /\ Undoes(op) THEN [call[q] EXCEPT !.met = TRUE]
          ELSE call[q]]
     /\ undone' = IF op \in Removing THEN undone \cup (TokensOf(a) \cap given) ELSE undone
     /\ UNCHANGED <<keeps, link, index, given, refused, expired, revoked>>

Find_Overwrites(p) ==
  LET a == call[p].account IN
  /\ At(p, "find") /\ call[p].op \in {"create", "regenerate"}
  /\ IF Valid(a) /\ call[p].op = "create"
     THEN call' = [call EXCEPT ![p].at = "answer", ![p].token = link[a].token]
     ELSE Goto(p, "put")
  /\ UNCHANGED <<keeps, link, index, calls, History>>

\* Only a link that has not expired is given again; of a regenerated link
\* the record found is deleted first.
Find(p) ==
  LET a == call[p].account IN
  /\ At(p, "find") /\ call[p].op \in {"create", "regenerate"}
  /\ \/ /\ Valid(a) /\ call[p].op = "create"
        /\ call' = [call EXCEPT ![p].at = "answer", ![p].token = link[a].token]
     \/ link[a] # None /\ call[p].op = "regenerate" /\ Goto(p, "delete")
     \/ link[a] = None /\ Goto(p, "put")
     \/ Stale(a) /\ call[p].op = "create" /\ Goto(p, "put")
  /\ UNCHANGED <<keeps, link, index, calls, History>>

\* remove without an id looks for the link first, and throws without one.
FilterBy(p) ==
  /\ At(p, "find") /\ call[p].op = "remove"
  /\ IF link[call[p].account] = None THEN call' = [call EXCEPT ![p] = None]
     ELSE Goto(p, "delete")
  /\ UNCHANGED <<keeps, link, index, calls, History>>

DeleteLink_KeepsIndex(p) ==
  LET a == call[p].account IN
  /\ At(p, "delete")
  /\ link' = [link EXCEPT ![a] = None]
  /\ Goto(p, IF call[p].op = "regenerate" THEN "put" ELSE "answer")
  /\ UNCHANGED <<keeps, index, calls, History>>

\* The record goes with all of its index entries.
DeleteLink(p) ==
  LET a == call[p].account IN
  /\ At(p, "delete")
  /\ link' = [link EXCEPT ![a] = None]
  /\ index' = {e \in index : e[2] # a}
  /\ Goto(p, IF call[p].op = "regenerate" THEN "put" ELSE "answer")
  /\ UNCHANGED <<keeps, calls, History>>

\* A new record under a new token.
Put(p) ==
  LET a == call[p].account IN
  /\ At(p, "put")
  /\ \E t \in Fresh :
       /\ link' = [link EXCEPT ![a] = [token |-> t, valid |-> TRUE]]
       /\ index' = {<<t, a>>} \cup (IF keeps THEN index ELSE {e \in index : e[2] # a})
       /\ call' = [call EXCEPT ![p].at = "answer", ![p].token = t]
  /\ UNCHANGED <<keeps, calls, History>>

Answer(p) ==
  LET token == {call[p].token} \ {None} IN
  /\ At(p, "answer")
  /\ given' = given \cup token
  /\ undone' = IF call[p].met THEN undone \cup token ELSE undone
  /\ revoked' = IF call[p].op \in Removing THEN revoked \cup call[p].old ELSE revoked
  /\ call' = [call EXCEPT ![p] = None]
  /\ UNCHANGED <<keeps, link, index, calls, refused, expired>>

\* A request to the store fails, and with it the call.
Fail(p) ==
  /\ call[p] # None
  /\ call' = [call EXCEPT ![p] = None]
  /\ UNCHANGED <<keeps, link, index, calls, History>>

-----------------------------------------------------------------------------
Works(t) == \E a \in Account : <<t, a>> \in index /\ Valid(a)

\* The portal asks for the link of a token, before all else it does: the one
\* it finds may have expired.
GetByToken(t) ==
  /\ \E a \in Account : <<t, a>> \in index /\ Stale(a)
  /\ refused' = refused \cup {t}
  /\ UNCHANGED <<keeps, link, index, call, calls, given, expired, undone, revoked>>

\* validTill passes.
IsExpired(a) ==
  /\ Valid(a)
  /\ link' = [link EXCEPT ![a].valid = FALSE]
  /\ expired' = expired \cup TokensOf(a)
  /\ UNCHANGED <<keeps, index, call, calls, given, refused, undone, revoked>>

CallStep(p) == Find(p) \/ FilterBy(p) \/ DeleteLink(p) \/ Put(p) \/ Answer(p) \/ Fail(p)

LinkNext ==
  \/ \E p \in Caller : (\E op \in Op, a \in Account : BeginCall(p, op, a)) \/ CallStep(p)
  \/ \E t \in Token : GetByToken(t)
  \/ \E a \in Account : IsExpired(a)

LinkSpec == LinkInit /\ [][LinkNext]_linkVars

-----------------------------------------------------------------------------
(***************************************************************************)
(* A link that create has answered works until its time has passed, unless *)
(* a removal or a regeneration overlapped or followed (setup-link.ts:290): *)
(* creates that race may overwrite each other's record, not the link.      *)
(***************************************************************************)
AnsweredLinkWorks == \A t \in given \ (expired \cup undone) : Works(t)

(***************************************************************************)
(* Once a link has been regenerated or removed, no URL given before opens  *)
(* anything, ever, whatever calls race ("This will permanently delete the  *)
(* existing Setup Link", locales/en/common.json:286).                      *)
(***************************************************************************)
RevokedIsDead == \A t \in revoked : ~Works(t)

(***************************************************************************)
(* What create answered opens the portal until it expires or is taken      *)
(* back, and never after it was taken back.                                *)
(***************************************************************************)
LinkWorksUntilRevoked == AnsweredLinkWorks /\ RevokedIsDead

(***************************************************************************)
(* "If you are the administrator, visit the Admin Portal to create a new   *)
(* setup link" is what the portal says of a link it has refused            *)
(* (locales/en/common.json:90): such a link does not work again.           *)
(***************************************************************************)
ExpiredStaysExpired == \A t \in refused : ~Works(t)
=============================================================================
