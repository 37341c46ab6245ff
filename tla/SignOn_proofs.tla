---------------------------- MODULE SignOn_proofs ----------------------------
(***************************************************************************)
(* What three of the parts of sign-on guarantee, for any number of callers *)
(* and of what they call for: setup links, single logout, identity         *)
(* federation apps.                                                        *)
(***************************************************************************)
EXTENDS SignOn, OAuthFlow_proofs, Connections_proofs, TLAPS

-----------------------------------------------------------------------------
(***************************************************************************)
(* Setup links, on engines that keep the index entries of a record put     *)
(* again and on those that replace them.                                   *)
(***************************************************************************)

\* A token is of one account, in the index and in the call that answers it.
TokensFit ==
  /\ \A e, f \in index : e[1] = f[1] => e[2] = f[2]
  /\ \A p \in Caller : call[p] # None /\ call[p].token # None =>
       \A e \in index : e[1] = call[p].token => e[2] = call[p].account

\* A call has a token only when it answers a link; only removals delete.
CallsFit ==
  \A p \in Caller : call[p] # None =>
    /\ call[p].token # None =>
         call[p].at = "answer" /\ call[p].op \in {"create", "regenerate"}
    /\ call[p].at = "delete" => call[p].op \in Removing
    /\ call[p].at = "put" => call[p].op \in {"create", "regenerate"}

\* When a link expires, so do all the tokens that find it.
StaleIsExpired == \A a \in Account : Stale(a) => TokensOf(a) \subseteq expired

\* Of two calls on one account, one that may undo the other is known to it.
MeetingsKnown ==
  \A p, q \in Caller :
    /\ p # q /\ call[p] # None /\ call[q] # None
    /\ call[p].account = call[q].account
    /\ Undoes(call[q].op)
    => call[p].met

\* What a call is about to answer works, unless that call was met.
PendingWorks ==
  \A p \in Caller :
    /\ call[p] # None
    /\ ~call[p].met
    /\ call[p].token \notin {None} \cup expired \cup undone
    => Works(call[p].token)

\* What a removal is about to delete, or a put to replace, is excused.
EndangeredExcused ==
  \A p \in Caller : call[p] # None =>
    \A t \in TokensOf(call[p].account) \cap given :
      /\ call[p].op \in Removing => t \in undone
      /\ call[p].at = "put" /\ ~keeps => t \in undone \cup expired

\* Old tokens are of the call's account; once it has deleted the record they
\* are in no entry, and that stays so when they count as revoked.
OldTokensGo ==
  /\ \A p \in Caller : call[p] # None =>
       /\ call[p].old \subseteq given
       /\ \A e \in index : e[1] \in call[p].old =>
            /\ e[2] = call[p].account
            /\ ~(call[p].op \in Removing /\ call[p].at \in {"put", "answer"})
  /\ \A e \in index : e[1] \notin revoked

LinkInv ==
  /\ LinkTypeOK /\ TokensFit /\ CallsFit /\ StaleIsExpired /\ MeetingsKnown
  /\ PendingWorks /\ EndangeredExcused /\ OldTokensGo
  /\ AnsweredLinkWorks

-----------------------------------------------------------------------------
LEMMA LinksInitInv == LinkAssumption /\ LinkInit => LinkInv
BY DEF LinkAssumption, LinkInit, LinkInv, LinkTypeOK, TokensFit, CallsFit, StaleIsExpired,
       MeetingsKnown, PendingWorks, EndangeredExcused, OldTokensGo,
       AnsweredLinkWorks, Stale

\* A call begins: it knows of the others, and they of it.
LEMMA BeginStep ==
  ASSUME LinkAssumption, LinkInv,
         NEW p \in Caller, NEW op \in Op, NEW a \in Account, BeginCall(p, op, a)
  PROVE  LinkInv'
<1>. DEFINE others == {q \in Caller : call[q] # None /\ call[q].account = a}
            new == [op |-> op, account |-> a, token |-> None, old |-> TokensOf(a) \cap given,
                    at |-> IF op = "removeById" THEN "delete" ELSE "find",
                    met |-> \E o \in others : Undoes(call[o].op)]
<1>1. /\ call[p] = None
      /\ call' = [q \in Caller |->
                    IF q = p THEN new
                    ELSE IF q \in others /\ Undoes(op) THEN [call[q] EXCEPT !.met = TRUE]
                    ELSE call[q]]
      /\ undone' = IF op \in Removing THEN undone \cup (TokensOf(a) \cap given) ELSE undone
      /\ calls' \in 0..MaxCalls
      /\ UNCHANGED <<keeps, link, index, given, refused, expired, revoked>>
  BY DEF BeginCall, LinkAssumption, LinkInv, LinkTypeOK
<1>2. new \in Call /\ new # None
  <2>1. new.met \in BOOLEAN
    BY Zenon
  <2>2. TokensOf(a) \cap given \in SUBSET Token
    BY DEF TokensOf
  <2>3. (IF op = "removeById" THEN "delete" ELSE "find") \in {"find", "delete", "put", "answer"}
    OBVIOUS
  <2>. HIDE DEF others
  <2>4. new \in Call
    BY <2>1, <2>2, <2>3 DEF Call
  <2>. QED
    BY <2>4 DEF LinkAssumption
<1>3. ASSUME NEW q \in Caller, q # p, call[q] # None
      PROVE  /\ call'[q] \in Call /\ call'[q] # None
             /\ call'[q].op = call[q].op /\ call'[q].account = call[q].account
             /\ call'[q].token = call[q].token /\ call'[q].at = call[q].at
             /\ call'[q].old = call[q].old
             /\ call[q].met => call'[q].met
             /\ call[q].account = a /\ Undoes(op) => call'[q].met
  <2>1. call[q] \in Call
    BY <1>3 DEF LinkInv, LinkTypeOK
  <2>2. CASE call[q].account = a /\ Undoes(op)
    <3>1. call'[q] = [call[q] EXCEPT !.met = TRUE]
      BY <1>1, <1>3, <2>2
    <3>2. call'[q] \in Call
      BY <2>1, <3>1 DEF Call
    <3>. QED
      BY <2>1, <2>2, <3>1, <3>2 DEF Call, LinkAssumption
  <2>3. CASE ~(call[q].account = a /\ Undoes(op))
    BY <1>1, <1>3, <2>1, <2>3
  <2>. QED
    BY <2>2, <2>3
<1>4. \A q \in Caller : q # p /\ call[q] = None => call'[q] = None
  BY <1>1
<1>5. call'[p] = new
  BY <1>1
<1>6. /\ new.op = op /\ new.account = a /\ new.token = None
      /\ new.old = TokensOf(a) \cap given
      /\ new.at \in {"find", "delete"}
      /\ new.at = "delete" => op = "removeById"
      /\ (\E o \in others : Undoes(call[o].op)) => new.met
  OBVIOUS
<1>. HIDE DEF new
<1>7. LinkTypeOK'
  <2>1. call' \in [Caller -> Call \cup {None}]
    BY <1>1, <1>2, <1>3, <1>4, <1>5
  <2>2. undone' \subseteq Token
    BY <1>1 DEF LinkInv, LinkTypeOK, TokensOf
  <2>. QED
    BY <1>1, <2>1, <2>2 DEF LinkInv, LinkTypeOK
<1>8. TokensFit'
  BY <1>1, <1>3, <1>4, <1>5, <1>6 DEF LinkInv, TokensFit
<1>9. CallsFit' /\ StaleIsExpired'
  BY <1>1, <1>3, <1>4, <1>5, <1>6
     DEF LinkInv, CallsFit, StaleIsExpired, Stale, TokensOf, Removing
<1>10. MeetingsKnown'
  BY <1>1, <1>3, <1>4, <1>5, <1>6 DEF LinkInv, MeetingsKnown, Undoes
<1>11. PendingWorks'
  BY <1>1, <1>3, <1>4, <1>5, <1>6 DEF LinkInv, PendingWorks, Works, Valid
<1>12. EndangeredExcused'
  BY <1>1, <1>3, <1>4, <1>5, <1>6 DEF LinkInv, EndangeredExcused, TokensOf
<1>13. OldTokensGo'
  <2>1. \A e \in index : e[1] \in TokensOf(a) => e[2] = a
    <3>1. \A e \in index : e[1] \in TokensOf(a) => <<e[1], a>> \in index
      BY DEF TokensOf
    <3>. QED
      BY <3>1 DEF LinkInv, TokensFit
  <2>2. TokensOf(a) \cap given \subseteq given
    OBVIOUS
  <2>. QED
    BY <1>1, <1>3, <1>4, <1>5, <1>6, <2>1, <2>2 DEF LinkInv, OldTokensGo
<1>14. AnsweredLinkWorks'
  BY <1>1 DEF LinkInv, AnsweredLinkWorks, Works, Valid
<1>. QED
  BY <1>7, <1>8, <1>9, <1>10, <1>11, <1>12, <1>13, <1>14 DEF LinkInv

\* A call goes on to another request, or finds a link to answer.
LEMMA CallMoves ==
  ASSUME LinkAssumption, LinkInv, NEW p \in Caller, call[p] # None, NEW c \in Call,
         call' = [call EXCEPT ![p] = c],
         c.op = call[p].op, c.account = call[p].account,
         c.met = call[p].met, c.old = call[p].old,
         c.token # None =>
           /\ c.at = "answer" /\ c.op \in {"create", "regenerate"}
           /\ <<c.token, c.account>> \in index /\ Valid(c.account),
         c.at = "delete" => c.op \in Removing,
         c.at = "put" => /\ c.op \in {"create", "regenerate"}
                         /\ TokensOf(c.account) \subseteq expired,
         c.at \in {"put", "answer"} /\ c.op \in Removing =>
           \A e \in index : e[2] # c.account,
         UNCHANGED <<keeps, link, index, calls, given, refused, expired, undone, revoked>>
  PROVE  LinkInv'
<1>1. call'[p] = c /\ c # None /\ \A q \in Caller \ {p} : call'[q] = call[q]
  BY DEF LinkInv, LinkTypeOK, LinkAssumption
<1>2. LinkTypeOK'
  BY DEF LinkInv, LinkTypeOK
<1>3. TokensFit'
  <2>1. c.token # None => \A e \in index : e[1] = c.token => e[2] = c.account
    BY DEF LinkInv, TokensFit
  <2>. QED
    BY <1>1, <2>1 DEF LinkInv, TokensFit
<1>4. CallsFit' /\ StaleIsExpired'
  BY <1>1 DEF LinkInv, CallsFit, StaleIsExpired, Stale, TokensOf
<1>5. MeetingsKnown'
  BY <1>1 DEF LinkInv, MeetingsKnown, Undoes
<1>6. PendingWorks'
  <2>1. c.token # None => Works(c.token)
    BY DEF Works, Call
  <2>2. \A t : Works(t)' = Works(t)
    BY DEF Works, Valid
  <2>. QED
    BY <1>1, <2>1, <2>2 DEF LinkInv, PendingWorks
<1>7. EndangeredExcused'
  BY <1>1 DEF LinkInv, EndangeredExcused, TokensOf
<1>8. OldTokensGo'
  BY <1>1 DEF LinkInv, OldTokensGo
<1>9. AnsweredLinkWorks'
  BY DEF LinkInv, AnsweredLinkWorks, Works, Valid
<1>. QED
  BY <1>2, <1>3, <1>4, <1>5, <1>6, <1>7, <1>8, <1>9 DEF LinkInv

\* A call ends without an answer.
LEMMA CallEnds ==
  ASSUME LinkAssumption, LinkInv, NEW p \in Caller,
         call' = [call EXCEPT ![p] = None],
         UNCHANGED <<keeps, link, index, calls, given, refused, expired, undone, revoked>>
  PROVE  LinkInv'
<1>1. call'[p] = None /\ \A q \in Caller \ {p} : call'[q] = call[q]
  BY DEF LinkInv, LinkTypeOK
<1>2. LinkTypeOK'
  BY DEF LinkInv, LinkTypeOK
<1>3. TokensFit' /\ CallsFit' /\ StaleIsExpired'
  BY <1>1 DEF LinkInv, TokensFit, CallsFit, StaleIsExpired, Stale, TokensOf
<1>4. MeetingsKnown'
  BY <1>1 DEF LinkInv, MeetingsKnown, Undoes
<1>5. PendingWorks'
  BY <1>1 DEF LinkInv, PendingWorks, Works, Valid
<1>6. EndangeredExcused' /\ OldTokensGo'
  BY <1>1 DEF LinkInv, EndangeredExcused, TokensOf, OldTokensGo
<1>7. AnsweredLinkWorks'
  BY DEF LinkInv, AnsweredLinkWorks, Works, Valid
<1>. QED
  BY <1>2, <1>3, <1>4, <1>5, <1>6, <1>7 DEF LinkInv

\* A link that has not expired is found, or the record is to be replaced.
LEMMA FindStep ==
  ASSUME LinkAssumption, LinkInv, NEW p \in Caller, Find(p)
  PROVE  LinkInv'
<1>. DEFINE a == call[p].account
            found == [call[p] EXCEPT !.at = "answer", !.token = link[a].token]
            deletes == [call[p] EXCEPT !.at = "delete"]
            puts == [call[p] EXCEPT !.at = "put"]
<1>1. /\ call[p] # None /\ call[p] \in Call /\ a \in Account
      /\ call[p].at = "find" /\ call[p].op \in {"create", "regenerate"}
      /\ call[p].token = None
      /\ UNCHANGED <<keeps, link, index, calls, given, refused, expired, undone, revoked>>
  BY DEF Find, At, LinkInv, LinkTypeOK, Call, CallsFit, History
<1>2. CASE Valid(a) /\ call[p].op = "create" /\ call' = [call EXCEPT ![p] = found]
  <2>1. link[a].token \in Token /\ <<link[a].token, a>> \in index
    BY <1>1, <1>2 DEF LinkInv, LinkTypeOK, Valid, Link
  <2>2. found \in Call
    BY <1>1, <2>1 DEF Call
  <2>. QED
    BY <1>1, <1>2, <2>1, <2>2, CallMoves DEF Call, Removing
<1>3. CASE link[a] # None /\ call[p].op = "regenerate" /\ call' = [call EXCEPT ![p] = deletes]
  <2>1. deletes \in Call
    BY <1>1 DEF Call
  <2>. QED
    BY <1>1, <1>3, <2>1, CallMoves DEF Call, Removing
<1>4. CASE /\ link[a] = None \/ (Stale(a) /\ call[p].op = "create")
           /\ call' = [call EXCEPT ![p] = puts]
  <2>1. puts \in Call
    BY <1>1 DEF Call
  <2>2. link[a] = None => \A e \in index : e[2] # a
    BY <1>1 DEF LinkInv, LinkTypeOK
  <2>3. TokensOf(a) \subseteq expired
    BY <1>1, <1>4, <2>2 DEF LinkInv, StaleIsExpired, TokensOf
  <2>. QED
    BY <1>1, <1>4, <2>1, <2>2, <2>3, CallMoves DEF Call, Removing
<1>. QED
  BY <1>1, <1>2, <1>3, <1>4 DEF Find, Goto

\* remove without an id finds its link, or throws.
LEMMA FilterStep ==
  ASSUME LinkAssumption, LinkInv, NEW p \in Caller, FilterBy(p)
  PROVE  LinkInv'
<1>. DEFINE deletes == [call[p] EXCEPT !.at = "delete"]
<1>1. /\ call[p] # None /\ call[p] \in Call
      /\ call[p].at = "find" /\ call[p].op = "remove" /\ call[p].token = None
      /\ UNCHANGED <<keeps, link, index, calls, given, refused, expired, undone, revoked>>
  BY DEF FilterBy, At, LinkInv, LinkTypeOK, CallsFit, History
<1>2. CASE call' = [call EXCEPT ![p] = deletes]
  <2>1. deletes \in Call
    BY <1>1 DEF Call
  <2>. QED
    BY <1>1, <1>2, <2>1, CallMoves DEF Call, Removing
<1>3. CASE call' = [call EXCEPT ![p] = None]
  BY <1>1, <1>3, CallEnds
<1>. QED
  BY <1>1, <1>2, <1>3 DEF FilterBy, Goto

\* The record is deleted with its entries: none of its tokens is relied upon.
LEMMA DeleteStep ==
  ASSUME LinkAssumption, LinkInv, NEW p \in Caller, DeleteLink(p)
  PROVE  LinkInv'
<1>. PICK a \in Account : a = call[p].account
  BY DEF DeleteLink, At, LinkInv, LinkTypeOK, Call
<1>. DEFINE label == IF call[p].op = "regenerate" THEN "put" ELSE "answer"
            c == [call[p] EXCEPT !.at = label]
<1>1. /\ call[p] # None /\ call[p] \in Call
      /\ call[p].at = "delete" /\ call[p].op \in Removing /\ call[p].token = None
      /\ link' = [link EXCEPT ![a] = None]
      /\ index' = {e \in index : e[2] # a}
      /\ call' = [call EXCEPT ![p] = c]
      /\ UNCHANGED <<keeps, calls, given, refused, expired, undone, revoked>>
  BY DEF DeleteLink, At, Goto, LinkInv, LinkTypeOK, Call, CallsFit, History
<1>2. /\ c \in Call /\ c # None
      /\ c.op = call[p].op /\ c.account = a /\ c.met = call[p].met
      /\ c.old = call[p].old /\ c.token = None
      /\ c.at \in {"put", "answer"} /\ (c.at = "put" => c.op = "regenerate")
  BY <1>1 DEF Call, LinkAssumption
<1>. HIDE DEF c
<1>3. call'[p] = c /\ \A q \in Caller \ {p} : call'[q] = call[q]
  BY <1>1 DEF LinkInv, LinkTypeOK
<1>4. /\ link'[a] = None
      /\ \A b \in Account \ {a} : link'[b] = link[b] /\ TokensOf(b)' = TokensOf(b)
      /\ TokensOf(a)' = {}
  <2>1. link'[a] = None /\ \A b \in Account \ {a} : link'[b] = link[b]
    BY <1>1 DEF LinkInv, LinkTypeOK
  <2>2. \A b \in Account \ {a}, t \in Token : <<t, b>> \in index' <=> <<t, b>> \in index
    BY <1>1
  <2>3. \A t \in Token : <<t, a>> \notin index'
    BY <1>1
  <2>4. ASSUME NEW b \in Account \ {a} PROVE TokensOf(b)' = TokensOf(b)
    BY <2>2 DEF TokensOf
  <2>5. TokensOf(a)' = {}
    BY <2>3 DEF TokensOf
  <2>. QED
    BY <2>1, <2>4, <2>5
<1>5. \A t \in Token : Works(t) => Works(t)' \/ t \in TokensOf(a)
  BY <1>1, <1>4 DEF Works, Valid, TokensOf
<1>6. LinkTypeOK'
  BY <1>1, <1>2 DEF LinkInv, LinkTypeOK
<1>7. TokensFit'
  BY <1>1, <1>2, <1>3 DEF LinkInv, TokensFit
<1>8. CallsFit'
  BY <1>1, <1>2, <1>3 DEF LinkInv, CallsFit
<1>9. StaleIsExpired'
  BY <1>1, <1>4 DEF LinkInv, StaleIsExpired, Stale
<1>10. MeetingsKnown'
  BY <1>1, <1>2, <1>3 DEF LinkInv, MeetingsKnown, Undoes
<1>11. PendingWorks'
  <2>. SUFFICES ASSUME NEW q \in Caller, call'[q] # None, ~call'[q].met,
                       call'[q].token \notin {None} \cup expired \cup undone
                PROVE  Works(call[q].token)'
    BY <1>1 DEF PendingWorks
  <2>1. q # p /\ call'[q] = call[q]
    BY <1>2, <1>3
  <2>2. call[q].account # a
    BY <1>1, <2>1 DEF LinkInv, MeetingsKnown, Undoes
  <2>3. call[q].token \in Token /\ Works(call[q].token)
    BY <2>1 DEF LinkInv, PendingWorks, LinkTypeOK, Call
  <2>4. call[q].token \notin TokensOf(a)
    BY <2>1, <2>2 DEF LinkInv, TokensFit, TokensOf
  <2>. QED
    BY <1>5, <2>1, <2>3, <2>4
<1>12. EndangeredExcused'
  BY <1>1, <1>2, <1>3, <1>4 DEF LinkInv, EndangeredExcused, LinkTypeOK, Call
<1>13. OldTokensGo'
  BY <1>1, <1>2, <1>3 DEF LinkInv, OldTokensGo
<1>14. AnsweredLinkWorks'
  <2>1. \A t \in TokensOf(a) \cap given : t \in undone
    BY <1>1 DEF LinkInv, EndangeredExcused
  <2>. QED
    BY <1>1, <1>5, <2>1 DEF LinkInv, AnsweredLinkWorks, LinkTypeOK
<1>. QED
  BY <1>6, <1>7, <1>8, <1>9, <1>10, <1>11, <1>12, <1>13, <1>14 DEF LinkInv

\* A new record: its token is in no entry, no call and no answer yet.
LEMMA PutStep ==
  ASSUME LinkAssumption, LinkInv, NEW p \in Caller, Put(p)
  PROVE  LinkInv'
<1>. PICK a \in Account : a = call[p].account
  BY DEF Put, At, LinkInv, LinkTypeOK, Call
<1>1. PICK t \in Fresh :
        /\ link' = [link EXCEPT ![a] = [token |-> t, valid |-> TRUE]]
        /\ index' = {<<t, a>>} \cup (IF keeps THEN index ELSE {e \in index : e[2] # a})
        /\ call' = [call EXCEPT ![p].at = "answer", ![p].token = t]
  BY DEF Put
<1>. DEFINE c == [call[p] EXCEPT !.at = "answer", !.token = t]
            l == [token |-> t, valid |-> TRUE]
<1>2. /\ call[p] # None /\ call[p] \in Call
      /\ call[p].at = "put" /\ call[p].op \in {"create", "regenerate"}
      /\ call' = [call EXCEPT ![p] = c]
      /\ UNCHANGED <<keeps, calls, given, refused, expired, undone, revoked>>
  BY <1>1 DEF Put, At, LinkInv, LinkTypeOK, Call, CallsFit, History
<1>3. /\ t \in Token /\ t \notin given /\ t \notin expired /\ t \notin undone
      /\ \A e \in index : e[1] # t
      /\ \A q \in Caller : call[q] # None => call[q].token # t
  BY DEF Fresh, Used
<1>4. /\ c \in Call /\ c # None
      /\ c.op = call[p].op /\ c.account = a /\ c.met = call[p].met
      /\ c.old = call[p].old /\ c.token = t /\ c.at = "answer"
      /\ l \in Link /\ l # None /\ l.token = t /\ l.valid
  <2>1. c \in Call /\ c.op = call[p].op /\ c.account = a /\ c.met = call[p].met
        /\ c.old = call[p].old /\ c.token = t /\ c.at = "answer"
    BY <1>2, <1>3 DEF Call
  <2>2. l \in Link /\ l.token = t /\ l.valid
    BY <1>3 DEF Link
  <2>. QED
    BY <2>1, <2>2 DEF LinkAssumption
<1>. HIDE DEF c, l
<1>5. call'[p] = c /\ \A q \in Caller \ {p} : call'[q] = call[q]
  BY <1>2 DEF LinkInv, LinkTypeOK
<1>6. link'[a] = l /\ \A b \in Account \ {a} : link'[b] = link[b]
  BY <1>1, <1>2 DEF LinkInv, LinkTypeOK, l
<1>7. /\ <<t, a>> \in index'
      /\ \A e \in index' : e = <<t, a>> \/ e \in index
      /\ \A e \in index : e \in index' \/ (~keeps /\ e[2] = a)
  BY <1>1
<1>8. /\ Valid(a)' /\ ~Stale(a)'
      /\ \A b \in Account \ {a} : (Valid(b) => Valid(b)') /\ (Stale(b)' => Stale(b))
  BY <1>2, <1>4, <1>6 DEF Valid, Stale
<1>9. \A u \in Token : Works(u) => Works(u)' \/ (~keeps /\ u \in TokensOf(a))
  <2>. SUFFICES ASSUME NEW u \in Token, NEW b \in Account, <<u, b>> \in index, Valid(b)
                PROVE  Works(u)' \/ (~keeps /\ u \in TokensOf(a))
    BY DEF Works
  <2>1. CASE <<u, b>> \in index'
    <3>1. Valid(b)'
      BY <1>2, <1>4, <1>6 DEF Valid
    <3>. QED
      BY <2>1, <3>1 DEF Works
  <2>2. CASE <<u, b>> \notin index'
    BY <1>7, <2>2 DEF TokensOf
  <2>. QED
    BY <2>1, <2>2
<1>10. LinkTypeOK'
  <2>1. link' \in [Account -> Link \cup {None}] /\ call' \in [Caller -> Call \cup {None}]
    BY <1>1, <1>2, <1>4 DEF LinkInv, LinkTypeOK, l
  <2>2. index' \subseteq Token \X Account
    BY <1>1, <1>2, <1>3 DEF LinkInv, LinkTypeOK
  <2>3. \A b \in Account : link'[b] = None => \A e \in index' : e[2] # b
    BY <1>2, <1>4, <1>6, <1>7 DEF LinkInv, LinkTypeOK
  <2>4. \A b \in Account : link'[b] # None => <<link'[b].token, b>> \in index'
    BY <1>2, <1>4, <1>6, <1>7 DEF LinkInv, LinkTypeOK
  <2>. QED
    BY <1>2, <2>1, <2>2, <2>3, <2>4 DEF LinkInv, LinkTypeOK
<1>11. TokensFit'
  BY <1>3, <1>4, <1>5, <1>7 DEF LinkInv, TokensFit
<1>12. CallsFit'
  BY <1>2, <1>4, <1>5 DEF LinkInv, CallsFit
<1>13. StaleIsExpired'
  <2>. SUFFICES ASSUME NEW b \in Account, Stale(b)', NEW u \in Token, <<u, b>> \in index'
                PROVE  u \in expired
    BY <1>2 DEF StaleIsExpired, TokensOf
  <2>1. b # a /\ Stale(b)
    BY <1>2, <1>4, <1>6 DEF Stale
  <2>2. <<u, b>> \in index
    BY <1>7, <2>1
  <2>. QED
    BY <2>1, <2>2 DEF LinkInv, StaleIsExpired, TokensOf
<1>14. MeetingsKnown'
  BY <1>2, <1>4, <1>5 DEF LinkInv, MeetingsKnown, Undoes
<1>15. PendingWorks'
  <2>. SUFFICES ASSUME NEW q \in Caller, call'[q] # None, ~call'[q].met,
                       call'[q].token \notin {None} \cup expired \cup undone
                PROVE  Works(call[q].token)'
    BY <1>2 DEF PendingWorks
  <2>1. CASE q = p
    BY <1>2, <1>4, <1>5, <1>7, <1>8, <2>1 DEF Works
  <2>2. CASE q # p
    <3>1. call'[q] = call[q] /\ call[q].token \in Token /\ Works(call[q].token)
      BY <1>5, <2>2 DEF LinkInv, PendingWorks, LinkTypeOK, Call
    <3>2. ~keeps => call[q].account # a
      BY <1>2, <2>2, <3>1 DEF LinkInv, MeetingsKnown, Undoes
    <3>3. ~keeps => call[q].token \notin TokensOf(a)
      BY <3>1, <3>2 DEF LinkInv, TokensFit, TokensOf
    <3>. QED
      BY <1>9, <3>1, <3>3
  <2>. QED
    BY <2>1, <2>2
<1>16. EndangeredExcused'
  BY <1>2, <1>3, <1>4, <1>5, <1>7 DEF LinkInv, EndangeredExcused, TokensOf
<1>17. OldTokensGo'
  <2>1. \A q \in Caller : call[q] # None => t \notin call[q].old
    BY <1>3 DEF LinkInv, OldTokensGo
  <2>2. t \notin revoked
    BY <1>3 DEF LinkInv, LinkTypeOK
  <2>3. \A q \in Caller : call'[q] # None =>
           /\ call[q] # None /\ call'[q].old = call[q].old
           /\ call'[q].account = call[q].account /\ call'[q].op = call[q].op
           /\ call'[q].at = call[q].at \/ (q = p /\ call[q].at = "put")
    BY <1>2, <1>4, <1>5
  <2>. QED
    BY <1>2, <1>7, <2>1, <2>2, <2>3 DEF LinkInv, OldTokensGo
<1>18. AnsweredLinkWorks'
  <2>1. ~keeps => TokensOf(a) \cap given \subseteq undone \cup expired
    BY <1>2 DEF LinkInv, EndangeredExcused
  <2>. QED
    BY <1>2, <1>9, <2>1 DEF LinkInv, AnsweredLinkWorks, LinkTypeOK
<1>. QED
  BY <1>10, <1>11, <1>12, <1>13, <1>14, <1>15, <1>16, <1>17, <1>18 DEF LinkInv

\* A call answers: what it has taken back was in no entry before.
LEMMA AnswerStep ==
  ASSUME LinkAssumption, LinkInv, NEW p \in Caller, Answer(p)
  PROVE  LinkInv'
<1>. DEFINE mine == {call[p].token} \ {None}
<1>1. /\ call[p] # None /\ call[p] \in Call /\ call[p].at = "answer"
      /\ given' = given \cup mine
      /\ undone' = IF call[p].met THEN undone \cup mine ELSE undone
      /\ revoked' = IF call[p].op \in Removing THEN revoked \cup call[p].old ELSE revoked
      /\ call' = [call EXCEPT ![p] = None]
      /\ UNCHANGED <<keeps, link, index, calls, refused, expired>>
  BY DEF Answer, At, LinkInv, LinkTypeOK
<1>2. mine \subseteq Token /\ call[p].old \subseteq given
  BY <1>1 DEF LinkInv, LinkTypeOK, Call, OldTokensGo
<1>3. call'[p] = None /\ \A q \in Caller \ {p} : call'[q] = call[q]
  BY <1>1 DEF LinkInv, LinkTypeOK
<1>4. \A t \in Token : Works(t)' = Works(t)
  BY <1>1 DEF Works, Valid
<1>5. undone \subseteq undone'
  BY <1>1
<1>6. LinkTypeOK'
  <2>1. undone' \subseteq Token
    BY <1>1, <1>2 DEF LinkInv, LinkTypeOK
  <2>2. revoked' \subseteq given'
    BY <1>1, <1>2 DEF LinkInv, LinkTypeOK
  <2>. QED
    BY <1>1, <1>2, <2>1, <2>2 DEF LinkInv, LinkTypeOK
<1>7. TokensFit' /\ CallsFit' /\ StaleIsExpired'
  BY <1>1, <1>3 DEF LinkInv, TokensFit, CallsFit, StaleIsExpired, Stale, TokensOf
<1>8. MeetingsKnown'
  BY <1>1, <1>3 DEF LinkInv, MeetingsKnown, Undoes
<1>9. PendingWorks'
  BY <1>1, <1>3, <1>4, <1>5 DEF LinkInv, PendingWorks, LinkTypeOK, Call
<1>10. EndangeredExcused'
  <2>. SUFFICES ASSUME NEW q \in Caller, call'[q] # None,
                       NEW t \in Token, <<t, call[q].account>> \in index, t \in given',
                       t \notin undone'
                PROVE  /\ call[q].op \notin Removing
                       /\ call[q].at = "put" /\ ~keeps => t \in expired
    BY <1>1, <1>3 DEF EndangeredExcused, TokensOf
  <2>1. q # p /\ call'[q] = call[q] /\ call[q] # None /\ call[q] \in Call
    BY <1>3 DEF LinkInv, LinkTypeOK
  <2>2. CASE t \in given
    BY <1>5, <2>1, <2>2 DEF LinkInv, EndangeredExcused, TokensOf
  <2>3. CASE t \notin given
    <3>1. t = call[p].token /\ t # None /\ ~call[p].met
      BY <1>1, <2>3
    <3>2. call[p].account = call[q].account
      BY <1>1, <3>1 DEF LinkInv, TokensFit
    <3>3. ~Undoes(call[q].op)
      BY <1>1, <2>1, <3>1, <3>2 DEF LinkInv, MeetingsKnown
    <3>. QED
      BY <3>3 DEF Undoes
  <2>. QED
    BY <2>2, <2>3
<1>11. OldTokensGo'
  BY <1>1, <1>3 DEF LinkInv, OldTokensGo
<1>12. AnsweredLinkWorks'
  BY <1>1, <1>2, <1>4, <1>5 DEF LinkInv, AnsweredLinkWorks, PendingWorks, LinkTypeOK
<1>. QED
  BY <1>6, <1>7, <1>8, <1>9, <1>10, <1>11, <1>12 DEF LinkInv

\* A record expires, and with it every token that finds it.
LEMMA ExpireStep ==
  ASSUME LinkAssumption, LinkInv, NEW a \in Account, IsExpired(a)
  PROVE  LinkInv'
<1>1. /\ link[a] # None /\ link[a] \in Link
      /\ link' = [link EXCEPT ![a] = [link[a] EXCEPT !.valid = FALSE]]
      /\ expired' = expired \cup TokensOf(a)
      /\ UNCHANGED <<keeps, index, call, calls, given, refused, undone, revoked>>
  BY DEF IsExpired, Valid, LinkInv, LinkTypeOK
<1>2. /\ link'[a] \in Link /\ link'[a] # None /\ link'[a].token = link[a].token
      /\ \A b \in Account \ {a} : link'[b] = link[b]
  BY <1>1 DEF LinkInv, LinkTypeOK, Link, LinkAssumption
<1>3. \A t \in Token : Works(t) => Works(t)' \/ t \in expired'
  BY <1>1, <1>2 DEF Works, Valid, TokensOf
<1>4. \A b \in Account : TokensOf(b)' = TokensOf(b)
  BY <1>1 DEF TokensOf
<1>5. LinkTypeOK'
  <2>1. link' \in [Account -> Link \cup {None}]
    BY <1>1, <1>2 DEF LinkInv, LinkTypeOK
  <2>2. expired' \subseteq Token
    BY <1>1 DEF LinkInv, LinkTypeOK, TokensOf
  <2>. QED
    BY <1>1, <1>2, <2>1, <2>2 DEF LinkInv, LinkTypeOK
<1>6. TokensFit' /\ CallsFit' /\ MeetingsKnown' /\ OldTokensGo'
  BY <1>1 DEF LinkInv, TokensFit, CallsFit, MeetingsKnown, Undoes, OldTokensGo
<1>7. StaleIsExpired'
  BY <1>1, <1>2, <1>4 DEF LinkInv, StaleIsExpired, Stale
<1>8. PendingWorks'
  BY <1>1, <1>3 DEF LinkInv, PendingWorks, LinkTypeOK, Call
<1>9. EndangeredExcused'
  BY <1>1, <1>4 DEF LinkInv, EndangeredExcused, LinkTypeOK, Call
<1>10. AnsweredLinkWorks'
  BY <1>1, <1>3 DEF LinkInv, AnsweredLinkWorks, LinkTypeOK
<1>. QED
  BY <1>5, <1>6, <1>7, <1>8, <1>9, <1>10 DEF LinkInv

LEMMA LinksInvStep == LinkAssumption /\ LinkInv /\ [LinkNext]_linkVars => LinkInv'
<1>. SUFFICES ASSUME LinkAssumption, LinkInv, [LinkNext]_linkVars
              PROVE  LinkInv'
  OBVIOUS
<1>1. ASSUME NEW p \in Caller, Fail(p) PROVE LinkInv'
  BY <1>1, CallEnds DEF Fail, History
<1>2. ASSUME NEW p \in Caller, CallStep(p) PROVE LinkInv'
  BY <1>1, <1>2, FindStep, FilterStep, DeleteStep, PutStep, AnswerStep DEF CallStep
<1>3. ASSUME NEW t \in Token, GetByToken(t) PROVE LinkInv'
  <2>1. /\ refused' = refused \cup {t}
        /\ UNCHANGED <<keeps, link, index, call, calls, given, expired, undone, revoked>>
    BY <1>3 DEF GetByToken
  <2>2. LinkTypeOK'
    BY <2>1 DEF LinkInv, LinkTypeOK
  <2>. QED
    BY <2>1, <2>2 DEF LinkInv, TokensFit, CallsFit, StaleIsExpired, Stale, TokensOf,
         MeetingsKnown, Undoes, PendingWorks, Works, Valid, EndangeredExcused,
         OldTokensGo, AnsweredLinkWorks
<1>4. CASE UNCHANGED linkVars
  BY <1>4 DEF linkVars, LinkInv, LinkTypeOK, TokensFit, CallsFit, StaleIsExpired, Stale,
              TokensOf, MeetingsKnown, Undoes, PendingWorks, Works, Valid,
              EndangeredExcused, OldTokensGo, AnsweredLinkWorks
<1>. QED
  BY <1>2, <1>3, <1>4, BeginStep, ExpireStep DEF LinkNext

LEMMA LinksInvariant == ASSUME LinkAssumption PROVE LinkSpec => []LinkInv
BY LinksInitInv, LinksInvStep, PTL DEF LinkSpec

(***************************************************************************)
(* Every reachable state is well typed; in each the index has all tokens   *)
(* of a stored link and none of an account without one.                    *)
(***************************************************************************)
THEOREM LinksTyped == ASSUME LinkAssumption PROVE LinkSpec => []LinkTypeOK
BY LinksInvariant, PTL DEF LinkInv

(***************************************************************************)
(* Whatever calls overlap, on every engine: a link that create answered    *)
(* works until it expires or is taken back, and none works after it was    *)
(* regenerated or removed.                                                 *)
(***************************************************************************)
THEOREM AnsweredUntilRevoked ==
  ASSUME LinkAssumption PROVE LinkSpec => []LinkWorksUntilRevoked
<1>1. LinkInv => LinkWorksUntilRevoked
  BY DEF LinkInv, LinkWorksUntilRevoked, RevokedIsDead, Works, OldTokensGo
<1>. QED
  BY <1>1, LinksInvariant, PTL

-----------------------------------------------------------------------------
(***************************************************************************)
(* Single logout, for any number of requests, answers, connections and     *)
(* providers.                                                              *)
(***************************************************************************)

\* The provider hears of a request only when its session is stored, and the
\* session is of a request to a connection.
SentFirst ==
  \A r \in Request :
    /\ status[r] # None \/ pending[r] => request[r] = "sent"
    /\ request[r] \in {"signing", "sent"} => sentTo[r] # None

\* Answers are the provider's, and an accepted one is to its own request.
PostsFit ==
  \A p \in Post : post[p] # None =>
    /\ status[post[p].inResponseTo] # None
    /\ post[p].at \in {"valid", "done"} =>
         post[p].inResponseTo = post[p].relayState /\ status[post[p].relayState] = "Success"

\* A session that a handler has deleted is of a confirmed logout, and is gone.
OverIsGone == \A r \in over : status[r] = "Success" /\ ~pending[r]

\* If nothing was changed or failed, a session stays until its logout is done.
Untroubled ==
  trouble = 0 =>
    /\ \A c \in Provider : record[c] = [slo |-> TRUE, current |-> TRUE]
    /\ \A r \in Request : request[r] = "sent" => pending[r] \/ r \in landed

LogoutInv ==
  /\ LogoutTypeOK /\ SentFirst /\ PostsFit /\ OverIsGone /\ Untroubled
  /\ LoggedOutOnce /\ ConfirmedIsAccepted

-----------------------------------------------------------------------------
LEMMA LogoutInitInv == LogoutAssumption /\ LogoutInit => LogoutInv
BY DEF LogoutAssumption, LogoutInit, LogoutInv, LogoutTypeOK, SentFirst, PostsFit,
       OverIsGone, Untroubled, LoggedOutOnce, LoggedOut, AnsweredOnce,
       ConfirmedIsAccepted, Record

\* A request goes from new over signing to sent, or is refused: no answer and
\* no browser is concerned.
LEMMA RequestStep ==
  ASSUME LogoutAssumption, LogoutInv, NEW r \in Request,
         CreateRequest(r) \/ PutSession(r) \/ RequestFails(r)
  PROVE  LogoutInv'
<1>1. LogoutTypeOK'
  <2>1. CASE CreateRequest(r)
    <3>1. \A c \in ByTenant(Asker[r]) : c \in Provider
      BY DEF ByTenant, Stored
    <3>2. /\ sentTo' \in [Request -> Provider \cup {None}]
          /\ request' \in [Request -> {"new", "signing", "sent", "refused"}]
      BY <2>1, <3>1 DEF LogoutInv, LogoutTypeOK, CreateRequest
    <3>. QED
      BY <2>1, <3>2 DEF LogoutInv, LogoutTypeOK, CreateRequest
  <2>2. CASE PutSession(r)
    BY <2>2 DEF LogoutInv, LogoutTypeOK, PutSession
  <2>3. CASE RequestFails(r)
    BY <2>3 DEF LogoutInv, LogoutTypeOK, RequestFails, Troubled, LogoutAssumption
  <2>. QED
    BY <2>1, <2>2, <2>3
<1>2. SentFirst'
  <2>1. CASE CreateRequest(r)
    <3>1. \A c \in ByTenant(Asker[r]) : c # None
      BY DEF ByTenant, Stored, LogoutAssumption
    <3>. QED
      BY <2>1, <3>1 DEF CreateRequest, LogoutInv, LogoutTypeOK, SentFirst
  <2>2. CASE PutSession(r) \/ RequestFails(r)
    BY <2>2 DEF PutSession, RequestFails, LogoutInv, LogoutTypeOK, SentFirst
  <2>. QED
    BY <2>1, <2>2
<1>3. UNCHANGED <<record, status, post, landed, over>> /\ trouble' \in {trouble, trouble + 1}
  BY DEF CreateRequest, PutSession, RequestFails, Troubled
<1>4. \A q \in Request : pending'[q] # pending[q] => q = r /\ status[r] = None /\ pending'[r]
  BY DEF CreateRequest, PutSession, RequestFails, LogoutInv, LogoutTypeOK, SentFirst
<1>5. OverIsGone'
  <2>1. r \notin over
    BY DEF LogoutInv, OverIsGone, SentFirst, LogoutAssumption,
           CreateRequest, RequestFails, PutSession
  <2>. QED
    BY <1>3, <1>4, <2>1 DEF LogoutInv, LogoutTypeOK, OverIsGone
<1>6. Untroubled'
  BY <1>3 DEF LogoutInv, LogoutTypeOK, Untroubled, CreateRequest, PutSession, RequestFails,
              Troubled, LogoutAssumption
<1>7. PostsFit' /\ LoggedOutOnce' /\ ConfirmedIsAccepted'
  BY <1>3 DEF LogoutInv, LogoutTypeOK, PostsFit, LoggedOutOnce, LoggedOut, AnsweredOnce,
              ConfirmedIsAccepted, LogoutAssumption
<1>. QED
  BY <1>1, <1>2, <1>5, <1>6, <1>7 DEF LogoutInv
LEMMA ConcludeStep ==
  ASSUME LogoutAssumption, LogoutInv,
         NEW r \in Request, NEW s \in {"Success", "failed"}, Conclude(r, s)
  PROVE  LogoutInv'
<1>1. LogoutTypeOK' /\ SentFirst' /\ Untroubled'
  BY DEF LogoutInv, LogoutTypeOK, SentFirst, Untroubled, Conclude
<1>2. \A p \in Post : post[p] # None =>
        post[p] \in Response /\ post[p].inResponseTo # r
  BY DEF LogoutInv, LogoutTypeOK, PostsFit, Conclude
<1>3. PostsFit'
  BY <1>2 DEF LogoutInv, LogoutTypeOK, PostsFit, Conclude, Response, LogoutAssumption
<1>4. OverIsGone' /\ LoggedOutOnce'
  BY DEF LogoutInv, LogoutTypeOK, OverIsGone, LoggedOutOnce, LoggedOut, AnsweredOnce,
         Conclude, LogoutAssumption
<1>5. ConfirmedIsAccepted'
  BY <1>2 DEF LogoutInv, LogoutTypeOK, ConfirmedIsAccepted, Conclude
<1>. QED
  BY <1>1, <1>3, <1>4, <1>5 DEF LogoutInv

\* A handler looks for the session: what it finds decides of the answer.
LEMMA GetSessionStep ==
  ASSUME LogoutAssumption, LogoutInv,
         NEW p \in Post, NEW r \in Request, NEW m \in Request, GetSession(p, r, m)
  PROVE  LogoutInv'
<1>. DEFINE new == [relayState |-> r, inResponseTo |-> m, late |-> r \in over,
                    at |-> IF pending[r] THEN "found" ELSE "refused"]
<1>1. /\ post' = [post EXCEPT ![p] = new] /\ status[m] # None
      /\ UNCHANGED <<record, request, sentTo, pending, status, landed, over, trouble>>
  BY DEF GetSession
<1>2. new \in Response
  <2>1. (r \in over) \in BOOLEAN
    OBVIOUS
  <2>2. new.at \in {"found", "valid", "done", "refused"}
    OBVIOUS
  <2>. QED
    BY <2>1, <2>2 DEF Response
<1>3. /\ new.relayState = r /\ new.inResponseTo = m /\ new.late = (r \in over)
      /\ new.at = IF pending[r] THEN "found" ELSE "refused"
  OBVIOUS
<1>. HIDE DEF new
<1>4. /\ post'[p] = new
      /\ \A q \in Post : q # p => post'[q] = post[q]
  BY <1>1 DEF LogoutInv, LogoutTypeOK
<1>5. LogoutTypeOK'
  BY <1>1, <1>2 DEF LogoutInv, LogoutTypeOK
<1>6. SentFirst' /\ OverIsGone' /\ Untroubled' /\ LoggedOut'
  BY <1>1 DEF LogoutInv, SentFirst, OverIsGone, Untroubled, LoggedOutOnce, LoggedOut
<1>7. PostsFit'
  BY <1>1, <1>3, <1>4 DEF LogoutInv, PostsFit
<1>8. AnsweredOnce'
  BY <1>1, <1>3, <1>4 DEF LogoutInv, LoggedOutOnce, AnsweredOnce, OverIsGone
<1>9. ConfirmedIsAccepted'
  <2>1. trouble = 0 /\ status[r] # None => pending[r] \/ r \in landed
    BY DEF LogoutInv, SentFirst, Untroubled
  <2>. QED
    BY <1>1, <1>3, <1>4, <2>1 DEF LogoutInv, ConfirmedIsAccepted
<1>. QED
  BY <1>5, <1>6, <1>7, <1>8, <1>9 DEF LogoutInv, LoggedOutOnce

\* A handler goes on without touching the store; an answer that is confirmed
\* and to its own request is refused only when something was changed or failed.
LEMMA HandlerMoves ==
  ASSUME LogoutAssumption, LogoutInv, NEW p \in Post, NEW label \in {"valid", "refused"},
         post[p] # None, post[p].at = "found", Move(p, label),
         UNCHANGED <<record, request, sentTo, pending, status, landed, over>>,
         trouble' \in 0..MaxTrouble, trouble' = 0 => trouble = 0,
         label = "valid" => /\ post[p].inResponseTo = post[p].relayState
                            /\ status[post[p].relayState] = "Success",
         /\ label = "refused" /\ post[p].inResponseTo = post[p].relayState
         /\ status[post[p].relayState] = "Success"
         => trouble' # 0
  PROVE  LogoutInv'
<1>1. post[p] \in Response
  BY DEF LogoutInv, LogoutTypeOK
<1>2. /\ post'[p] = [post[p] EXCEPT !.at = label] /\ post' \in [Post -> Response \cup {None}]
      /\ \A q \in Post : q # p => post'[q] = post[q]
  BY <1>1 DEF Move, LogoutInv, LogoutTypeOK, Response
<1>3. /\ post'[p].relayState = post[p].relayState /\ post'[p].late = post[p].late
      /\ post'[p].inResponseTo = post[p].inResponseTo /\ post'[p].at = label
  BY <1>1, <1>2 DEF Response
<1>4. LogoutTypeOK'
  BY <1>2 DEF LogoutInv, LogoutTypeOK
<1>5. SentFirst' /\ OverIsGone' /\ Untroubled' /\ LoggedOut'
  BY DEF LogoutInv, SentFirst, OverIsGone, Untroubled, LoggedOutOnce, LoggedOut
<1>6. PostsFit'
  <2>. SUFFICES ASSUME NEW q \in Post, post'[q] # None
                PROVE  /\ status[post'[q].inResponseTo] # None
                       /\ post'[q].at \in {"valid", "done"} =>
                            /\ post'[q].inResponseTo = post'[q].relayState
                            /\ status[post'[q].relayState] = "Success"
    BY DEF PostsFit
  <2>1. CASE q = p
    BY <2>1, <1>3 DEF LogoutInv, PostsFit
  <2>2. CASE q # p
    BY <2>2, <1>2 DEF LogoutInv, PostsFit
  <2>. QED
    BY <2>1, <2>2
<1>7. AnsweredOnce'
  <2>. SUFFICES ASSUME NEW q \in Post, post'[q] # None, post'[q].late
                PROVE  post'[q].at = "refused"
    BY DEF AnsweredOnce
  <2>1. CASE q = p
    BY <2>1, <1>3 DEF LogoutInv, LoggedOutOnce, AnsweredOnce
  <2>2. CASE q # p
    BY <2>2, <1>2 DEF LogoutInv, LoggedOutOnce, AnsweredOnce
  <2>. QED
    BY <2>1, <2>2
<1>8. ConfirmedIsAccepted'
  <2>. SUFFICES ASSUME trouble' = 0, NEW q \in Post, NEW r \in Request,
                       post'[q] # None, post'[q].relayState = r, post'[q].inResponseTo = r,
                       status[r] = "Success", post'[q].at = "refused"
                PROVE  r \in landed
    BY DEF ConfirmedIsAccepted
  <2>1. q # p
    BY <1>3
  <2>. QED
    BY <1>2, <2>1 DEF LogoutInv, ConfirmedIsAccepted
<1>. QED
  BY <1>4, <1>5, <1>6, <1>7, <1>8 DEF LogoutInv, LoggedOutOnce

LEMMA ValidateStep ==
  ASSUME LogoutAssumption, LogoutInv, NEW p \in Post, Validate(p) PROVE LogoutInv'
<1>1. /\ post[p] # None /\ post[p].at = "found" /\ trouble' = trouble
      /\ UNCHANGED <<record, request, sentTo, pending, status, landed, over>>
  BY DEF Validate
<1>2. post[p] \in Response /\ trouble \in 0..MaxTrouble
  BY <1>1 DEF LogoutInv, LogoutTypeOK
<1>. DEFINE m == post[p].inResponseTo
            answers == status[m] = "Success" /\ m = post[p].relayState
<1>3. m \in Request
  BY <1>2 DEF Response
<1>4. CASE ~answers /\ Move(p, "refused")
  BY <1>1, <1>2, <1>4, HandlerMoves
<1>5. CASE answers /\ BySender(SenderOf[sentTo[m]]) = {} /\ Move(p, "refused")
  <2>1. sentTo[m] \in Provider
    BY <1>1, <1>3 DEF LogoutInv, LogoutTypeOK, PostsFit, SentFirst
  <2>2. trouble # 0
    <3>1. [slo |-> TRUE, current |-> TRUE] \in Record
      BY DEF Record
    <3>2. record[sentTo[m]] = None
      BY <1>5, <2>1 DEF BySender, Stored
    <3>. QED
      BY <2>1, <3>1, <3>2 DEF LogoutInv, Untroubled, LogoutAssumption
  <2>. QED
    BY <1>1, <1>2, <1>5, <2>2, HandlerMoves
<1>6. ASSUME NEW c \in BySender(SenderOf[sentTo[m]]), answers,
             Move(p, IF record[c].current THEN "valid" ELSE "refused")
      PROVE  LogoutInv'
  <2>1. record[c].current \/ trouble # 0
    BY DEF LogoutInv, Untroubled, BySender, Stored
  <2>2. CASE record[c].current
    BY <1>1, <1>2, <1>6, <2>2, HandlerMoves
  <2>3. CASE ~record[c].current
    BY <1>1, <1>2, <1>6, <2>1, <2>3, HandlerMoves
  <2>. QED
    BY <2>2, <2>3
<1>. QED
  BY <1>4, <1>5, <1>6 DEF Validate

\* A handler sends the browser on, with the session deleted or, if that
\* fails, not.
LEMMA SendOnStep ==
  ASSUME LogoutAssumption, LogoutInv, NEW p \in Post, DeleteSession(p) \/ DeleteFails(p)
  PROVE  LogoutInv'
<1>. DEFINE r == post[p].relayState
<1>1. post[p] # None /\ post[p].at = "valid" /\ post[p] \in Response
  BY DEF DeleteSession, DeleteFails, LogoutInv, LogoutTypeOK
<1>2. r \in Request /\ r = post[p].inResponseTo /\ status[r] = "Success" /\ ~post[p].late
  BY <1>1 DEF Response, LogoutInv, PostsFit, LoggedOutOnce, AnsweredOnce
<1>3. /\ post'[p] = [post[p] EXCEPT !.at = "done"] /\ post' \in [Post -> Response \cup {None}]
      /\ \A q \in Post : q # p => post'[q] = post[q]
      /\ landed' = landed \cup {r}
      /\ UNCHANGED <<record, request, sentTo, status>>
  BY <1>1 DEF DeleteSession, DeleteFails, SendOn, Move, LogoutInv, LogoutTypeOK, Response
<1>4. /\ post'[p].relayState = r /\ post'[p].late = post[p].late
      /\ post'[p].inResponseTo = post[p].inResponseTo /\ post'[p].at = "done"
  BY <1>1, <1>3 DEF Response
<1>5. \/ pending' = [pending EXCEPT ![r] = FALSE] /\ over' = over \cup {r} /\ trouble' = trouble
      \/ UNCHANGED <<pending, over>> /\ trouble < MaxTrouble /\ trouble' = trouble + 1
  BY DEF DeleteSession, DeleteFails, Troubled
<1>. HIDE DEF r
<1>6. trouble' \in 0..MaxTrouble /\ (trouble' = 0 => trouble = 0)
  BY <1>5 DEF LogoutInv, LogoutTypeOK, LogoutAssumption
<1>7. LogoutTypeOK'
  BY <1>2, <1>3, <1>5, <1>6 DEF LogoutInv, LogoutTypeOK
<1>8. SentFirst' /\ OverIsGone' /\ LoggedOut'
  BY <1>2, <1>3, <1>5 DEF LogoutInv, LogoutTypeOK, SentFirst, OverIsGone, LoggedOutOnce, LoggedOut
<1>9. Untroubled'
  BY <1>2, <1>3, <1>5, <1>6 DEF LogoutInv, LogoutTypeOK, Untroubled
<1>10. PostsFit'
  <2>. SUFFICES ASSUME NEW q \in Post, post'[q] # None
                PROVE  /\ status[post'[q].inResponseTo] # None
                       /\ post'[q].at \in {"valid", "done"} =>
                            /\ post'[q].inResponseTo = post'[q].relayState
                            /\ status[post'[q].relayState] = "Success"
    BY <1>3 DEF PostsFit
  <2>1. CASE q = p
    BY <2>1, <1>1, <1>2, <1>4 DEF LogoutInv, PostsFit
  <2>2. CASE q # p
    BY <2>2, <1>3 DEF LogoutInv, PostsFit
  <2>. QED
    BY <2>1, <2>2
<1>11. AnsweredOnce'
  <2>. SUFFICES ASSUME NEW q \in Post, post'[q] # None, post'[q].late
                PROVE  post'[q].at = "refused"
    BY DEF AnsweredOnce
  <2>1. CASE q = p
    BY <2>1, <1>1, <1>2, <1>4 DEF LogoutInv, LoggedOutOnce, AnsweredOnce
  <2>2. CASE q # p
    BY <2>2, <1>3 DEF LogoutInv, LoggedOutOnce, AnsweredOnce
  <2>. QED
    BY <2>1, <2>2
<1>12. ConfirmedIsAccepted'
  BY <1>3, <1>4, <1>6 DEF LogoutInv, ConfirmedIsAccepted
<1>. QED
  BY <1>7, <1>8, <1>9, <1>10, <1>11, <1>12 DEF LogoutInv, LoggedOutOnce

LEMMA HandlerFailsStep ==
  ASSUME LogoutAssumption, LogoutInv, NEW p \in Post, HandlerFails(p) PROVE LogoutInv'
<1>1. /\ trouble \in Nat /\ trouble' \in 0..MaxTrouble /\ trouble' # 0
      /\ post[p] # None /\ post[p].at = "found" /\ Move(p, "refused")
      /\ UNCHANGED <<record, request, sentTo, pending, status, landed, over>>
  BY DEF HandlerFails, Troubled, LogoutInv, LogoutTypeOK, LogoutAssumption
<1>. QED
  BY <1>1, HandlerMoves

\* Sessions run out and connections change.
LEMMA ChangeStep ==
  ASSUME LogoutAssumption, LogoutInv,
         \/ \E r \in Request : SessionExpires(r)
         \/ \E c \in Provider : ProviderChanges(c)
  PROVE  LogoutInv'
<1>1. /\ trouble' \in 0..MaxTrouble /\ trouble' # 0
      /\ UNCHANGED <<request, sentTo, status, post, landed, over>>
  BY DEF SessionExpires, ProviderChanges, Troubled, LogoutInv, LogoutTypeOK, LogoutAssumption
<1>2. /\ record' \in [Provider -> Record \cup {None}] /\ pending' \in [Request -> BOOLEAN]
      /\ \A r \in Request : pending'[r] => pending[r]
  BY DEF SessionExpires, ProviderChanges, LogoutInv, LogoutTypeOK
<1>3. LogoutTypeOK'
  BY <1>1, <1>2 DEF LogoutInv, LogoutTypeOK
<1>4. SentFirst' /\ PostsFit' /\ OverIsGone'
  BY <1>1, <1>2 DEF LogoutInv, LogoutTypeOK, SentFirst, PostsFit, OverIsGone
<1>5. Untroubled' /\ LoggedOutOnce' /\ ConfirmedIsAccepted'
  BY <1>1 DEF LogoutInv, Untroubled, LoggedOutOnce, LoggedOut, AnsweredOnce, ConfirmedIsAccepted
<1>. QED
  BY <1>3, <1>4, <1>5 DEF LogoutInv

LEMMA LogoutInvStep == LogoutAssumption /\ LogoutInv /\ [LogoutNext]_logoutVars => LogoutInv'
<1>. SUFFICES ASSUME LogoutAssumption, LogoutInv, [LogoutNext]_logoutVars
              PROVE  LogoutInv'
  OBVIOUS
<1>1. CASE UNCHANGED logoutVars
  BY <1>1 DEF logoutVars, LogoutInv, LogoutTypeOK, SentFirst, PostsFit, OverIsGone,
              Untroubled, LoggedOutOnce, LoggedOut, AnsweredOnce, ConfirmedIsAccepted
<1>. QED
  BY <1>1, RequestStep, ConcludeStep, GetSessionStep, ValidateStep, SendOnStep,
     HandlerFailsStep, ChangeStep DEF LogoutNext, ResponseStep

LEMMA LogoutInvariant == ASSUME LogoutAssumption PROVE LogoutSpec => []LogoutInv
BY LogoutInitInv, LogoutInvStep, PTL DEF LogoutSpec

(***************************************************************************)
(* Every reachable state of single logout is well typed.                   *)
(***************************************************************************)
THEOREM LogoutTyped == ASSUME LogoutAssumption PROVE LogoutSpec => []LogoutTypeOK
BY LogoutInvariant, PTL DEF LogoutInv

(***************************************************************************)
(* Whatever answers come, however often and with whatever relay state: a   *)
(* browser is sent on only when the provider confirmed its own logout, and *)
(* once the session is deleted every further answer is refused.            *)
(***************************************************************************)
THEOREM SentOnOnce == ASSUME LogoutAssumption PROVE LogoutSpec => []LoggedOutOnce
BY LogoutInvariant, PTL DEF LogoutInv

(***************************************************************************)
(* While nothing fails, expires or is changed, what the provider confirms  *)
(* is refused only after it has been accepted.                             *)
(***************************************************************************)
THEOREM ConfirmedAccepted == ASSUME LogoutAssumption PROVE LogoutSpec => []ConfirmedIsAccepted
BY LogoutInvariant, PTL DEF LogoutInv

-----------------------------------------------------------------------------
(***************************************************************************)
(* Identity federation apps, for any number of owners and EntityIDs.       *)
(***************************************************************************)

\* No call disturbs another.
AppsApart == \A p, q \in Caller :
  p # q /\ appCall[p] # None /\ appCall[q] # None => ~Disturb(appCall[p].op, appCall[q].op)

\* The index is that of the stored apps, which are found by what they have.
AppsIndexed ==
  /\ \A a \in StoredApps : IF a[2] = "saml" THEN <<app[a].entity, a>> \in entities
                                            ELSE app[a].entity = None
  /\ \A e \in entities : e[2] \in StoredApps /\ app[e[2]].entity = e[1]
  /\ \A a, b \in StoredApps :
       /\ app[a].entity = app[b].entity /\ app[a].entity # None
       /\ app[a].typed /\ app[b].typed
       => a = b

\* A SAML app comes with an EntityID, an OIDC app without; what is answered is a
\* record.
AppAsked(p) == appCall[p].op = "create" =>
  /\ IF appCall[p].app[2] = "saml" THEN appCall[p].entity \in Entity
                                   ELSE appCall[p].entity = None
  /\ appCall[p].at = "answer" => appCall[p].saved # None

\* What a call has read or settled is so while it goes on.
CreateFits(p) ==
  LET a == appCall[p].app
      e == appCall[p].entity
  IN /\ appCall[p].at \in {"entity", "put"} => app[a] = None
     /\ appCall[p].at = "put" /\ e # None /\ appCall[p].typed =>
          \A b \in StoredApps : app[b].entity # e
     /\ appCall[p].at = "answer" => app[a] # None /\ appCall[p].saved = app[a]
UpdateFits(p) ==
  appCall[p].at = "put" => app[appCall[p].app] # None /\ appCall[p].saved = app[appCall[p].app]
DeleteFits(p) == appKnown[appCall[p].app] = 0
AppCallFits(p) ==
  /\ appCall[p].op = "create" => CreateFits(p)
  /\ appCall[p].op = "update" => UpdateFits(p)
  /\ appCall[p].op = "delete" => DeleteFits(p)

SecretsKnown == \A a \in App : appKnown[a] # 0 => app[a] # None /\ app[a].secret = appKnown[a]

AppsInv ==
  /\ AppsTypeOK
  /\ \A p \in Caller : appCall[p] # None => AppAsked(p)
  /\ ~appRaced => /\ AppsApart /\ AppsIndexed /\ SecretsKnown
                  /\ \A p \in Caller : appCall[p] # None => AppCallFits(p)

-----------------------------------------------------------------------------
LEMMA AppsInitInv == AppsAssumption /\ AppsInit => AppsInv
<1> SUFFICES ASSUME AppsAssumption, AppsInit PROVE AppsInv
  OBVIOUS
<1>1. AppsTypeOK
  <2>1. /\ app \in [App -> AppRecord \cup {None}] /\ appCall \in [Caller -> AppCall \cup {None}]
        /\ entities = {} /\ appKnown \in [App -> Nat]
    BY DEF AppsInit
  <2>2. appCalls \in 0..MaxCalls /\ appSecrets \in Nat
    BY DEF AppsInit, AppsAssumption
  <2>3. appRaced \in BOOLEAN
    BY DEF AppsInit
  <2>. QED
    BY <2>1, <2>2, <2>3 DEF AppsTypeOK
<1>2. StoredApps = {} /\ \A p \in Caller : appCall[p] = None
  BY DEF AppsInit, StoredApps
<1>. QED
  BY <1>1, <1>2 DEF AppsInit, AppsInv, AppsApart, AppsIndexed, SecretsKnown

\* The next state of a call and of the others.
LEMMA AppMoves ==
  ASSUME AppsTypeOK, NEW p \in Caller, NEW c \in AppCall \cup {None}, AppMove(p, c)
  PROVE  /\ appCall' \in [Caller -> AppCall \cup {None}] /\ appCall'[p] = c
         /\ \A q \in Caller \ {p} : appCall'[q] = appCall[q]
BY DEF AppsTypeOK, AppMove

LEMMA BeginAppStep ==
  ASSUME AppsAssumption, AppsInv, NEW p \in Caller, NEW a \in App, NEW e \in Entity \cup {None},
         NEW op \in {"create", "update", "delete"}, NEW y \in BOOLEAN,
         op = "create" => IF a[2] = "saml" THEN e \in Entity ELSE e = None,
         BeginApp(p, op, a, e, y)
  PROVE  AppsInv'
<1>. DEFINE c == [op |-> op, app |-> a, entity |-> e, typed |-> y, saved |-> None,
                  at |-> IF op = "delete" THEN "put" ELSE "get"]
<1>1. c \in AppCall /\ c # None
  BY DEF AppCall, AppsAssumption
<1>. HIDE DEF c
<1>2. /\ appCall' \in [Caller -> AppCall \cup {None}] /\ appCall'[p] = c
      /\ \A q \in Caller \ {p} : appCall'[q] = appCall[q]
  BY <1>1, AppMoves DEF BeginApp, AppsInv, c
<1>3. UNCHANGED <<app, entities, appSecrets>>
  BY DEF BeginApp
<1>4. AppsTypeOK'
  BY <1>2, <1>3 DEF BeginApp, AppsInv, AppsTypeOK, AppsAssumption
<1>5. ASSUME ~appRaced' 
      PROVE  /\ ~appRaced
             /\ \A q \in Caller \ {p} : appCall[q] # None => ~Disturb(op, appCall[q].op)
  BY <1>5 DEF BeginApp
<1>6. ASSUME ~appRaced' PROVE AppsApart'
  <2>1. c.op = op
    BY DEF c
  <2>. QED
    BY <1>2, <1>5, <1>6, <2>1 DEF AppsInv, AppsApart, Disturb
<1>7. ASSUME ~appRaced' PROVE AppsIndexed'
  BY <1>3, <1>5, <1>7 DEF AppsInv, AppsIndexed, StoredApps
<1>8. ASSUME ~appRaced' PROVE SecretsKnown'
  BY <1>3, <1>5, <1>8 DEF AppsInv, SecretsKnown, BeginApp, AppsTypeOK
<1>9. ASSUME ~appRaced', NEW q \in Caller, appCall'[q] # None PROVE AppCallFits(q)'
  <2>1. CASE q = p
    BY <1>2, <1>3, <2>1 DEF c, AppCallFits, CreateFits, UpdateFits, DeleteFits, BeginApp, AppsInv,
       AppsTypeOK
  <2>2. CASE q # p
    <3>1. appCall'[q] = appCall[q] /\ AppCallFits(q)
      BY <1>2, <1>5, <1>9, <2>2 DEF AppsInv
    <3>2. appCall[q].app \in App
      BY <3>1, <1>9 DEF AppsInv, AppsTypeOK, AppCall
    <3>3. appKnown[appCall[q].app] = 0 => appKnown'[appCall[q].app] = 0
      BY <3>2 DEF BeginApp, AppsInv, AppsTypeOK
    <3>. QED
      BY <3>1, <3>3, <1>3 DEF AppCallFits, CreateFits, UpdateFits, DeleteFits, StoredApps
  <2>. QED
    BY <2>1, <2>2
<1>10. ASSUME NEW q \in Caller, appCall'[q] # None PROVE AppAsked(q)'
  BY <1>2, <1>10 DEF c, AppAsked, AppsInv
<1>. QED
  BY <1>4, <1>6, <1>7, <1>8, <1>9, <1>10 DEF AppsInv

\* A step of a call that stores nothing.
LEMMA AppReads ==
  ASSUME AppsAssumption, AppsInv, NEW p \in Caller, NEW c \in AppCall \cup {None},
         AppMove(p, c), appCall[p] # None,
         UNCHANGED <<app, entities, appCalls, appSecrets, appKnown, appRaced>>,
         c # None => c.op = appCall[p].op /\ AppAsked(p)' /\ (~appRaced => AppCallFits(p)')
  PROVE  AppsInv'
<1>1. /\ appCall' \in [Caller -> AppCall \cup {None}] /\ appCall'[p] = c
      /\ \A q \in Caller \ {p} : appCall'[q] = appCall[q]
  BY AppMoves DEF AppsInv
<1>2. AppsTypeOK'
  BY <1>1 DEF AppsInv, AppsTypeOK
<1>3. ~appRaced => AppsApart'
  BY <1>1 DEF AppsInv, AppsApart, Disturb
<1>4. ~appRaced => AppsIndexed' /\ SecretsKnown'
  BY DEF AppsInv, AppsIndexed, StoredApps, SecretsKnown
<1>5. ASSUME ~appRaced, NEW q \in Caller, appCall'[q] # None PROVE AppCallFits(q)'
  <2>1. CASE q = p
    BY <1>1, <1>5, <2>1
  <2>2. CASE q # p
    BY <1>1, <1>5, <2>2 DEF AppsInv, AppCallFits, CreateFits, UpdateFits, DeleteFits, StoredApps
  <2>. QED
    BY <2>1, <2>2
<1>6. ASSUME NEW q \in Caller, appCall'[q] # None PROVE AppAsked(q)'
  BY <1>1, <1>6 DEF AppAsked, AppsInv
<1>. QED
  BY <1>2, <1>3, <1>4, <1>5, <1>6 DEF AppsInv

\* A call that ends, or goes on with what it has.
LEMMA AppGoes ==
  ASSUME AppsAssumption, AppsInv, NEW p \in Caller, appCall[p] # None
  PROVE  /\ appCall[p] \in AppCall
         /\ \A at \in {"get", "entity", "put", "answer"} :
              [appCall[p] EXCEPT !.at = at] \in AppCall \ {None}
         /\ AppAsked(p) /\ (~appRaced => AppCallFits(p))
BY DEF AppsAssumption, AppsInv, AppsTypeOK, AppCall

LEMMA EndAppStep ==
  ASSUME AppsAssumption, AppsInv, NEW p \in Caller, appCall[p] # None, EndApp(p),
         UNCHANGED <<app, entities, appCalls, appSecrets, appKnown, appRaced>>
  PROVE  AppsInv'
BY AppReads DEF EndApp

LEMMA GetNoneStep == ASSUME AppsAssumption, AppsInv, NEW p \in Caller, GetNone(p) PROVE AppsInv'
<1>1. /\ appCall[p] # None /\ appCall[p].op = "create" /\ appCall[p].at = "get"
      /\ UNCHANGED <<app, entities, appCalls, appSecrets, appKnown, appRaced>>
  BY DEF GetNone, AppAt
<1>. DEFINE a == appCall[p].app
            to == IF a[2] = "saml" /\ appCall[p].typed THEN "entity" ELSE "put"
            c == [appCall[p] EXCEPT !.at = to]
<1>2. CASE EndApp(p)
  BY <1>1, <1>2, EndAppStep
<1>3. CASE a \notin StoredApps /\ AppMove(p, c)
  <2>1. c \in AppCall \ {None} /\ c.op = "create" /\ c.at = to /\ c.app = a
        /\ c.typed = appCall[p].typed
        /\ c.entity = appCall[p].entity /\ c.saved = appCall[p].saved
    BY <1>1, AppGoes DEF AppCall
  <2>2. app[a] = None
    BY <1>1, <1>3, AppGoes DEF StoredApps, AppCall
  <2>3. appCall'[p] = c
    BY <1>3, <2>1, AppMoves DEF AppsInv
  <2>. HIDE DEF c
  <2>4. ASSUME ~appRaced PROVE AppCallFits(p)'
    <3>1. to = "put" => appCall[p].entity = None \/ ~appCall[p].typed
      BY <1>1, AppGoes DEF AppAsked
    <3>. QED
      BY <1>1, <2>1, <2>2, <2>3, <3>1 DEF AppCallFits, CreateFits
  <2>5. AppAsked(p)'
    <3>1. c.at # "answer"
      BY <2>1
    <3>. QED
      BY <1>1, <2>1, <2>3, <3>1, AppGoes DEF AppAsked
  <2>. QED
    BY <1>1, <1>3, <2>1, <2>4, <2>5, AppReads
<1>. QED
  BY <1>2, <1>3 DEF GetNone, AppGoto

LEMMA GetByEntityIDStep ==
  ASSUME AppsAssumption, AppsInv, NEW p \in Caller, GetByEntityID(p) PROVE AppsInv'
<1>1. /\ appCall[p] # None /\ appCall[p].op = "create" /\ appCall[p].at = "entity"
      /\ UNCHANGED <<app, entities, appCalls, appSecrets, appKnown, appRaced>>
  BY DEF GetByEntityID, AppAt
<1>. DEFINE e == appCall[p].entity
            c == [appCall[p] EXCEPT !.at = "put"]
<1>2. CASE EndApp(p)
  BY <1>1, <1>2, EndAppStep
<1>3. CASE (\A a \in StoredApps : <<e, a>> \notin entities) /\ AppMove(p, c)
  <2>1. c \in AppCall \ {None} /\ c.op = "create" /\ c.at = "put" /\ c.app = appCall[p].app
        /\ c.entity = e /\ c.saved = appCall[p].saved
    BY <1>1, AppGoes DEF AppCall
  <2>2. appCall'[p] = c
    BY <1>3, <2>1, AppMoves DEF AppsInv
  <2>3. ASSUME ~appRaced PROVE AppCallFits(p)'
    <3>. HIDE DEF c
    <3>1. CreateFits(p)
      BY <1>1, <2>3, AppGoes DEF AppCallFits
    <3>2. ASSUME NEW b \in StoredApps, e # None PROVE app[b].entity # e
      <4>1. <<app[b].entity, b>> \in entities \/ app[b].entity = None
        BY <2>3 DEF AppsInv, AppsIndexed
      <4>. QED
        BY <1>3, <3>2, <4>1
    <3>. QED
      BY <1>1, <2>1, <2>2, <3>1, <3>2 DEF AppCallFits, CreateFits, StoredApps
  <2>4. AppAsked(p)'
    BY <1>1, <2>1, <2>2, AppGoes DEF AppAsked
  <2>. QED
    BY <1>1, <1>3, <2>1, <2>3, <2>4, AppReads
<1>. QED
  BY <1>2, <1>3 DEF GetByEntityID, AppGoto

LEMMA GetSavedStep == ASSUME AppsAssumption, AppsInv, NEW p \in Caller, GetSaved(p) PROVE AppsInv'
<1>1. /\ appCall[p] # None /\ appCall[p].op = "update" /\ appCall[p].at = "get"
      /\ UNCHANGED <<app, entities, appCalls, appSecrets, appKnown, appRaced>>
  BY DEF GetSaved, AppAt
<1>. DEFINE a == appCall[p].app
            c == [appCall[p] EXCEPT !.at = "put", !.saved = app[a]]
<1>2. CASE EndApp(p)
  BY <1>1, <1>2, EndAppStep
<1>3. CASE a \in StoredApps /\ AppMove(p, c)
  <2>1. app[a] # None /\ app[a] \in AppRecord
    BY <1>3 DEF StoredApps, AppsInv, AppsTypeOK
  <2>2. c \in AppCall /\ c # None /\ c.op = "update" /\ c.app = a /\ c.saved = app[a]
    <3>1. appCall[p] \in AppCall
      BY <1>1, AppGoes
    <3>2. c \in AppCall /\ c.op = "update" /\ c.app = a /\ c.saved = app[a]
      BY <1>1, <2>1, <3>1 DEF AppCall
    <3>. QED
      BY <3>2 DEF AppsAssumption
  <2>3. appCall'[p] = c
    BY <1>3, <2>2, AppMoves DEF AppsInv
  <2>4. AppCallFits(p)'
    <3>. HIDE DEF c
    <3>. QED
      BY <1>1, <2>1, <2>2, <2>3 DEF AppCallFits, UpdateFits
  <2>5. AppAsked(p)'
    BY <2>2, <2>3 DEF AppAsked
  <2>. QED
    BY <1>1, <1>3, <2>2, <2>4, <2>5, AppReads
<1>. QED
  BY <1>2, <1>3 DEF GetSaved

\* A new app takes an EntityID that no other has, if its type was given; its
\* owner has none of its type.
LEMMA PutAppStep == ASSUME AppsAssumption, AppsInv, NEW p \in Caller, PutApp(p) PROVE AppsInv'
<1>. DEFINE a == appCall[p].app
            e == appCall[p].entity
            oidc == a[2] = "oidc"
            r == [entity |-> e, typed |-> appCall[p].typed, secret |-> IF oidc THEN appSecrets' ELSE 0]
            c == [appCall[p] EXCEPT !.at = "answer", !.saved = r]
<1>1. /\ appCall[p] # None /\ appCall[p].op = "create" /\ appCall[p].at = "put"
      /\ appSecrets' = IF oidc THEN appSecrets + 1 ELSE appSecrets
      /\ app' = [app EXCEPT ![a] = r]
      /\ entities' = IF oidc THEN entities ELSE entities \cup {<<e, a>>}
      /\ UNCHANGED <<appCalls, appKnown, appRaced>>
  BY DEF PutApp, AppAt
<1>2. /\ appCall[p] \in AppCall /\ a \in App /\ e \in Entity \cup {None}
      /\ appCall[p].typed \in BOOLEAN
  BY <1>1, AppGoes DEF AppCall
<1>3. app \in [App -> AppRecord \cup {None}] /\ appSecrets \in Nat
  BY DEF AppsInv, AppsTypeOK
<1>4. appSecrets' \in Nat /\ r \in AppRecord /\ r # None
  BY <1>1, <1>2, <1>3 DEF AppRecord, AppsAssumption
<1>5. app' \in [App -> AppRecord \cup {None}] /\ app'[a] = r
      /\ \A b \in App \ {a} : app'[b] = app[b]
  BY <1>1, <1>2, <1>3, <1>4
<1>6. AppMove(p, c)
  BY <1>5 DEF PutApp
<1>7. c \in AppCall /\ c.op = "create" /\ c.app = a /\ c.entity = e /\ c.saved = r /\ c.at = "answer"
  BY <1>1, <1>2, <1>4 DEF AppCall
<1>8. /\ appCall' \in [Caller -> AppCall \cup {None}] /\ appCall'[p] = c /\ c # None
      /\ \A q \in Caller \ {p} : appCall'[q] = appCall[q]
  BY <1>6, <1>7, AppMoves DEF AppsInv, AppsAssumption
<1>. HIDE DEF a, e, r, c
<1>9. StoredApps' = StoredApps \cup {a}
  BY <1>2, <1>4, <1>5 DEF StoredApps
<1>10. ASSUME ~appRaced
       PROVE  /\ a \notin StoredApps
              /\ e # None /\ appCall[p].typed => \A b \in StoredApps : app[b].entity # e
              /\ AppsApart /\ AppsIndexed /\ SecretsKnown
  BY <1>1, <1>2, <1>10, AppGoes DEF a, e, AppsInv, AppCallFits, CreateFits, StoredApps
<1>11. a[2] \in {"saml", "oidc"} /\ (IF a[2] = "saml" THEN e \in Entity ELSE e = None)
  BY <1>1, <1>2, AppGoes DEF App, AppAsked, a, e
<1>12. ASSUME ~appRaced PROVE AppsIndexed'
  <2>1. \A b \in StoredApps' : IF b[2] = "saml" THEN <<app'[b].entity, b>> \in entities'
                                               ELSE app'[b].entity = None
    BY <1>1, <1>5, <1>9, <1>10, <1>11, <1>12 DEF AppsIndexed, StoredApps, r
  <2>2. \A x \in entities' : x[2] \in StoredApps' /\ app'[x[2]].entity = x[1]
    <3> SUFFICES ASSUME NEW x \in entities' PROVE x[2] \in StoredApps' /\ app'[x[2]].entity = x[1]
      OBVIOUS
    <3>1. CASE x \in entities
      <4>1. x[2] \in StoredApps /\ app[x[2]].entity = x[1]
        BY <1>10, <1>12, <3>1 DEF AppsIndexed
      <4>. QED
        BY <4>1, <1>5, <1>9, <1>10, <1>12 DEF StoredApps
    <3>2. CASE x = <<e, a>>
      BY <3>2, <1>5, <1>9 DEF r
    <3>. QED
      BY <1>1, <3>1, <3>2
  <2>3. \A b, d \in StoredApps' :
          /\ app'[b].entity = app'[d].entity /\ app'[b].entity # None
          /\ app'[b].typed /\ app'[d].typed
          => b = d
    BY <1>5, <1>9, <1>10, <1>12 DEF AppsIndexed, StoredApps, r
  <2>. QED
    BY <2>1, <2>2, <2>3 DEF AppsIndexed
<1>13. AppsTypeOK'
  <2>1. entities' \subseteq Entity \X App
    <3>1. CASE a[2] = "oidc"
      BY <3>1, <1>1 DEF a, AppsInv, AppsTypeOK
    <3>2. CASE a[2] = "saml"
      <4>1. entities' = entities \cup {<<e, a>>} /\ e \in Entity /\ entities \subseteq Entity \X App
        BY <3>2, <1>1, <1>11 DEF AppsInv, AppsTypeOK
      <4>. QED
        BY <4>1, <1>2
    <3>. QED
      BY <3>1, <3>2, <1>11
  <2>2. \A x \in entities' : app'[x[2]] = None => appRaced'
    BY <1>1, <1>12 DEF AppsIndexed, StoredApps, AppsInv, AppsTypeOK
  <2>. QED
    BY <1>1, <1>4, <1>5, <1>8, <2>1, <2>2 DEF AppsInv, AppsTypeOK
<1>14. ~appRaced => AppsApart'
  BY <1>1, <1>7, <1>8, <1>10 DEF AppsApart, Disturb
<1>15. ASSUME ~appRaced PROVE SecretsKnown'
  BY <1>1, <1>5, <1>10, <1>15 DEF SecretsKnown, StoredApps
<1>16. ASSUME ~appRaced, NEW q \in Caller, appCall'[q] # None PROVE AppCallFits(q)'
  <2>1. CASE q = p
    BY <1>1, <1>4, <1>5, <1>7, <1>8, <1>10, <1>16, <2>1 DEF AppCallFits, CreateFits
  <2>2. CASE q # p
    <3>1. appCall'[q] = appCall[q] /\ appCall[q] # None /\ AppCallFits(q)
      BY <1>8, <1>16, <2>2 DEF AppsInv
    <3>2. appCall[q].op = "update"
      <4>1. appCall[q].op \in {"create", "update", "delete"}
        BY <3>1, AppGoes DEF AppCall
      <4>2. ~Disturb(appCall[p].op, appCall[q].op)
        BY <3>1, <1>1, <1>10, <1>16, <2>2 DEF AppsApart
      <4>. QED
        BY <4>1, <4>2, <1>1 DEF Disturb
    <3>3. appCall[q].app \in App
      BY <3>1, AppGoes DEF AppCall
    <3>. QED
      BY <3>1, <3>2, <3>3, <1>5, <1>10, <1>16 DEF AppCallFits, UpdateFits, StoredApps
  <2>. QED
    BY <2>1, <2>2
<1>17. ASSUME NEW q \in Caller, appCall'[q] # None PROVE AppAsked(q)'
  <2>1. CASE q = p
    BY <1>4, <1>7, <1>8, <1>11, <2>1 DEF AppAsked
  <2>2. CASE q # p
    BY <1>8, <1>17, <2>2 DEF AppAsked, AppsInv
  <2>. QED
    BY <2>1, <2>2
<1>. QED
  BY <1>1, <1>12, <1>13, <1>14, <1>15, <1>16, <1>17 DEF AppsInv

\* An update puts back what is there.
LEMMA PutSavedAppStep ==
  ASSUME AppsAssumption, AppsInv, NEW p \in Caller, PutSavedApp(p) PROVE AppsInv'
<1>. DEFINE a == appCall[p].app
            c == [appCall[p] EXCEPT !.at = "answer"]
<1>1. /\ appCall[p] # None /\ appCall[p].op = "update" /\ appCall[p].at = "put"
      /\ app' = [app EXCEPT ![a] = appCall[p].saved] /\ AppMove(p, c)
      /\ UNCHANGED <<entities, appCalls, appSecrets, appKnown, appRaced>>
  BY DEF PutSavedApp, AppAt, AppGoto
<1>2. /\ appCall[p] \in AppCall /\ a \in App /\ appCall[p].saved \in AppRecord \cup {None}
      /\ c \in AppCall /\ c # None /\ c.op = "update" /\ c.at = "answer"
  BY <1>1, AppGoes DEF AppCall
<1>3. app \in [App -> AppRecord \cup {None}]
  BY DEF AppsInv, AppsTypeOK
<1>4. ~appRaced => app' = app
  BY <1>1, <1>2, <1>3, AppGoes DEF AppCallFits, UpdateFits
<1>5. /\ appCall' \in [Caller -> AppCall \cup {None}] /\ appCall'[p] = c
      /\ \A q \in Caller \ {p} : appCall'[q] = appCall[q]
  BY <1>1, <1>2, AppMoves DEF AppsInv
<1>. HIDE DEF c
<1>6. AppsTypeOK'
  <2>1. app' \in [App -> AppRecord \cup {None}]
    BY <1>1, <1>2, <1>3
  <2>2. \A x \in entities' : app'[x[2]] = None => appRaced'
    BY <1>1, <1>4 DEF AppsInv, AppsTypeOK
  <2>. QED
    BY <1>1, <1>5, <2>1, <2>2 DEF AppsInv, AppsTypeOK
<1>7. ~appRaced => AppsApart' /\ AppsIndexed' /\ SecretsKnown'
  BY <1>1, <1>2, <1>4, <1>5 DEF AppsInv, AppsApart, AppsIndexed, SecretsKnown, StoredApps
<1>8. ASSUME NEW q \in Caller, appCall'[q] # None PROVE AppAsked(q)'
  BY <1>1, <1>2, <1>5, <1>8 DEF AppAsked, AppsInv
<1>9. ASSUME ~appRaced, NEW q \in Caller, appCall'[q] # None PROVE AppCallFits(q)'
  <2>1. CASE q = p
    BY <1>2, <1>5, <2>1 DEF AppCallFits, UpdateFits
  <2>2. CASE q # p
    BY <1>1, <1>4, <1>5, <1>9, <2>2
    DEF AppsInv, AppCallFits, CreateFits, UpdateFits, DeleteFits, StoredApps
  <2>. QED
    BY <2>1, <2>2
<1>. QED
  BY <1>1, <1>6, <1>7, <1>8, <1>9 DEF AppsInv

\* A deletion has nobody beside it.
LEMMA DeleteAppStep == ASSUME AppsAssumption, AppsInv, NEW p \in Caller, DeleteApp(p) PROVE AppsInv'
<1>. DEFINE a == appCall[p].app
            c == [appCall[p] EXCEPT !.at = "answer"]
<1>1. /\ appCall[p] # None /\ appCall[p].op = "delete"
      /\ app' = [app EXCEPT ![a] = None] /\ AppMove(p, c)
      /\ entities' = {e \in entities : e[2] # a}
      /\ UNCHANGED <<appCalls, appSecrets, appKnown, appRaced>>
  BY DEF DeleteApp, AppAt, AppGoto
<1>2. /\ appCall[p] \in AppCall /\ a \in App
      /\ c \in AppCall /\ c # None /\ c.op = "delete" /\ c.app = a
  BY <1>1, AppGoes DEF AppCall
<1>3. app \in [App -> AppRecord \cup {None}] /\ entities \subseteq Entity \X App
  BY DEF AppsInv, AppsTypeOK
<1>4. /\ app' \in [App -> AppRecord \cup {None}] /\ app'[a] = None
      /\ \A b \in App \ {a} : app'[b] = app[b]
  BY <1>1, <1>2, <1>3
<1>5. /\ appCall' \in [Caller -> AppCall \cup {None}] /\ appCall'[p] = c
      /\ \A q \in Caller \ {p} : appCall'[q] = appCall[q]
  BY <1>1, <1>2, AppMoves DEF AppsInv
<1>. HIDE DEF c, a
<1>6. AppsTypeOK'
  <2>1. \A x \in entities' : app'[x[2]] = None => appRaced'
    BY <1>1, <1>3, <1>4 DEF AppsInv, AppsTypeOK
  <2>. QED
    BY <1>1, <1>3, <1>4, <1>5, <2>1 DEF AppsInv, AppsTypeOK
<1>7. ASSUME ~appRaced PROVE AppsApart' /\ \A q \in Caller \ {p} : appCall[q] = None
  BY <1>1, <1>2, <1>5, <1>7 DEF AppsInv, AppsApart, Disturb
<1>8. ASSUME ~appRaced PROVE AppsIndexed'
  <2>1. StoredApps' = StoredApps \ {a}
    BY <1>2, <1>4 DEF StoredApps
  <2>. QED
    BY <1>1, <1>4, <1>8, <2>1 DEF AppsInv, AppsIndexed, StoredApps
<1>9. ASSUME ~appRaced PROVE SecretsKnown' /\ AppCallFits(p)'
  <2>1. appKnown[a] = 0
    BY <1>1, <1>9, AppGoes DEF AppCallFits, DeleteFits, a
  <2>. QED
    BY <1>1, <1>2, <1>4, <1>5, <1>9, <2>1 DEF AppsInv, SecretsKnown, AppCallFits, DeleteFits
<1>10. ASSUME NEW q \in Caller, appCall'[q] # None PROVE AppAsked(q)'
  BY <1>1, <1>2, <1>5, <1>10 DEF AppAsked, AppsInv
<1>. QED
  BY <1>1, <1>5, <1>6, <1>7, <1>8, <1>9, <1>10 DEF AppsInv

\* The secret answered is the one stored.
LEMMA AnswerAppStep == ASSUME AppsAssumption, AppsInv, NEW p \in Caller, AnswerApp(p) PROVE AppsInv'
<1>. DEFINE a == appCall[p].app
<1>1. /\ appCall[p] # None /\ appCall[p].at = "answer" /\ AppMove(p, None)
      /\ appKnown' = IF appCall[p].op = "create"
                     THEN [appKnown EXCEPT ![a] = appCall[p].saved.secret] ELSE appKnown
      /\ UNCHANGED <<app, entities, appCalls, appSecrets, appRaced>>
  BY DEF AnswerApp, EndApp
<1>2. appCall[p] \in AppCall /\ a \in App /\ AppAsked(p)
  BY <1>1, AppGoes DEF AppCall
<1>3. /\ appCall' \in [Caller -> AppCall \cup {None}] /\ appCall'[p] = None
      /\ \A q \in Caller \ {p} : appCall'[q] = appCall[q]
  BY <1>1, AppMoves DEF AppsInv
<1>4. /\ appKnown' \in [App -> Nat] /\ \A b \in App \ {a} : appKnown'[b] = appKnown[b]
      /\ appCall[p].op = "create" => appKnown'[a] = appCall[p].saved.secret
      /\ appCall[p].op # "create" => appKnown' = appKnown
  <2>1. appCall[p].op = "create" => appCall[p].saved.secret \in Nat
    BY <1>1, <1>2 DEF AppAsked, AppCall, AppRecord
  <2>2. appKnown \in [App -> Nat]
    BY DEF AppsInv, AppsTypeOK
  <2>. QED
    BY <1>1, <1>2, <2>1, <2>2
<1>. HIDE DEF a
<1>5. AppsTypeOK'
  BY <1>1, <1>3, <1>4 DEF AppsInv, AppsTypeOK
<1>6. ~appRaced => AppsApart' /\ AppsIndexed'
  BY <1>1, <1>3 DEF AppsInv, AppsApart, AppsIndexed, StoredApps
<1>7. ASSUME ~appRaced PROVE SecretsKnown'
  <2>1. appCall[p].op = "create" => app[a] # None /\ app[a].secret = appCall[p].saved.secret
    BY <1>1, <1>7, AppGoes DEF AppCallFits, CreateFits, a
  <2>. QED
    BY <1>1, <1>4, <1>7, <2>1 DEF AppsInv, SecretsKnown
<1>8. ASSUME NEW q \in Caller, appCall'[q] # None PROVE AppAsked(q)'
  BY <1>3, <1>8 DEF AppAsked, AppsInv
<1>9. ASSUME ~appRaced, NEW q \in Caller, appCall'[q] # None PROVE AppCallFits(q)'
  <2>1. q # p /\ appCall'[q] = appCall[q] /\ appCall[q] # None /\ AppCallFits(q)
    BY <1>3, <1>9 DEF AppsInv
  <2>2. CreateFits(q) => CreateFits(q)'
    BY <1>1, <2>1 DEF CreateFits, StoredApps
  <2>3. UpdateFits(q) => UpdateFits(q)'
    BY <1>1, <2>1 DEF UpdateFits
  <2>4. ASSUME appCall[q].op = "delete" PROVE DeleteFits(q)'
    <3>1. appCall[p].op # "create"
      BY <1>1, <1>9, <2>1, <2>4 DEF AppsInv, AppsApart, Disturb
    <3>. QED
      BY <1>4, <2>1, <2>4, <3>1 DEF AppCallFits, DeleteFits
  <2>. QED
    BY <2>1, <2>2, <2>3, <2>4 DEF AppCallFits
<1>. QED
  BY <1>1, <1>5, <1>6, <1>7, <1>8, <1>9 DEF AppsInv

LEMMA FailAppStep == ASSUME AppsAssumption, AppsInv, NEW p \in Caller, FailApp(p) PROVE AppsInv'
BY EndAppStep DEF FailApp

LEMMA AppsNextStep == ASSUME AppsAssumption, AppsInv, AppsNext PROVE AppsInv'
<1>1. PICK p \in Caller :
        \/ \E a \in App, entity \in Entity, typed \in BOOLEAN :
             a[2] = "saml" /\ BeginApp(p, "create", a, entity, typed)
        \/ \E a \in App : \/ a[2] = "oidc" /\ BeginApp(p, "create", a, None, TRUE)
                          \/ BeginApp(p, "update", a, None, TRUE)
                          \/ BeginApp(p, "delete", a, None, TRUE)
        \/ GetNone(p) \/ GetByEntityID(p) \/ PutApp(p) \/ GetSaved(p) \/ PutSavedApp(p)
        \/ DeleteApp(p) \/ AnswerApp(p) \/ FailApp(p)
  BY DEF AppsNext
<1>2. ASSUME NEW a \in App, NEW e \in Entity, NEW y \in BOOLEAN, a[2] = "saml",
             BeginApp(p, "create", a, e, y)
      PROVE  AppsInv'
  BY <1>2, BeginAppStep
<1>3. ASSUME NEW a \in App, a[2] = "oidc", BeginApp(p, "create", a, None, TRUE)
      PROVE  AppsInv'
  BY <1>3, BeginAppStep
<1>4. ASSUME NEW a \in App,
             BeginApp(p, "update", a, None, TRUE) \/ BeginApp(p, "delete", a, None, TRUE)
      PROVE  AppsInv'
  BY <1>4, BeginAppStep
<1>. QED
  BY <1>1, <1>2, <1>3, <1>4, GetNoneStep, GetByEntityIDStep, PutAppStep, GetSavedStep,
     PutSavedAppStep, DeleteAppStep, AnswerAppStep, FailAppStep

LEMMA AppsInvariant == ASSUME AppsAssumption PROVE AppsSpec => []AppsInv
<1>1. AppsInv /\ UNCHANGED appsVars => AppsInv'
  BY DEF AppsInv, appsVars, AppsTypeOK, AppAsked, AppsApart, AppsIndexed, SecretsKnown,
         AppCallFits, CreateFits, UpdateFits, DeleteFits, StoredApps
<1>2. AppsInv /\ [AppsNext]_appsVars => AppsInv'
  BY <1>1, AppsNextStep
<1>. QED
  BY <1>2, AppsInitInv, PTL DEF AppsSpec

(***************************************************************************)
(* Every reachable state is well typed, and until calls race no index      *)
(* entry is of an app that is not stored (app.ts:265-309, 685-698).        *)
(***************************************************************************)
THEOREM AppsTyped == ASSUME AppsAssumption PROVE AppsSpec => []AppsTypeOK
BY AppsInvariant, PTL DEF AppsInv

(***************************************************************************)
(* Each federation app is found by its EntityID, no two apps that were     *)
(* created with their type share one, and a client secret that was         *)
(* answered stays valid until the app's deletion is asked for, unless a    *)
(* creation met another one or a deletion met any call (app.ts:202-312,    *)
(* 549-630, 685-698).                                                      *)
(***************************************************************************)
THEOREM AppsStay == ASSUME AppsAssumption PROVE AppsSpec => []AppsAreKept
<1>1. ASSUME AppsInv, ~appRaced, NEW a \in StoredApps, app[a].entity # None,
             NEW found, found = {b \in App : <<app[a].entity, b>> \in entities}
      PROVE  /\ a \in found
             /\ \A b \in found : b \in StoredApps /\ app[b].entity = app[a].entity
             /\ \A b \in found \ {a} : ~(app[a].typed /\ app[b].typed)
  <2>1. a \in App /\ <<app[a].entity, a>> \in entities
    BY <1>1 DEF AppsInv, AppsIndexed, StoredApps
  <2>2. ASSUME NEW b \in found PROVE b \in StoredApps /\ app[b].entity = app[a].entity
    BY <1>1, <2>2 DEF AppsInv, AppsIndexed
  <2>3. ASSUME NEW b \in found \ {a} PROVE ~(app[a].typed /\ app[b].typed)
    BY <1>1, <2>2, <2>3 DEF AppsInv, AppsIndexed
  <2>. QED
    BY <1>1, <2>1, <2>2, <2>3
<1>2. AppsInv => EntityFindsApp
  BY <1>1 DEF EntityFindsApp
<1>3. AppsInv => ClientSecretKept
  BY DEF AppsInv, SecretsKnown, ClientSecretKept, StoredApps
<1>. QED
  BY <1>2, <1>3, AppsInvariant, PTL DEF AppsAreKept

-----------------------------------------------------------------------------
(***************************************************************************)
(* Side by side, whatever part a behaviour is of, every part keeps its     *)
(* types, and with them what its indexes always satisfy                    *)
(* (setup-link.ts:244-287, saml.ts:61-206, oauth.ts:519-570).              *)
(***************************************************************************)
THEOREM PartsTyped ==
  ASSUME LinkAssumption, LogoutAssumption, ConnectionsAssumption, AppsAssumption
  PROVE  PartSpec => []PartTypeOK
<1>1. PartInit => Init /\ LinkInit /\ LogoutInit /\ ConnsInit /\ AppsInit
  BY DEF PartInit
<1>2. [PartNext]_partsVars =>
        /\ [Next]_vars /\ [LinkNext]_linkVars /\ [LogoutNext]_logoutVars
        /\ [ConnsNext]_connsVars /\ [AppsNext]_appsVars
  BY DEF PartNext, partsVars
<1>3. PartSpec => Spec /\ LinkSpec /\ LogoutSpec /\ ConnsSpec /\ AppsSpec
  BY <1>1, <1>2, PTL DEF PartSpec, Spec, LinkSpec, LogoutSpec, ConnsSpec, AppsSpec
<1>. QED
  BY <1>3, TypeCorrect, LinksTyped, LogoutTyped, ConnsTyped, AppsTyped, PTL DEF PartTypeOK
=============================================================================
