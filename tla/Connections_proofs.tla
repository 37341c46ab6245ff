-------------------------- MODULE Connections_proofs --------------------------
(***************************************************************************)
(* What the API of SSO connections guarantees for any number of callers,   *)
(* tenants, IdPs and calls: each call takes several requests, and any      *)
(* other may run between two of them.                                      *)
(***************************************************************************)
EXTENDS Connections, FiniteSetTheorems, TLAPS

\* What a call looks like, whoever else is under way.
ConnAsked(p) ==
  LET c == connCall[p]
  IN /\ c.op # "deleteAll" => \E i \in Idp : c.on = {i}
     /\ c.op \in Deletes => c.at \in {"read", "delete", "notify"} /\ c.event = "gone"
     /\ c.op \in Deletes /\ c.at = "read" => c.left = c.on
     /\ c.op \in {"create", "update"} => c.now = c.on /\ c.at # "delete"
     /\ c.op = "update" => c.at \in {"read", "put", "notify"}
     /\ c.at = "put" /\ c.op = "update" => c.saved # None
     /\ c.at = "notify" /\ c.op = "create" => c.saved # None
     /\ c.left \subseteq c.on /\ c.now \subseteq c.on

\* What it has read of a connection is so while it goes on, and what it has
\* written, unless another call may have disturbed it.
CreateKeeps(p, c) ==
  /\ c \notin gone
  /\ connCall[p].at \in {"read", "put"} /\ c[2] \in Saml =>
       \A d \in StoredConns : d[2] = c[2] => d = c
  /\ connCall[p].at = "put" =>
       /\ connCall[p].saved = None <=> stored[c] = None
       /\ stored[c] # None => stored[c].secret = connCall[p].saved.secret
  /\ connCall[p].at = "notify" => stored[c] # None /\ stored[c].secret = connCall[p].saved.secret
UpdateKeeps(p, c) == connCall[p].at = "put" =>
  /\ stored[c] # None /\ stored[c].secret = connCall[p].saved.secret
  /\ c[2] \notin crossed => stored[c] = connCall[p].saved
DeleteKeeps(p, c) ==
  /\ known[c] = 0
  /\ connCall[p].at # "read" /\ c[2] \notin connCall[p].left => stored[c] = None
ConnFits(p) == \A c \in Targets(connCall[p]) : c[2] \notin raced =>
  /\ connCall[p].op = "create" => CreateKeeps(p, c)
  /\ connCall[p].op = "update" => UpdateKeeps(p, c)
  /\ connCall[p].op \in Deletes => DeleteKeeps(p, c)

\* Which calls have met is on record.
Meets(p, q) == connCall[p] # None /\ connCall[q] # None /\ p # q
MeetingsNoted == \A p, q \in Caller : Meets(p, q) =>
  /\ connCall[p].on \cap connCall[q].on \subseteq crossed
  /\ CanRace(connCall[p].op, connCall[q].op) => connCall[p].on \cap connCall[q].on \subseteq raced
  /\ connCall[p].op = "create" /\ connCall[q].op = "create" => crowded

\* A secret was drawn once, for one connection.
Copy(c, s) ==
  \/ stored[c] # None /\ stored[c].secret = s
  \/ \E p \in Caller : /\ connCall[p] # None /\ c \in Targets(connCall[p])
                       /\ connCall[p].saved # None /\ connCall[p].saved.secret = s
SecretsOfOne == \A c \in Conn, s \in Nat : Copy(c, s) =>
  s <= secrets /\ \A d \in Conn : Copy(d, s) => d = c

\* A creation that has passed the limit has room.
LimitInv ==
  /\ IsFiniteSet(StoredConns)
  /\ limited /\ ~crowded /\ raced = {} =>
       /\ Cardinality(StoredConns) <= Limit
       /\ \A p \in Caller : connCall[p] # None /\ connCall[p].op = "create"
                            /\ connCall[p].at \in {"entity", "read", "put"} =>
            Cardinality(StoredConns) < Limit

\* The webhook knows a connection as it is, unless a call is about to tell it.
StateOf(c) == IF stored[c] = None THEN "gone" ELSE EventOf(stored[c])
Tells(p, c) == connCall[p] # None /\ connCall[p].at = "notify" /\ c \in Changed(p)
ToldInv == \A c \in Conn \ missed : c[2] \notin crossed =>
  /\ told[c] = StateOf(c) \/ \E p \in Caller : Tells(p, c)
  /\ \A p \in Caller : Tells(p, c) => connCall[p].event = StateOf(c)

ConnsInv ==
  /\ ConnsTypeOK
  /\ \A p \in Caller : connCall[p] # None => ConnAsked(p) /\ ConnFits(p)
  /\ MeetingsNoted /\ SecretsOfOne
  /\ SecretKept /\ DeletedIsGone /\ OneTenantUnlessRaced
  /\ LimitInv /\ ToldInv

-----------------------------------------------------------------------------
\* The types, without what the invariant says of secrets.
ConnTypes ==
  /\ limited \in BOOLEAN
  /\ stored \in [Conn -> ConnRecord \cup {None}]
  /\ connCall \in [Caller -> ConnCall \cup {None}]
  /\ connCalls \in 0..MaxCalls /\ secrets \in Nat
  /\ told \in [Conn -> State] /\ known \in [Conn -> Nat]
  /\ gone \subseteq Conn /\ missed \subseteq Conn
  /\ raced \subseteq crossed /\ crossed \subseteq Idp /\ crowded \in BOOLEAN

LEMMA TypesFollow == ConnTypes /\ SecretsOfOne => ConnsTypeOK
BY DEF ConnTypes, ConnsTypeOK, SecretsOfOne, Copy, ConnRecord

LEMMA TypesHold == ConnsInv => ConnTypes
BY DEF ConnsInv, ConnsTypeOK, ConnTypes

LEMMA ConnMoves ==
  ASSUME ConnTypes, NEW p \in Caller, NEW c \in ConnCall \cup {None}, ConnMove(p, c)
  PROVE  /\ connCall' \in [Caller -> ConnCall \cup {None}] /\ connCall'[p] = c
         /\ \A q \in Caller \ {p} : connCall'[q] = connCall[q]
BY DEF ConnTypes, ConnMove

\* A call under way.
LEMMA Calling ==
  ASSUME ConnectionsAssumption, ConnsInv, NEW p \in Caller, connCall[p] # None
  PROVE  /\ connCall[p] \in ConnCall /\ ConnAsked(p) /\ ConnFits(p)
         /\ connCall[p].op \in ConnOp /\ connCall[p].tenant \in Tenant
         /\ connCall[p].on \subseteq Idp /\ connCall[p].left \subseteq connCall[p].on
         /\ connCall[p].now \subseteq connCall[p].on /\ connCall[p].change \in {None, TRUE, FALSE}
         /\ connCall[p].saved \in ConnRecord \cup {None} /\ connCall[p].event \in State
         /\ Targets(connCall[p]) \subseteq Conn /\ Changed(p) \subseteq Targets(connCall[p])
<1>1. connCall[p] \in ConnCall /\ ConnAsked(p) /\ ConnFits(p)
  BY TypesHold DEF ConnsInv, ConnTypes
<1>2. connCall[p].now \subseteq connCall[p].on /\ connCall[p].left \subseteq connCall[p].on
  BY <1>1 DEF ConnAsked
<1>. QED
  BY <1>1, <1>2 DEF ConnCall, Targets, Changed, Conn

\* The connection that a call other than deleteAll is about.
LEMMA OnlyOne ==
  ASSUME ConnectionsAssumption, ConnsInv, NEW p \in Caller, connCall[p] # None,
         connCall[p].op # "deleteAll"
  PROVE  \E i \in Idp : LET c == <<connCall[p].tenant, i>> IN
           /\ c \in Conn /\ connCall[p].on = {i} /\ Targets(connCall[p]) = {c}
           /\ Only(p) = stored[c] /\ stored[c] \in ConnRecord \cup {None}
<1>1. PICK i \in Idp : connCall[p].on = {i}
  BY Calling DEF ConnAsked
<1>. DEFINE c == <<connCall[p].tenant, i>>
<1>2. c \in Conn
  BY Calling DEF Conn
<1>3. Targets(connCall[p]) = {c}
  BY <1>1 DEF Targets
<1>4. (CHOOSE j \in connCall[p].on : TRUE) = i
  BY <1>1
<1>5. Only(p) = stored[c]
  BY <1>4 DEF Only
<1>. QED
  BY <1>1, <1>2, <1>3, <1>5, TypesHold DEF ConnTypes

-----------------------------------------------------------------------------
\* What a step of p leaves alone: the other calls and connections, what was
\* answered for them, and of its own what others may have read.
StepOf(p) ==
  /\ connCall[p] # None
  /\ \A q \in Caller \ {p} : connCall'[q] = connCall[q]
  /\ UNCHANGED <<limited, connCalls, crossed, raced, crowded>>
  /\ \A c \in Conn \ Targets(connCall[p]) :
       /\ stored'[c] = stored[c] /\ known'[c] = known[c] /\ told'[c] = told[c]
       /\ c \in gone' <=> c \in gone
       /\ c \in missed' <=> c \in missed
  /\ missed \subseteq missed'
  /\ connCall[p].op \notin Deletes => gone' = gone
  /\ connCall[p].op # "create" => known' = known
  /\ \A c \in Conn : c[2] \notin raced =>
       /\ connCall[p].op \notin Deletes /\ stored[c] # None =>
            stored'[c] # None /\ stored'[c].secret = stored[c].secret
       /\ connCall[p].op # "create" /\ stored[c] = None => stored'[c] = None

LEMMA OthersFit ==
  ASSUME ConnectionsAssumption, ConnsInv, NEW p \in Caller, StepOf(p),
         NEW q \in Caller, q # p, connCall[q] # None
  PROVE  ConnAsked(q)' /\ ConnFits(q)'
<1>1. connCall'[q] = connCall[q] /\ UNCHANGED <<raced, crossed>> /\ connCall[p] # None
  BY DEF StepOf
<1>2. ConnAsked(q)'
  BY <1>1, Calling DEF ConnAsked
<1>3. ASSUME NEW c \in Targets(connCall[q]), c[2] \notin raced
      PROVE  /\ connCall[q].op = "create" => CreateKeeps(q, c)'
             /\ connCall[q].op = "update" => UpdateKeeps(q, c)'
             /\ connCall[q].op \in Deletes => DeleteKeeps(q, c)'
  <2>1. /\ c \in Conn /\ c[2] \in connCall[q].on
        /\ connCall[q].op = "create" => CreateKeeps(q, c)
        /\ connCall[q].op = "update" => UpdateKeeps(q, c)
        /\ connCall[q].op \in Deletes => DeleteKeeps(q, c)
    BY <1>3, Calling DEF ConnFits, Targets
  <2>2. CASE c[2] \notin connCall[p].on
    <3>1. \A d \in Conn : d[2] = c[2] => d \notin Targets(connCall[p])
      BY <2>2 DEF Targets
    <3>2. /\ stored'[c] = stored[c] /\ known'[c] = known[c] /\ (c \in gone' <=> c \in gone)
          /\ \A d \in StoredConns' : d[2] = c[2] => d \in StoredConns
      BY <2>1, <3>1 DEF StepOf, StoredConns
    <3>. QED
      BY <1>1, <2>1, <3>2 DEF CreateKeeps, UpdateKeeps, DeleteKeeps
  <2>3. CASE c[2] \in connCall[p].on
    <3>1. ~CanRace(connCall[p].op, connCall[q].op) /\ c[2] \in crossed
      BY <1>1, <1>3, <2>1, <2>3 DEF ConnsInv, MeetingsNoted, Meets
    <3>2. connCall[p].op \notin Deletes /\ connCall[q].op \notin Deletes /\ gone' = gone
      BY <3>1 DEF CanRace, StepOf
    <3>3. ASSUME connCall[q].op = "create" PROVE CreateKeeps(q, c)'
      <4>1. connCall[p].op # "create"
        BY <3>1, <3>3 DEF CanRace
      <4>2. \A d \in Conn : d[2] = c[2] => (stored[d] = None <=> stored'[d] = None)
        BY <1>3, <3>2, <4>1 DEF StepOf
      <4>3. stored[c] # None => stored'[c].secret = stored[c].secret
        BY <1>3, <2>1, <3>2 DEF StepOf
      <4>. QED
        BY <1>1, <2>1, <3>2, <3>3, <4>2, <4>3 DEF CreateKeeps, StoredConns
    <3>4. ASSUME connCall[q].op = "update" PROVE UpdateKeeps(q, c)'
      BY <1>1, <1>3, <2>1, <3>1, <3>2, <3>4 DEF UpdateKeeps, StepOf
    <3>. QED
      BY <3>2, <3>3, <3>4
  <2>. QED
    BY <2>2, <2>3
<1>4. ConnFits(q)'
  BY <1>1, <1>3 DEF ConnFits
<1>. QED
  BY <1>2, <1>4

\* What a call that goes on still is.
Follows(p) == connCall'[p] # None =>
  /\ connCall'[p].op = connCall[p].op /\ connCall'[p].on = connCall[p].on
  /\ connCall'[p].tenant = connCall[p].tenant

LEMMA MeetingsStay ==
  ASSUME ConnectionsAssumption, ConnsInv, NEW p \in Caller, StepOf(p), Follows(p)
  PROVE  MeetingsNoted'
<1> SUFFICES ASSUME NEW q \in Caller, NEW r \in Caller, Meets(q, r)'
             PROVE  LET both == connCall'[q].on \cap connCall'[r].on IN
                    /\ both \subseteq crossed'
                    /\ CanRace(connCall'[q].op, connCall'[r].op) => both \subseteq raced'
                    /\ connCall'[q].op = "create" /\ connCall'[r].op = "create" => crowded'
  BY DEF MeetingsNoted
<1>1. \A x \in Caller : connCall'[x] # None =>
        connCall[x] # None /\ connCall'[x].op = connCall[x].op /\ connCall'[x].on = connCall[x].on
  BY DEF StepOf, Follows
<1>2. /\ Meets(q, r) /\ connCall'[q].op = connCall[q].op /\ connCall'[q].on = connCall[q].on
      /\ connCall'[r].op = connCall[r].op /\ connCall'[r].on = connCall[r].on
  BY <1>1 DEF Meets
<1>. QED
  BY <1>2 DEF StepOf, ConnsInv, MeetingsNoted

\* Secrets stay apart when each that a record or a call comes to have was the
\* connection's before.
LEMMA SecretsStay ==
  ASSUME ConnectionsAssumption, ConnsInv, NEW p \in Caller, StepOf(p), secrets' = secrets,
         \A c \in Conn : stored'[c] # None => Copy(c, stored'[c].secret),
         \A c \in Conn : connCall'[p] # None /\ c \in Targets(connCall'[p])
                         /\ connCall'[p].saved # None => Copy(c, connCall'[p].saved.secret)
  PROVE  SecretsOfOne'
<1>1. ASSUME NEW c \in Conn, NEW s \in Nat, Copy(c, s)' PROVE Copy(c, s)
  <2>1. CASE stored'[c] # None /\ stored'[c].secret = s
    BY <2>1
  <2>2. ASSUME NEW q \in Caller, connCall'[q] # None, c \in Targets(connCall'[q]),
               connCall'[q].saved # None, connCall'[q].saved.secret = s
        PROVE  Copy(c, s)
    <3>1. CASE q = p
      BY <2>2, <3>1
    <3>2. CASE q # p
      BY <2>2, <3>2 DEF StepOf, Copy
    <3>. QED
      BY <3>1, <3>2
  <2>. QED
    BY <1>1, <2>1, <2>2 DEF Copy, Targets
<1>. QED
  BY <1>1 DEF ConnsInv, SecretsOfOne

\* Room is kept by a step that stores no connection.
LEMMA RoomStays ==
  ASSUME ConnectionsAssumption, ConnsInv, NEW p \in Caller, StepOf(p), Follows(p),
         IsFiniteSet(StoredConns'), raced = {} => StoredConns' \subseteq StoredConns,
         connCall'[p] # None /\ connCall[p].at \notin {"entity", "read", "put"}
           /\ connCall'[p].at \in {"entity", "read", "put"} /\ connCall[p].op = "create"
           /\ limited => Cardinality(StoredConns) < Limit
  PROVE  LimitInv'
<1>1. CASE ~(limited /\ ~crowded /\ raced = {})
  BY <1>1 DEF LimitInv, StepOf
<1>2. CASE limited /\ ~crowded /\ raced = {}
  <2>1. /\ Cardinality(StoredConns') <= Cardinality(StoredConns)
        /\ Cardinality(StoredConns') \in Nat /\ Cardinality(StoredConns) \in Nat
    BY <1>2, FS_Subset, FS_CardinalityType DEF ConnsInv, LimitInv
  <2>2. Cardinality(StoredConns') <= Limit
    BY <1>2, <2>1 DEF ConnsInv, LimitInv, ConnectionsAssumption
  <2>3. ASSUME NEW q \in Caller, connCall'[q] # None, connCall'[q].op = "create",
               connCall'[q].at \in {"entity", "read", "put"}
        PROVE  Cardinality(StoredConns) < Limit
    <3>1. CASE q = p
      BY <1>2, <2>3, <3>1 DEF ConnsInv, LimitInv, Follows, StepOf
    <3>2. CASE q # p
      BY <1>2, <2>3, <3>2 DEF ConnsInv, LimitInv, StepOf
    <3>. QED
      BY <3>1, <3>2
  <2>4. ASSUME NEW q \in Caller, connCall'[q] # None, connCall'[q].op = "create",
               connCall'[q].at \in {"entity", "read", "put"}
        PROVE  Cardinality(StoredConns') < Limit
    BY <2>1, <2>3, <2>4 DEF ConnectionsAssumption
  <2>. QED
    BY <2>2, <2>4 DEF LimitInv
<1>. QED
  BY <1>1, <1>2

\* Of a connection that no other call concerns, no other call tells the webhook.
LEMMA NoneElseTells ==
  ASSUME ConnectionsAssumption, ConnsInv, NEW p \in Caller, connCall[p] # None,
         NEW c \in Targets(connCall[p]), c[2] \notin crossed
  PROVE  /\ \A q \in Caller \ {p} : ~Tells(q, c)
         /\ c \notin missed /\ ~Tells(p, c) => told[c] = StateOf(c)
         /\ c \notin missed /\ Tells(p, c) => connCall[p].event = StateOf(c)
<1>1. ASSUME NEW q \in Caller \ {p}, Tells(q, c) PROVE FALSE
  <2>1. connCall[q] # None /\ c \in Targets(connCall[q])
    BY <1>1, Calling DEF Tells
  <2>2. Meets(p, q) /\ c[2] \in connCall[p].on \cap connCall[q].on
    BY <2>1 DEF Meets, Targets
  <2>. QED
    BY <2>2 DEF ConnsInv, MeetingsNoted
<1>2. c \in Conn
  BY Calling
<1>. QED
  BY <1>1, <1>2 DEF ConnsInv, ToldInv

\* The webhook's picture, given what it is of the connections of the call.
LEMMA ToldStays ==
  ASSUME ConnectionsAssumption, ConnsInv, NEW p \in Caller, StepOf(p), Follows(p),
         connCall'[p] # None => ConnAsked(p)',
         \A c \in Targets(connCall[p]) : c \notin missed' /\ c[2] \notin crossed =>
           /\ told'[c] = StateOf(c)' \/ Tells(p, c)'
           /\ Tells(p, c)' => connCall'[p].event = StateOf(c)'
  PROVE  ToldInv'
<1> SUFFICES ASSUME NEW c \in Conn, c \notin missed', c[2] \notin crossed
             PROVE  /\ told'[c] = StateOf(c)' \/ \E q \in Caller : Tells(q, c)'
                    /\ \A q \in Caller : Tells(q, c)' => connCall'[q].event = StateOf(c)'
  BY DEF ToldInv, StepOf
<1>1. \A q \in Caller \ {p} : Tells(q, c)' <=> Tells(q, c)
  BY DEF StepOf, Tells, Changed
<1>2. CASE c \in Targets(connCall[p])
  <2>1. \A q \in Caller \ {p} : ~Tells(q, c)
    BY <1>2, NoneElseTells DEF StepOf
  <2>. QED
    BY <1>1, <1>2, <2>1
<1>3. CASE c \notin Targets(connCall[p])
  <2>1. /\ stored'[c] = stored[c] /\ told'[c] = told[c] /\ c \notin missed
    BY <1>3 DEF StepOf
  <2>2. ~Tells(p, c)
    BY <1>3, Calling DEF Tells
  <2>3. ~Tells(p, c)'
    <3>1. connCall'[p] # None => connCall'[p].now \subseteq connCall[p].on
      BY DEF Follows, ConnAsked
    <3>. QED
      BY <1>3, <3>1 DEF Tells, Changed, Targets, Follows
  <2>4. StateOf(c)' = StateOf(c)
    BY <2>1 DEF StateOf, EventOf
  <2>. QED
    BY <1>1, <2>1, <2>2, <2>3, <2>4 DEF ConnsInv, ToldInv, StepOf
<1>. QED
  BY <1>2, <1>3

\* A step keeps the invariant when what it does to its own call and connections
\* is right.
LEMMA StepKeeps ==
  ASSUME ConnectionsAssumption, ConnsInv, NEW p \in Caller, StepOf(p), Follows(p),
         ConnTypes', SecretsOfOne', LimitInv', ToldInv',
         connCall'[p] # None => ConnAsked(p)' /\ ConnFits(p)',
         \A c \in Targets(connCall[p]) : c[2] \notin raced =>
           /\ known'[c] # 0 => stored'[c] # None /\ stored'[c].secret = known'[c]
           /\ c \in gone' => stored'[c] = None
           /\ c[2] \in Saml /\ stored[c] = None /\ stored'[c] # None =>
                \A d \in StoredConns : d[2] # c[2]
  PROVE  ConnsInv'
<1>1. ConnsTypeOK'
  BY TypesFollow, PTL
<1>2. ASSUME NEW q \in Caller, connCall'[q] # None PROVE ConnAsked(q)' /\ ConnFits(q)'
  <2>1. CASE q # p
    BY <1>2, <2>1, OthersFit DEF StepOf
  <2>. QED
    BY <1>2, <2>1
<1>3. MeetingsNoted'
  BY MeetingsStay
<1>4. SecretKept' /\ DeletedIsGone'
  BY DEF StepOf, ConnsInv, SecretKept, DeletedIsGone, ConnTypes
<1>5. OneTenantUnlessRaced'
  <2> SUFFICES ASSUME NEW i \in Saml \ raced, NEW c \in StoredConns', NEW d \in StoredConns',
                      c[2] = i, d[2] = i
               PROVE  c = d
    BY DEF OneTenantUnlessRaced, OneTenant, StepOf
  <2>1. c \in Conn /\ d \in Conn /\ stored'[c] # None /\ stored'[d] # None
    BY DEF StoredConns
  <2>2. \A x \in Conn : stored[x] = None /\ stored'[x] # None => x \in Targets(connCall[p])
    BY DEF StepOf
  <2>3. CASE stored[c] # None /\ stored[d] # None
    BY <2>1, <2>3 DEF ConnsInv, OneTenantUnlessRaced, OneTenant, StoredConns
  <2>4. CASE stored[c] = None /\ stored[d] = None
    BY <2>1, <2>2, <2>4 DEF Targets
  <2>5. CASE (stored[c] = None) # (stored[d] = None)
    BY <2>1, <2>2, <2>5 DEF StoredConns
  <2>. QED
    BY <2>3, <2>4, <2>5
<1>. QED
  BY <1>1, <1>2, <1>3, <1>4, <1>5 DEF ConnsInv

-----------------------------------------------------------------------------
LEMMA ConnsInitInv == ConnectionsAssumption /\ ConnsInit => ConnsInv
<1> SUFFICES ASSUME ConnectionsAssumption, ConnsInit PROVE ConnsInv
  OBVIOUS
<1>1. /\ stored = [c \in Conn |-> None] /\ connCall = [p \in Caller |-> None]
      /\ connCalls = 0 /\ secrets = 0 /\ limited \in BOOLEAN
      /\ told = [c \in Conn |-> "gone"] /\ known = [c \in Conn |-> 0]
      /\ gone = {} /\ missed = {} /\ crossed = {} /\ raced = {} /\ crowded = FALSE
  BY DEF ConnsInit
<1>2. StoredConns = {} /\ \A p \in Caller : connCall[p] = None
  BY <1>1 DEF StoredConns
<1>3. SecretsOfOne
  BY <1>1, <1>2 DEF SecretsOfOne, Copy
<1>4. ConnTypes
  <2>1. connCalls \in 0..MaxCalls /\ secrets \in Nat
    BY <1>1 DEF ConnectionsAssumption
  <2>2. crowded \in BOOLEAN
    BY <1>1
  <2>. QED
    BY <1>1, <2>1, <2>2 DEF ConnTypes, State
<1>5. LimitInv
  <2>1. IsFiniteSet({}) /\ Cardinality({}) = 0
    BY FS_EmptySet
  <2>. QED
    BY <1>2, <2>1 DEF LimitInv, ConnectionsAssumption
<1>6. ToldInv
  BY <1>1 DEF ToldInv, StateOf, Tells
<1>. QED
  BY <1>1, <1>2, <1>3, <1>4, <1>5, <1>6, TypesFollow
  DEF ConnsInv, MeetingsNoted, Meets, SecretKept, DeletedIsGone, OneTenantUnlessRaced, OneTenant

\* What a call asks for is well formed, and whom it meets is noted.
LEMMA ArriveStep ==
  ASSUME ConnectionsAssumption, ConnsInv, NEW p \in Caller, NEW op \in ConnOp, NEW t \in Tenant,
         NEW on \in SUBSET Idp, NEW change \in {None, TRUE, FALSE},
         op # "deleteAll" => \E i \in Idp : on = {i},
         Arrive(p, op, t, on, change)
  PROVE  ConnsInv'
<1>. DEFINE mine == {t} \X on
            c == [op |-> op, tenant |-> t, on |-> on, left |-> on, now |-> on,
                  change |-> change, saved |-> None, event |-> "gone",
                  shown |-> IF \E i \in on : on = {i} THEN known[<<t, CHOOSE i \in on : TRUE>>] ELSE 0,
                  at |-> IF op = "create" THEN "limit" ELSE "read"]
<1>1. /\ connCall[p] = None /\ connCalls < MaxCalls /\ connCalls' = connCalls + 1
      /\ ConnMove(p, c)
      /\ known' = IF op \in Deletes THEN [x \in Conn |-> IF x \in mine THEN 0 ELSE known[x]]
                  ELSE known
      /\ gone' = IF op = "create" THEN gone \ mine ELSE gone
      /\ crossed' = crossed \cup {i \in on : \E q \in Caller :
                                    connCall[q] # None /\ i \in connCall[q].on}
      /\ raced' = raced \cup {i \in on : \E q \in Caller : connCall[q] # None
                                /\ i \in connCall[q].on /\ CanRace(op, connCall[q].op)}
      /\ crowded' = (crowded \/ (op = "create" /\ \E q \in Caller :
                                   connCall[q] # None /\ connCall[q].op = "create"))
      /\ UNCHANGED <<limited, stored, secrets, told, missed>>
  BY DEF Arrive
<1>2. ConnTypes
  BY TypesHold
<1>3. c \in ConnCall /\ c # None
  <2>1. c.shown \in Nat
    <3>1. CASE \E i \in on : on = {i}
      <4>. DEFINE i == CHOOSE i \in on : TRUE
      <4>1. <<t, i>> \in Conn
        BY <3>1 DEF Conn
      <4>2. c.shown = known[<<t, i>>]
        BY <3>1
      <4>. HIDE DEF i, c
      <4>. QED
        BY <1>2, <4>1, <4>2 DEF ConnTypes
    <3>. QED
      BY <3>1
  <2>2. c.at \in {"limit", "read"}
    OBVIOUS
  <2>3. c \in ConnCall
    BY <2>1, <2>2 DEF ConnCall, State
  <2>. QED
    BY <2>3 DEF ConnectionsAssumption
<1>4. /\ c.op = op /\ c.tenant = t /\ c.on = on /\ c.left = on /\ c.now = on /\ c.saved = None
      /\ c.event = "gone" /\ c.at = IF op = "create" THEN "limit" ELSE "read"
  OBVIOUS
<1>. HIDE DEF c
<1>5. /\ connCall' \in [Caller -> ConnCall \cup {None}] /\ connCall'[p] = c
      /\ \A q \in Caller \ {p} : connCall'[q] = connCall[q]
  BY <1>1, <1>2, <1>3, ConnMoves
<1>6. ConnTypes'
  <2>1. known' \in [Conn -> Nat]
    BY <1>1, <1>2 DEF ConnTypes
  <2>2. raced' \subseteq crossed' /\ crossed' \subseteq Idp
    BY <1>1, <1>2 DEF ConnTypes
  <2>3. connCalls' \in 0..MaxCalls
    BY <1>1, <1>2 DEF ConnTypes, ConnectionsAssumption
  <2>4. crowded' \in BOOLEAN
    BY <1>1, <1>2 DEF ConnTypes
  <2>5. gone' \subseteq Conn
    BY <1>1, <1>2 DEF ConnTypes
  <2>. QED
    BY <1>1, <1>2, <1>5, <2>1, <2>2, <2>3, <2>4, <2>5 DEF ConnTypes
<1>7. /\ raced \subseteq raced' /\ crossed \subseteq crossed' /\ (crowded => crowded')
      /\ gone' \subseteq gone /\ StoredConns' = StoredConns
      /\ \A x \in Conn : known'[x] # 0 => known'[x] = known[x]
  BY <1>1, <1>2 DEF ConnTypes, StoredConns
<1>8. MeetingsNoted'
  <2>1. ASSUME NEW q \in Caller, q # p, connCall[q] # None
        PROVE  /\ on \cap connCall[q].on \subseteq crossed'
               /\ CanRace(op, connCall[q].op) => on \cap connCall[q].on \subseteq raced'
               /\ op = "create" /\ connCall[q].op = "create" => crowded'
    BY <1>1, <2>1
  <2>2. \A q \in Caller : CanRace(op, connCall[q].op) <=> CanRace(connCall[q].op, op)
    BY DEF CanRace
  <2>. QED
    BY <1>4, <1>5, <1>7, <2>1, <2>2 DEF MeetingsNoted, Meets, ConnsInv
<1>9. SecretsOfOne'
  <2>1. \A x \in Conn, s \in Nat : Copy(x, s)' => Copy(x, s)
    BY <1>1, <1>4, <1>5 DEF Copy, Targets
  <2>. QED
    BY <1>1, <2>1 DEF ConnsInv, SecretsOfOne
<1>10. ConnAsked(p)' /\ ConnFits(p)'
  <2>1. ConnAsked(p)'
    BY <1>4, <1>5 DEF ConnAsked, Deletes
  <2>2. Targets(connCall'[p]) = mine
    BY <1>4, <1>5 DEF Targets
  <2>3. \A x \in mine : x \in Conn
    BY DEF Conn
  <2>. QED
    BY <1>1, <1>2, <1>4, <1>5, <2>1, <2>2, <2>3
    DEF ConnFits, CreateKeeps, UpdateKeeps, DeleteKeeps, Deletes, ConnTypes
<1>11. ASSUME NEW q \in Caller, q # p, connCall[q] # None PROVE ConnAsked(q)' /\ ConnFits(q)'
  <2>1. connCall'[q] = connCall[q] /\ ConnAsked(q) /\ ConnFits(q)
    BY <1>5, <1>11, Calling
  <2>2. Targets(connCall[q]) \subseteq Conn
    BY <1>11, Calling
  <2>3. \A x \in Conn : known[x] = 0 => known'[x] = 0
    BY <1>7
  <2>. QED
    BY <1>1, <1>7, <2>1, <2>2, <2>3
    DEF ConnAsked, ConnFits, CreateKeeps, UpdateKeeps, DeleteKeeps
<1>12. SecretKept' /\ DeletedIsGone' /\ OneTenantUnlessRaced'
  BY <1>1, <1>2, <1>7 DEF ConnsInv, SecretKept, DeletedIsGone, OneTenantUnlessRaced, OneTenant, ConnTypes
<1>13. LimitInv'
  <2>1. raced' = {} => raced = {}
    BY <1>7
  <2>. QED
    BY <1>1, <1>4, <1>5, <1>7, <2>1 DEF ConnsInv, LimitInv
<1>14. ToldInv'
  <2>1. \A x \in Conn : StateOf(x)' = StateOf(x)
    BY <1>1 DEF StateOf, EventOf
  <2>2. \A q \in Caller, x \in Conn : (Tells(q, x)' <=> Tells(q, x))
                                      /\ (Tells(q, x) => connCall'[q] = connCall[q])
    BY <1>1, <1>4, <1>5 DEF Tells, Changed
  <2>. QED
    BY <1>1, <1>7, <2>1, <2>2 DEF ConnsInv, ToldInv
<1>15. ConnsTypeOK'
  BY <1>6, <1>9, TypesFollow, PTL
<1>. QED
  BY <1>5, <1>8, <1>9, <1>10, <1>11, <1>12, <1>13, <1>14, <1>15 DEF ConnsInv

\* A step of p that stores nothing and tells nobody.
LEMMA ReadsKeep ==
  ASSUME ConnectionsAssumption, ConnsInv, NEW p \in Caller, connCall[p] # None,
         connCall[p].at # "notify", NEW c \in ConnCall \cup {None}, ConnMove(p, c),
         UNCHANGED <<limited, connCalls, stored, secrets, told, known, missed,
                     crossed, raced, crowded>>,
         \/ gone' = gone
         \/ /\ connCall[p].op \in Deletes /\ gone' = gone \cup Targets(connCall[p])
            /\ \A x \in Targets(connCall[p]) : stored[x] = None,
         c # None =>
           /\ c.op = connCall[p].op /\ c.on = connCall[p].on /\ c.tenant = connCall[p].tenant
           /\ c.at # "notify" /\ ConnAsked(p)' /\ ConnFits(p)'
           /\ c.saved # connCall[p].saved => \A x \in Targets(connCall[p]) : stored[x] = c.saved
           /\ connCall[p].at \notin {"entity", "read", "put"} /\ c.at \in {"entity", "read", "put"}
                /\ c.op = "create" /\ limited => Cardinality(StoredConns) < Limit
  PROVE  ConnsInv'
<1>1. /\ connCall' \in [Caller -> ConnCall \cup {None}] /\ connCall'[p] = c
      /\ \A q \in Caller \ {p} : connCall'[q] = connCall[q]
  BY ConnMoves, TypesHold
<1>2. Targets(connCall[p]) \subseteq Conn
  BY Calling
<1>3. StepOf(p)
  BY <1>1 DEF StepOf
<1>4. Follows(p)
  BY <1>1 DEF Follows
<1>5. ConnTypes'
  BY <1>1, <1>2, TypesHold DEF ConnTypes
<1>6. SecretsOfOne'
  <2>1. ASSUME NEW x \in Conn, connCall'[p] # None, x \in Targets(connCall'[p]),
               connCall'[p].saved # None
        PROVE  Copy(x, connCall'[p].saved.secret)
    <3>1. x \in Targets(connCall[p])
      BY <2>1, <1>4 DEF Follows, Targets
    <3>. QED
      BY <1>1, <2>1, <3>1 DEF Copy
  <2>2. \A x \in Conn : stored'[x] # None => Copy(x, stored'[x].secret)
    BY DEF Copy
  <2>. QED
    BY <1>3, <2>1, <2>2, SecretsStay
<1>7. LimitInv'
  <2>1. StoredConns' = StoredConns
    BY DEF StoredConns
  <2>2. IsFiniteSet(StoredConns')
    BY <2>1 DEF ConnsInv, LimitInv
  <2>. QED
    BY <1>1, <1>3, <1>4, <2>1, <2>2, RoomStays
<1>8. ToldInv'
  <2>1. ASSUME NEW x \in Targets(connCall[p]), x \notin missed', x[2] \notin crossed
        PROVE  /\ told'[x] = StateOf(x)' /\ ~Tells(p, x)'
    <3>1. ~Tells(p, x)' /\ ~Tells(p, x)
      BY <1>1 DEF Tells
    <3>2. told[x] = StateOf(x) /\ StateOf(x)' = StateOf(x)
      BY <2>1, <3>1, NoneElseTells DEF StateOf, EventOf
    <3>. QED
      BY <3>1, <3>2
  <2>. QED
    BY <1>1, <1>3, <1>4, <2>1, ToldStays
<1>9. \A x \in Targets(connCall[p]) : x[2] \notin raced =>
        /\ known'[x] # 0 => stored'[x] # None /\ stored'[x].secret = known'[x]
        /\ x \in gone' => stored'[x] = None
  BY <1>2 DEF ConnsInv, SecretKept, DeletedIsGone
<1>. QED
  BY <1>1, <1>3, <1>4, <1>5, <1>6, <1>7, <1>8, <1>9, StepKeeps

LEMMA EndConnStep ==
  ASSUME ConnectionsAssumption, ConnsInv, NEW p \in Caller, connCall[p] # None,
         connCall[p].at # "notify", EndConn(p),
         UNCHANGED <<limited, connCalls, stored, secrets, told, known, missed,
                     crossed, raced, crowded>>,
         \/ gone' = gone
         \/ /\ connCall[p].op \in Deletes /\ gone' = gone \cup Targets(connCall[p])
            /\ \A x \in Targets(connCall[p]) : stored[x] = None
  PROVE  ConnsInv'
BY ReadsKeep DEF EndConn

\* A call goes on with what it has.
Going(p, to) == [connCall[p] EXCEPT !.at = to]

LEMMA ConnGoes ==
  ASSUME ConnectionsAssumption, ConnsInv, NEW p \in Caller, connCall[p] # None,
         NEW to \in {"limit", "entity", "read", "put", "delete", "notify"}, ConnGoto(p, to)
  PROVE  LET c == Going(p, to) IN
         /\ c \in ConnCall /\ c # None /\ ConnMove(p, c) /\ connCall'[p] = c
         /\ c.op = connCall[p].op /\ c.on = connCall[p].on /\ c.tenant = connCall[p].tenant
         /\ c.at = to /\ c.left = connCall[p].left /\ c.now = connCall[p].now
         /\ c.saved = connCall[p].saved /\ c.event = connCall[p].event
<1>. DEFINE c == Going(p, to)
<1>1. connCall[p] \in ConnCall
  BY Calling
<1>2. /\ c.op = connCall[p].op /\ c.on = connCall[p].on /\ c.tenant = connCall[p].tenant
      /\ c.at = to /\ c.left = connCall[p].left /\ c.now = connCall[p].now
      /\ c.saved = connCall[p].saved /\ c.event = connCall[p].event /\ c \in ConnCall
  BY <1>1 DEF ConnCall, Going
<1>3. c # None
  BY <1>2 DEF ConnectionsAssumption
<1>4. ConnMove(p, c)
  BY DEF ConnGoto, Going
<1>5. connCall'[p] = c
  BY <1>2, <1>4, ConnMoves, TypesHold
<1>. QED
  BY <1>2, <1>3, <1>4, <1>5

LEMMA CheckLimitStep ==
  ASSUME ConnectionsAssumption, ConnsInv, NEW p \in Caller, CheckLimit(p) PROVE ConnsInv'
<1>1. /\ connCall[p] # None /\ connCall[p].op = "create" /\ connCall[p].at = "limit"
      /\ UNCHANGED <<limited, connCalls, stored, secrets, told, known, gone, missed,
                     crossed, raced, crowded>>
  BY DEF CheckLimit, ConnAt, Frame, history
<1>2. CASE EndConn(p)
  BY <1>1, <1>2, EndConnStep
<1>3. ASSUME ~(limited /\ Cardinality(StoredConns) >= Limit),
             NEW to \in {"entity", "read"}, ConnGoto(p, to),
             to = "read" => ~(connCall[p].on \subseteq Saml)
      PROVE  ConnsInv'
  <2>. DEFINE c == Going(p, to)
  <2>0. to \in {"limit", "entity", "read", "put", "delete", "notify"}
    OBVIOUS
  <2>1. /\ c \in ConnCall /\ c # None /\ ConnMove(p, c) /\ connCall'[p] = c
        /\ c.op = "create" /\ c.on = connCall[p].on /\ c.tenant = connCall[p].tenant
        /\ c.at = to /\ c.left = connCall[p].left /\ c.now = connCall[p].now
        /\ c.saved = connCall[p].saved
    BY <1>1, <1>3, <2>0, ConnGoes
  <2>. HIDE DEF c
  <2>2. ConnAsked(p)'
    BY <1>1, <1>3, <2>1, Calling DEF ConnAsked, Deletes
  <2>3. ConnFits(p)'
    <3>1. PICK i \in Idp : connCall[p].on = {i}
      BY <1>1, Calling DEF ConnAsked
    <3>2. Targets(connCall'[p]) = Targets(connCall[p]) /\ \A x \in Targets(connCall[p]) : x[2] = i
      BY <2>1, <3>1 DEF Targets
    <3>3. to = "read" => i \notin Saml
      BY <1>3, <3>1
    <3>. QED
      BY <1>1, <1>3, <2>1, <3>2, <3>3, Calling DEF ConnFits, CreateKeeps, Deletes
  <2>4. limited => Cardinality(StoredConns) < Limit
    <3>1. Cardinality(StoredConns) \in Nat
      BY FS_CardinalityType DEF ConnsInv, LimitInv
    <3>. QED
      BY <1>3, <3>1 DEF ConnectionsAssumption
  <2>. QED
    BY <1>1, <1>3, <2>1, <2>2, <2>3, <2>4, ReadsKeep
<1>. QED
  BY <1>2, <1>3 DEF CheckLimit

LEMMA CheckEntityIDStep ==
  ASSUME ConnectionsAssumption, ConnsInv, NEW p \in Caller, CheckEntityID(p) PROVE ConnsInv'
<1>1. /\ connCall[p] # None /\ connCall[p].op = "create" /\ connCall[p].at = "entity"
      /\ UNCHANGED <<limited, connCalls, stored, secrets, told, known, gone, missed,
                     crossed, raced, crowded>>
  BY DEF CheckEntityID, ConnAt, Frame, history
<1>2. CASE EndConn(p)
  BY <1>1, <1>2, EndConnStep
<1>3. CASE /\ ~\E d \in StoredConns : d[1] # connCall[p].tenant /\ d[2] \in connCall[p].on
           /\ ConnGoto(p, "read")
  <2>. DEFINE c == Going(p, "read")
  <2>1. /\ c \in ConnCall /\ c # None /\ ConnMove(p, c) /\ connCall'[p] = c
        /\ c.op = "create" /\ c.on = connCall[p].on /\ c.tenant = connCall[p].tenant
        /\ c.at = "read" /\ c.left = connCall[p].left /\ c.now = connCall[p].now
        /\ c.saved = connCall[p].saved
    BY <1>1, <1>3, ConnGoes
  <2>. HIDE DEF c
  <2>2. ConnAsked(p)'
    BY <1>1, <2>1, Calling DEF ConnAsked, Deletes
  <2>3. ConnFits(p)'
    <3>1. Targets(connCall'[p]) = Targets(connCall[p])
      BY <2>1 DEF Targets
    <3>2. ASSUME NEW x \in Targets(connCall[p]), NEW d \in StoredConns, d[2] = x[2] PROVE d = x
      BY <1>3, <3>2 DEF StoredConns, Conn, Targets
    <3>3. StoredConns' = StoredConns
      BY <1>1 DEF StoredConns
    <3>. QED
      BY <1>1, <2>1, <3>1, <3>2, <3>3, Calling DEF ConnFits, CreateKeeps, Deletes
  <2>. QED
    BY <1>1, <2>1, <2>2, <2>3, ReadsKeep
<1>. QED
  BY <1>2, <1>3 DEF CheckEntityID

LEMMA ReadExistingStep ==
  ASSUME ConnectionsAssumption, ConnsInv, NEW p \in Caller, ReadExisting(p) PROVE ConnsInv'
<1>. DEFINE c == [connCall[p] EXCEPT !.at = "put", !.saved = Only(p)]
<1>1. /\ connCall[p] # None /\ connCall[p].op = "create" /\ connCall[p].at = "read"
      /\ UNCHANGED <<limited, connCalls, stored, secrets, told, known, gone, missed,
                     crossed, raced, crowded>>
      /\ ConnMove(p, c)
  BY DEF ReadExisting, ConnAt, Frame, history
<1>2. PICK d \in Conn : /\ Targets(connCall[p]) = {d} /\ Only(p) = stored[d]
                        /\ stored[d] \in ConnRecord \cup {None}
  BY <1>1, OnlyOne
<1>3. /\ c \in ConnCall /\ c.op = "create" /\ c.on = connCall[p].on
      /\ c.tenant = connCall[p].tenant /\ c.at = "put" /\ c.left = connCall[p].left
      /\ c.now = connCall[p].now /\ c.saved = stored[d]
  BY <1>1, <1>2, Calling DEF ConnCall
<1>4. c # None
  BY <1>3 DEF ConnectionsAssumption
<1>. HIDE DEF c
<1>5. connCall'[p] = c
  BY <1>1, <1>3, ConnMoves, TypesHold
<1>6. ConnAsked(p)'
  BY <1>1, <1>3, <1>5, Calling DEF ConnAsked, Deletes
<1>7. ConnFits(p)'
  <2>1. Targets(connCall'[p]) = Targets(connCall[p]) /\ StoredConns' = StoredConns
    BY <1>1, <1>3, <1>5 DEF Targets, StoredConns
  <2>. QED
    BY <1>1, <1>2, <1>3, <1>5, <2>1, Calling DEF ConnFits, CreateKeeps, Deletes
<1>. QED
  BY <1>1, <1>2, <1>3, <1>4, <1>5, <1>6, <1>7, ReadsKeep

LEMMA ReadSavedStep ==
  ASSUME ConnectionsAssumption, ConnsInv, NEW p \in Caller, ReadSaved(p) PROVE ConnsInv'
<1>. DEFINE c == [connCall[p] EXCEPT !.at = "put", !.saved = Only(p)]
<1>1. /\ connCall[p] # None /\ connCall[p].op = "update" /\ connCall[p].at = "read"
      /\ UNCHANGED <<limited, connCalls, stored, secrets, told, known, gone, missed,
                     crossed, raced, crowded>>
  BY DEF ReadSaved, ConnAt, Frame, history
<1>2. CASE EndConn(p)
  BY <1>1, <1>2, EndConnStep
<1>3. CASE Only(p) # None /\ ConnMove(p, c)
  <2>2. PICK d \in Conn : /\ Targets(connCall[p]) = {d} /\ Only(p) = stored[d]
                          /\ stored[d] \in ConnRecord \cup {None}
    BY <1>1, OnlyOne
  <2>3. /\ c \in ConnCall /\ c.op = "update" /\ c.on = connCall[p].on
        /\ c.tenant = connCall[p].tenant /\ c.at = "put" /\ c.left = connCall[p].left
        /\ c.now = connCall[p].now /\ c.saved = stored[d]
    BY <1>1, <2>2, Calling DEF ConnCall
  <2>4. c # None
    BY <2>3 DEF ConnectionsAssumption
  <2>. HIDE DEF c
  <2>5. connCall'[p] = c
    BY <1>3, <2>3, ConnMoves, TypesHold
  <2>6. ConnAsked(p)'
    BY <1>1, <1>3, <2>2, <2>3, <2>5, Calling DEF ConnAsked, Deletes
  <2>7. ConnFits(p)'
    <3>1. Targets(connCall'[p]) = Targets(connCall[p])
      BY <2>3, <2>5 DEF Targets
    <3>. QED
      BY <1>1, <1>3, <2>2, <2>3, <2>5, <3>1 DEF ConnFits, UpdateKeeps, Deletes
  <2>. QED
    BY <1>1, <1>3, <2>2, <2>3, <2>4, <2>5, <2>6, <2>7, ReadsKeep
<1>. QED
  BY <1>2, <1>3 DEF ReadSaved

LEMMA ReadDoomedStep ==
  ASSUME ConnectionsAssumption, ConnsInv, NEW p \in Caller, ReadDoomed(p) PROVE ConnsInv'
<1>1. /\ connCall[p] # None /\ connCall[p].op = "delete" /\ connCall[p].at = "read"
      /\ UNCHANGED <<limited, connCalls, stored, secrets, told, known, missed,
                     crossed, raced, crowded>>
      /\ gone' = IF Only(p) = None THEN gone \cup Targets(connCall[p]) ELSE gone
  BY DEF ReadDoomed, ConnAt, Frame
<1>2. PICK d \in Conn : Targets(connCall[p]) = {d} /\ Only(p) = stored[d]
  BY <1>1, OnlyOne
<1>3. connCall[p].op \in Deletes
  BY <1>1 DEF Deletes
<1>4. CASE EndConn(p)
  BY <1>1, <1>2, <1>3, <1>4, EndConnStep
<1>5. CASE Only(p) # None /\ ConnGoto(p, "delete")
  <2>. DEFINE c == Going(p, "delete")
  <2>1. /\ c \in ConnCall /\ c # None /\ ConnMove(p, c) /\ connCall'[p] = c
        /\ c.op = "delete" /\ c.on = connCall[p].on /\ c.tenant = connCall[p].tenant
        /\ c.at = "delete" /\ c.left = connCall[p].left /\ c.now = connCall[p].now
        /\ c.saved = connCall[p].saved /\ c.event = connCall[p].event
    BY <1>1, <1>5, ConnGoes
  <2>. HIDE DEF c
  <2>2. ConnAsked(p)'
    BY <1>1, <2>1, Calling DEF ConnAsked, Deletes
  <2>3. ConnFits(p)'
    <3>1. Targets(connCall'[p]) = Targets(connCall[p])
      BY <2>1 DEF Targets
    <3>2. connCall[p].left = connCall[p].on
      BY <1>1, <1>3, Calling DEF ConnAsked
    <3>3. \A x \in Targets(connCall[p]) : x[2] \notin raced => known[x] = 0
      BY <1>1, <1>3, Calling DEF ConnFits, DeleteKeeps
    <3>4. \A x \in Targets(connCall[p]) : x[2] \in connCall'[p].left
      BY <2>1, <3>2 DEF Targets
    <3>. QED
      BY <1>1, <2>1, <3>1, <3>3, <3>4 DEF ConnFits, DeleteKeeps
  <2>. QED
    BY <1>1, <1>5, <2>1, <2>2, <2>3, ReadsKeep
<1>. QED
  BY <1>4, <1>5 DEF ReadDoomed

LEMMA ListDoomedStep ==
  ASSUME ConnectionsAssumption, ConnsInv, NEW p \in Caller, ListDoomed(p) PROVE ConnsInv'
<1>. DEFINE found == {i \in connCall[p].on : stored[<<connCall[p].tenant, i>>] # None}
            c == [connCall[p] EXCEPT !.at = "delete", !.left = found]
<1>1. /\ connCall[p] # None /\ connCall[p].op = "deleteAll" /\ connCall[p].at = "read"
      /\ UNCHANGED <<limited, connCalls, stored, secrets, told, known, missed,
                     crossed, raced, crowded>>
      /\ gone' = IF found = {} THEN gone \cup Targets(connCall[p]) ELSE gone
  BY DEF ListDoomed, ConnAt, Frame
<1>2. connCall[p].op \in Deletes
  BY <1>1 DEF Deletes
<1>3. \A x \in Targets(connCall[p]) : x[2] \notin found => stored[x] = None
  BY DEF Targets
<1>4. CASE found = {} /\ EndConn(p)
  BY <1>1, <1>2, <1>3, <1>4, EndConnStep
<1>5. CASE found # {} /\ ConnMove(p, c)
  <2>1. /\ c \in ConnCall /\ c.op = "deleteAll" /\ c.on = connCall[p].on
        /\ c.tenant = connCall[p].tenant /\ c.at = "delete" /\ c.left = found
        /\ c.now = connCall[p].now /\ c.saved = connCall[p].saved /\ c.event = connCall[p].event
    <3>1. connCall[p] \in ConnCall /\ found \in SUBSET Idp
      BY <1>1, Calling
    <3>. HIDE DEF found
    <3>. QED
      BY <1>1, <3>1 DEF ConnCall
  <2>2. c # None
    BY <2>1 DEF ConnectionsAssumption
  <2>. HIDE DEF c
  <2>3. connCall'[p] = c
    BY <1>5, <2>1, ConnMoves, TypesHold
  <2>4. ConnAsked(p)'
    BY <1>1, <2>1, <2>3, Calling DEF ConnAsked, Deletes
  <2>5. ConnFits(p)'
    <3>1. Targets(connCall'[p]) = Targets(connCall[p])
      BY <2>1, <2>3 DEF Targets
    <3>2. \A x \in Targets(connCall[p]) : x[2] \notin raced => known[x] = 0
      BY <1>1, <1>2, Calling DEF ConnFits, DeleteKeeps
    <3>. QED
      BY <1>1, <1>3, <2>1, <2>3, <3>1, <3>2 DEF ConnFits, DeleteKeeps
  <2>. QED
    BY <1>1, <1>5, <2>1, <2>2, <2>3, <2>4, <2>5, ReadsKeep
<1>. QED
  BY <1>4, <1>5 DEF ListDoomed

LEMMA FailConnStep ==
  ASSUME ConnectionsAssumption, ConnsInv, NEW p \in Caller, FailConn(p) PROVE ConnsInv'
BY EndConnStep DEF FailConn, Frame, history

\* The record that a creation puts has the secret of the one it found, if any.
LEMMA PutConnStep ==
  ASSUME ConnectionsAssumption, ConnsInv, NEW p \in Caller, PutConn(p) PROVE ConnsInv'
<1>. DEFINE old == connCall[p].saved
            record == [secret |-> IF old = None THEN secrets' ELSE old.secret, active |-> TRUE]
            c == [connCall[p] EXCEPT !.at = "notify", !.saved = record, !.event = "active"]
<1>1. /\ connCall[p] # None /\ connCall[p].op = "create" /\ connCall[p].at = "put"
      /\ secrets' = IF old = None THEN secrets + 1 ELSE secrets
      /\ StoreConn(p, record) /\ ConnMove(p, c)
      /\ UNCHANGED <<limited, connCalls, told, known, gone, missed, crossed, raced, crowded>>
  BY DEF PutConn, ConnAt, Frame, history
<1>2. ConnTypes
  BY TypesHold
<1>3. PICK d \in Conn : Targets(connCall[p]) = {d}
  BY <1>1, OnlyOne
<1>4. /\ record \in ConnRecord /\ record # None /\ EventOf(record) = "active"
      /\ record.secret = IF old = None THEN secrets + 1 ELSE old.secret
  <2>1. old \in ConnRecord \cup {None} /\ secrets \in Nat
    BY <1>1, <1>2, Calling DEF ConnTypes
  <2>2. record \in ConnRecord
    BY <1>1, <2>1 DEF ConnRecord
  <2>. QED
    BY <1>1, <2>2 DEF ConnectionsAssumption, EventOf
<1>. HIDE DEF record
<1>5. /\ c \in ConnCall /\ c.op = "create" /\ c.on = connCall[p].on
      /\ c.tenant = connCall[p].tenant /\ c.at = "notify" /\ c.left = connCall[p].left
      /\ c.now = connCall[p].now /\ c.saved = record /\ c.event = "active"
  BY <1>1, <1>4, Calling DEF ConnCall, State
<1>6. c # None
  BY <1>5 DEF ConnectionsAssumption
<1>. HIDE DEF c
<1>7. /\ connCall' \in [Caller -> ConnCall \cup {None}] /\ connCall'[p] = c
      /\ \A q \in Caller \ {p} : connCall'[q] = connCall[q]
  BY <1>1, <1>2, <1>5, ConnMoves
<1>8. /\ stored' \in [Conn -> ConnRecord \cup {None}] /\ stored'[d] = record
      /\ \A x \in Conn \ {d} : stored'[x] = stored[x]
  BY <1>1, <1>2, <1>3, <1>4 DEF StoreConn, ConnTypes
<1>9. d[2] \notin raced => CreateKeeps(p, d)
  BY <1>1, <1>3, Calling DEF ConnFits
<1>10. d[2] \notin raced =>
         /\ d \notin gone
         /\ d[2] \in Saml => \A x \in StoredConns : x[2] = d[2] => x = d
         /\ stored[d] # None => record.secret = stored[d].secret
  BY <1>1, <1>4, <1>9 DEF CreateKeeps
<1>11. StepOf(p)
  BY <1>1, <1>3, <1>4, <1>7, <1>8, <1>10 DEF StepOf
<1>12. Follows(p)
  BY <1>1, <1>5, <1>7 DEF Follows
<1>13. ConnTypes'
  BY <1>1, <1>2, <1>7, <1>8 DEF ConnTypes
<1>14. Targets(connCall'[p]) = {d}
  BY <1>3, <1>5, <1>7 DEF Targets
<1>15. SecretsOfOne'
  <2>1. \A x \in Conn : stored[x] # None => Copy(x, stored[x].secret)
    BY DEF Copy
  <2>2. CASE old # None
    <3>1. Copy(d, record.secret)
      BY <1>1, <1>3, <1>4, <2>2 DEF Copy
    <3>. QED
      BY <1>1, <1>5, <1>7, <1>8, <1>11, <1>14, <2>1, <2>2, <3>1, SecretsStay
  <2>3. CASE old = None
    <3>1. record.secret = secrets + 1 /\ secrets' = secrets + 1 /\ secrets \in Nat
      BY <1>1, <1>2, <1>4, <2>3 DEF ConnTypes
    <3>2. ASSUME NEW x \in Conn, NEW s \in Nat, Copy(x, s)'
          PROVE  Copy(x, s) \/ (x = d /\ s = secrets + 1)
      <4>1. CASE stored'[x] # None /\ stored'[x].secret = s
        BY <1>8, <2>1, <3>1, <4>1
      <4>2. ASSUME NEW q \in Caller, connCall'[q] # None, x \in Targets(connCall'[q]),
                   connCall'[q].saved # None, connCall'[q].saved.secret = s
            PROVE  Copy(x, s) \/ (x = d /\ s = secrets + 1)
        <5>1. CASE q = p
          BY <1>5, <1>7, <1>14, <3>1, <4>2, <5>1
        <5>2. CASE q # p
          BY <1>7, <4>2, <5>2 DEF Copy
        <5>. QED
          BY <5>1, <5>2
      <4>. QED
        BY <3>2, <4>1, <4>2 DEF Copy, Targets
    <3>3. \A x \in Conn, s \in Nat : Copy(x, s) =>
            s <= secrets /\ \A y \in Conn : Copy(y, s) => y = x
      BY DEF ConnsInv, SecretsOfOne
    <3>4. ASSUME NEW x \in Conn, NEW s \in Nat, Copy(x, s)'
          PROVE  s <= secrets' /\ \A y \in Conn : Copy(y, s)' => y = x
      BY <3>1, <3>2, <3>3, <3>4
    <3>. QED
      BY <3>4 DEF SecretsOfOne
  <2>. QED
    BY <2>2, <2>3
<1>16. LimitInv'
  <2>1. IsFiniteSet(StoredConns) /\ Cardinality(StoredConns) \in Nat
    BY FS_CardinalityType DEF ConnsInv, LimitInv
  <2>2. StoredConns' = StoredConns \cup {d}
    BY <1>4, <1>8 DEF StoredConns
  <2>3. IsFiniteSet(StoredConns') /\ Cardinality(StoredConns') <= Cardinality(StoredConns) + 1
    <3>1. /\ IsFiniteSet(StoredConns \cup {d})
          /\ Cardinality(StoredConns \cup {d}) \in
               {Cardinality(StoredConns), Cardinality(StoredConns) + 1}
      BY <2>1, FS_AddElement
    <3>. QED
      BY <2>1, <2>2, <3>1
  <2>4. ASSUME limited, ~crowded, raced = {}
        PROVE  /\ Cardinality(StoredConns') <= Limit
               /\ \A q \in Caller : connCall'[q] # None => connCall'[q].op # "create" \/ q = p
    <3>1. Cardinality(StoredConns) < Limit
      BY <1>1, <2>4 DEF ConnsInv, LimitInv
    <3>2. \A q \in Caller \ {p} : connCall[q] # None => connCall[q].op # "create"
      BY <1>1, <2>4 DEF ConnsInv, MeetingsNoted, Meets
    <3>3. Cardinality(StoredConns') \in Nat
      BY <2>3, FS_CardinalityType
    <3>. QED
      BY <1>7, <2>1, <2>3, <3>1, <3>2, <3>3 DEF ConnectionsAssumption
  <2>. QED
    BY <1>1, <1>5, <1>7, <2>3, <2>4 DEF LimitInv
<1>17. ConnAsked(p)'
  BY <1>1, <1>4, <1>5, <1>7, Calling DEF ConnAsked, Deletes
<1>18. ConnFits(p)'
  BY <1>1, <1>4, <1>5, <1>7, <1>8, <1>10, <1>14 DEF ConnFits, CreateKeeps, Deletes
<1>19. ToldInv'
  <2>1. StateOf(d)' = "active"
    BY <1>4, <1>8 DEF StateOf
  <2>2. Tells(p, d)'
    <3>1. connCall[p].now = connCall[p].on
      BY <1>1, Calling DEF ConnAsked
    <3>2. Changed(p)' = Targets(connCall[p])
      BY <1>5, <1>7, <3>1 DEF Changed, Targets
    <3>. QED
      BY <1>3, <1>5, <1>6, <1>7, <3>2 DEF Tells
  <2>. QED
    BY <1>3, <1>5, <1>7, <1>11, <1>12, <1>17, <2>1, <2>2, ToldStays
<1>20. known[d] # 0 /\ d[2] \notin raced => stored[d] # None /\ stored[d].secret = known[d]
  BY DEF ConnsInv, SecretKept
<1>21. d[2] \notin raced =>
         /\ known'[d] # 0 => stored'[d] # None /\ stored'[d].secret = known'[d]
         /\ d \in gone' => stored'[d] = None
         /\ d[2] \in Saml /\ stored[d] = None => \A x \in StoredConns : x[2] # d[2]
  BY <1>1, <1>4, <1>8, <1>10, <1>20 DEF StoredConns
<1>. QED
  BY <1>3, <1>11, <1>12, <1>13, <1>15, <1>16, <1>17, <1>18, <1>19, <1>21, StepKeeps

\* What an update puts is the stored record with its changes, unless raced.
LEMMA PutSavedConnStep ==
  ASSUME ConnectionsAssumption, ConnsInv, NEW p \in Caller, PutSavedConn(p) PROVE ConnsInv'
<1>. DEFINE old == connCall[p].saved
<1>1. /\ connCall[p] # None /\ connCall[p].op = "update" /\ connCall[p].at = "put"
      /\ UNCHANGED <<limited, connCalls, secrets, told, known, gone, missed,
                     crossed, raced, crowded>>
  BY DEF PutSavedConn, ConnAt, Frame, history
<1>2. ConnTypes
  BY TypesHold
<1>3. PICK d \in Conn : Targets(connCall[p]) = {d}
  BY <1>1, OnlyOne
<1>4. old \in ConnRecord
  BY <1>1, Calling DEF ConnAsked
<1>5. d[2] \notin raced =>
        /\ stored[d] # None /\ stored[d].secret = old.secret
        /\ d[2] \notin crossed => stored[d] = old
  BY <1>1, <1>3, Calling DEF ConnFits, UpdateKeeps, Deletes
<1>6. ASSUME NEW record \in ConnRecord, record.secret = old.secret, StoreConn(p, record),
             NEW c \in ConnCall \cup {None}, ConnMove(p, c),
             c = None => record = old,
             c # None => /\ c.op = "update" /\ c.on = connCall[p].on
                         /\ c.tenant = connCall[p].tenant /\ c.at = "notify"
                         /\ c.left = connCall[p].left /\ c.now = connCall[p].now
                         /\ c.saved = old /\ c.event = EventOf(record)
      PROVE  ConnsInv'
  <2>1. /\ connCall' \in [Caller -> ConnCall \cup {None}] /\ connCall'[p] = c
        /\ \A q \in Caller \ {p} : connCall'[q] = connCall[q]
    BY <1>2, <1>6, ConnMoves
  <2>2. record # None
    BY <1>6 DEF ConnectionsAssumption
  <2>3. /\ stored' \in [Conn -> ConnRecord \cup {None}] /\ stored'[d] = record
        /\ \A x \in Conn \ {d} : stored'[x] = stored[x]
    BY <1>2, <1>3, <1>6 DEF StoreConn, ConnTypes
  <2>4. StepOf(p)
    BY <1>1, <1>3, <1>5, <1>6, <2>1, <2>2, <2>3 DEF StepOf, Deletes
  <2>5. Follows(p)
    BY <1>1, <1>6, <2>1 DEF Follows
  <2>6. ConnTypes'
    BY <1>1, <1>2, <2>1, <2>3 DEF ConnTypes
  <2>7. Copy(d, old.secret)
    BY <1>1, <1>3, <1>4 DEF Copy, ConnectionsAssumption
  <2>8. SecretsOfOne'
    <3>1. \A x \in Conn : stored'[x] # None => Copy(x, stored'[x].secret)
      BY <1>6, <2>3, <2>7 DEF Copy
    <3>2. ASSUME NEW x \in Conn, connCall'[p] # None, x \in Targets(connCall'[p]),
                 connCall'[p].saved # None
          PROVE  Copy(x, connCall'[p].saved.secret)
      <4>1. x \in Targets(connCall[p])
        BY <2>5, <3>2 DEF Follows, Targets
      <4>. QED
        BY <1>3, <1>6, <2>1, <2>7, <3>2, <4>1
    <3>. QED
      BY <1>1, <2>4, <3>1, <3>2, SecretsStay
  <2>9. LimitInv'
    <3>1. IsFiniteSet(StoredConns) /\ StoredConns' = StoredConns \cup {d}
      BY <2>2, <2>3 DEF StoredConns, ConnsInv, LimitInv
    <3>2. IsFiniteSet(StoredConns')
      BY <3>1, FS_AddElement
    <3>3. raced = {} => StoredConns' \subseteq StoredConns
      BY <1>5, <3>1 DEF StoredConns
    <3>. QED
      BY <1>1, <1>6, <2>1, <2>4, <2>5, <3>2, <3>3, RoomStays
  <2>10. connCall'[p] # None => ConnAsked(p)' /\ ConnFits(p)'
    <3>1. connCall'[p] # None => ConnAsked(p)'
      BY <1>1, <1>6, <2>1, Calling DEF ConnAsked, Deletes
    <3>2. connCall'[p] # None => ConnFits(p)'
      BY <1>1, <1>6, <2>1 DEF ConnFits, UpdateKeeps, Deletes
    <3>. QED
      BY <3>1, <3>2
  <2>11. ToldInv'
    <3>1. StateOf(d)' = EventOf(record)
      BY <2>2, <2>3 DEF StateOf, EventOf
    <3>2. CASE c = None
      <4>1. d \notin missed /\ d[2] \notin crossed => told[d] = StateOf(d)
        BY <1>1, <1>3, NoneElseTells DEF Tells
      <4>2. d[2] \notin crossed => stored[d] = record /\ stored[d] # None
        BY <1>2, <1>5, <1>6, <3>2 DEF ConnTypes
      <4>3. d \notin missed /\ d[2] \notin crossed => told'[d] = StateOf(d)'
        BY <1>1, <3>1, <4>1, <4>2 DEF StateOf
      <4>4. ~Tells(p, d)'
        BY <2>1, <3>2 DEF Tells
      <4>. QED
        BY <1>1, <1>3, <2>4, <2>5, <2>10, <4>3, <4>4, ToldStays
    <3>3. CASE c # None
      <4>1. connCall[p].now = connCall[p].on
        BY <1>1, Calling DEF ConnAsked
      <4>2. Changed(p)' = Targets(connCall[p])
        BY <1>6, <2>1, <3>3, <4>1 DEF Changed, Targets
      <4>3. Tells(p, d)' /\ connCall'[p].event = StateOf(d)'
        BY <1>3, <1>6, <2>1, <3>1, <3>3, <4>2 DEF Tells
      <4>. QED
        BY <1>3, <2>4, <2>5, <2>10, <4>3, ToldStays
    <3>. QED
      BY <3>2, <3>3
  <2>12. d[2] \notin raced =>
           /\ known'[d] # 0 => stored'[d] # None /\ stored'[d].secret = known'[d]
           /\ d \in gone' => stored'[d] = None
           /\ stored[d] # None
    BY <1>1, <1>5, <1>6, <2>2, <2>3 DEF ConnsInv, SecretKept, DeletedIsGone
  <2>. QED
    BY <1>3, <2>4, <2>5, <2>6, <2>8, <2>9, <2>10, <2>11, <2>12, StepKeeps
<1>7. CASE connCall[p].change = None
  BY <1>4, <1>6, <1>7 DEF PutSavedConn, EndConn
<1>8. CASE connCall[p].change # None
  <2>. DEFINE record == [old EXCEPT !.active = connCall[p].change]
              c == [connCall[p] EXCEPT !.at = "notify", !.event = EventOf(record)]
  <2>1. StoreConn(p, record) /\ ConnMove(p, c)
    BY <1>8 DEF PutSavedConn
  <2>2. record \in ConnRecord /\ record.secret = old.secret
    BY <1>1, <1>4, <1>8, Calling DEF ConnRecord
  <2>. HIDE DEF record
  <2>3. /\ c \in ConnCall /\ c.op = "update" /\ c.on = connCall[p].on
        /\ c.tenant = connCall[p].tenant /\ c.at = "notify" /\ c.left = connCall[p].left
        /\ c.now = connCall[p].now /\ c.saved = old /\ c.event = EventOf(record)
    BY <1>1, Calling DEF ConnCall, EventOf, State
  <2>4. c # None
    BY <2>3 DEF ConnectionsAssumption
  <2>. HIDE DEF c
  <2>. QED
    BY <1>6, <2>1, <2>2, <2>3, <2>4
<1>. QED
  BY <1>7, <1>8

LEMMA DeleteConnStep ==
  ASSUME ConnectionsAssumption, ConnsInv, NEW p \in Caller, DeleteConn(p) PROVE ConnsInv'
<1>1. /\ connCall[p] # None /\ connCall[p].op \in Deletes /\ connCall[p].at = "delete"
      /\ UNCHANGED <<limited, connCalls, secrets, told, known, gone, missed,
                     crossed, raced, crowded>>
  BY DEF DeleteConn, ConnAt, Frame, history
<1>2. PICK i \in connCall[p].left :
        /\ stored' = [stored EXCEPT ![<<connCall[p].tenant, i>>] = None]
        /\ ConnMove(p, [connCall[p] EXCEPT !.at = "notify", !.left = @ \ {i}, !.now = {i}])
  BY DEF DeleteConn
<1>. DEFINE d == <<connCall[p].tenant, i>>
            c == [connCall[p] EXCEPT !.at = "notify", !.left = @ \ {i}, !.now = {i}]
<1>3. ConnTypes
  BY TypesHold
<1>4. d \in Targets(connCall[p]) /\ d \in Conn /\ i \in connCall[p].on /\ i \in Idp
  <2>1. i \in connCall[p].on
    BY <1>1, <1>2, Calling
  <2>. QED
    BY <1>1, <2>1, Calling DEF Targets
<1>5. /\ c \in ConnCall /\ c.op = connCall[p].op /\ c.on = connCall[p].on
      /\ c.tenant = connCall[p].tenant /\ c.at = "notify" /\ c.left = connCall[p].left \ {i}
      /\ c.now = {i} /\ c.saved = connCall[p].saved /\ c.event = "gone"
  BY <1>1, <1>4, Calling DEF ConnCall, ConnAsked
<1>6. c # None
  BY <1>5 DEF ConnectionsAssumption
<1>. HIDE DEF c
<1>7. /\ connCall' \in [Caller -> ConnCall \cup {None}] /\ connCall'[p] = c
      /\ \A q \in Caller \ {p} : connCall'[q] = connCall[q]
  BY <1>2, <1>3, <1>5, ConnMoves DEF c
<1>8. /\ stored' \in [Conn -> ConnRecord \cup {None}] /\ stored'[d] = None
      /\ \A x \in Conn \ {d} : stored'[x] = stored[x]
  BY <1>2, <1>3, <1>4 DEF ConnTypes
<1>9. \A x \in Targets(connCall[p]) : x \in Conn /\ (x[2] = i => x = d)
  <2>1. \A x \in Targets(connCall[p]) : x = <<connCall[p].tenant, x[2]>>
    BY DEF Targets
  <2>2. \A x \in Targets(connCall[p]) : x \in Conn
    BY <1>1, Calling
  <2>. QED
    BY <2>1, <2>2
<1>. HIDE DEF d
<1>10. StepOf(p)
  BY <1>1, <1>4, <1>7, <1>8 DEF StepOf, Deletes
<1>11. Follows(p)
  BY <1>5, <1>7 DEF Follows
<1>12. ConnTypes'
  BY <1>1, <1>3, <1>7, <1>8 DEF ConnTypes
<1>13. SecretsOfOne'
  <2>1. \A x \in Conn : stored'[x] # None => Copy(x, stored'[x].secret)
    BY <1>8 DEF Copy
  <2>2. ASSUME NEW x \in Conn, connCall'[p] # None, x \in Targets(connCall'[p]),
               connCall'[p].saved # None
        PROVE  Copy(x, connCall'[p].saved.secret)
    BY <1>1, <1>5, <1>7, <2>2 DEF Copy, Targets
  <2>. QED
    BY <1>1, <1>10, <2>1, <2>2, SecretsStay
<1>14. LimitInv'
  <2>1. IsFiniteSet(StoredConns) /\ StoredConns' \subseteq StoredConns
    BY <1>8 DEF StoredConns, ConnsInv, LimitInv
  <2>2. IsFiniteSet(StoredConns')
    BY <2>1, FS_Subset
  <2>. QED
    BY <1>1, <1>10, <1>11, <2>1, <2>2, RoomStays DEF Deletes
<1>15. ConnAsked(p)'
  BY <1>1, <1>4, <1>5, <1>7, Calling DEF ConnAsked, Deletes
<1>16. ConnFits(p)'
  <2>1. Targets(connCall'[p]) = Targets(connCall[p])
    BY <1>5, <1>7 DEF Targets
  <2>2. ASSUME NEW x \in Targets(connCall[p]), x[2] \notin raced PROVE DeleteKeeps(p, x)'
    <3>1. DeleteKeeps(p, x) /\ x \in Conn
      BY <1>1, <1>9, <2>2, Calling DEF ConnFits
    <3>. QED
      BY <1>1, <1>5, <1>7, <1>8, <1>9, <3>1 DEF DeleteKeeps
  <2>. QED
    BY <1>1, <1>5, <1>7, <2>1, <2>2 DEF ConnFits, Deletes
<1>17. ToldInv'
  <2>1. ASSUME NEW x \in Targets(connCall[p]), x \notin missed', x[2] \notin crossed
        PROVE  /\ told'[x] = StateOf(x)' \/ Tells(p, x)'
               /\ Tells(p, x)' => connCall'[p].event = StateOf(x)'
    <3>1. CASE x = d
      <4>1. d \in Changed(p)'
        BY <1>4, <1>5, <1>7 DEF Changed, d
      <4>. QED
        BY <1>5, <1>6, <1>7, <1>8, <3>1, <4>1 DEF Tells, StateOf
    <3>2. CASE x # d
      <4>1. told[x] = StateOf(x)
        BY <1>1, <2>1, NoneElseTells DEF Tells
      <4>2. StateOf(x)' = StateOf(x)
        BY <1>8, <1>9, <2>1, <3>2 DEF StateOf, EventOf
      <4>3. x \notin Changed(p)'
        BY <1>5, <1>7, <1>9, <2>1, <3>2 DEF Changed
      <4>. QED
        BY <1>1, <4>1, <4>2, <4>3 DEF Tells
    <3>. QED
      BY <3>1, <3>2
  <2>. QED
    BY <1>10, <1>11, <1>15, <2>1, ToldStays
<1>18. ASSUME NEW x \in Targets(connCall[p]), x[2] \notin raced
       PROVE  /\ known'[x] # 0 => stored'[x] # None /\ stored'[x].secret = known'[x]
              /\ x \in gone' => stored'[x] = None
              /\ stored[x] = None => stored'[x] = None
  <2>1. DeleteKeeps(p, x) /\ x \in Conn
    BY <1>1, <1>9, <1>18, Calling DEF ConnFits
  <2>. QED
    BY <1>1, <1>8, <1>18, <2>1 DEF DeleteKeeps, ConnsInv, DeletedIsGone
<1>. QED
  BY <1>10, <1>11, <1>12, <1>13, <1>14, <1>15, <1>16, <1>17, <1>18, StepKeeps

\* What the webhook is told, if it answers, is what is stored.
LEMMA NotifyStep ==
  ASSUME ConnectionsAssumption, ConnsInv, NEW p \in Caller, Notify(p) PROVE ConnsInv'
<1>. DEFINE more == connCall[p].op \in Deletes /\ connCall[p].left # {}
            c == connCall'[p]
<1>1. /\ connCall[p] # None /\ connCall[p].at = "notify"
      /\ told' = [x \in Conn |-> IF x \in Changed(p) THEN connCall[p].event ELSE told[x]]
      /\ known' = IF connCall[p].op = "create"
                  THEN [x \in Conn |-> IF x \in Targets(connCall[p])
                                       THEN connCall[p].saved.secret ELSE known[x]]
                  ELSE known
      /\ IF more THEN ConnGoto(p, "delete") ELSE EndConn(p)
      /\ gone' = IF connCall[p].op \in Deletes /\ ~more THEN gone \cup Targets(connCall[p]) ELSE gone
      /\ UNCHANGED <<limited, connCalls, stored, secrets, missed, crossed, raced, crowded>>
  BY DEF Notify, Frame
<1>2. ConnTypes
  BY TypesHold
<1>3. /\ connCall' \in [Caller -> ConnCall \cup {None}]
      /\ \A q \in Caller \ {p} : connCall'[q] = connCall[q]
      /\ ~more => c = None
      /\ c # None =>
           /\ more /\ c.op = connCall[p].op /\ c.on = connCall[p].on
           /\ c.tenant = connCall[p].tenant /\ c.at = "delete" /\ c.left = connCall[p].left
           /\ c.now = connCall[p].now /\ c.saved = connCall[p].saved /\ c.event = connCall[p].event
  <2>1. CASE more
    <3>. DEFINE d == Going(p, "delete")
    <3>1. ConnGoto(p, "delete")
      BY <1>1, <2>1
    <3>2. /\ d \in ConnCall /\ ConnMove(p, d) /\ c = d
          /\ d.op = connCall[p].op /\ d.on = connCall[p].on /\ d.tenant = connCall[p].tenant
          /\ d.at = "delete" /\ d.left = connCall[p].left /\ d.now = connCall[p].now
          /\ d.saved = connCall[p].saved /\ d.event = connCall[p].event
      BY <1>1, <3>1, ConnGoes
    <3>. HIDE DEF d
    <3>3. /\ connCall' \in [Caller -> ConnCall \cup {None}]
          /\ \A q \in Caller \ {p} : connCall'[q] = connCall[q]
      BY <1>2, <3>2, ConnMoves
    <3>. QED
      BY <2>1, <3>2, <3>3
  <2>2. CASE ~more
    BY <1>1, <1>2, <2>2, ConnMoves DEF EndConn
  <2>. QED
    BY <2>1, <2>2
<1>4. /\ Changed(p) \subseteq Targets(connCall[p]) /\ Targets(connCall[p]) \subseteq Conn
      /\ connCall[p].event \in State /\ ConnAsked(p) /\ ConnFits(p)
  BY <1>1, Calling
<1>5. connCall[p].op = "create" => connCall[p].saved \in ConnRecord /\ connCall[p].saved.secret \in Nat
  BY <1>1, <1>4, Calling DEF ConnAsked, ConnRecord
<1>6. ConnTypes'
  BY <1>1, <1>2, <1>3, <1>4, <1>5 DEF ConnTypes
<1>7. StepOf(p)
  <2>1. \A x \in Conn \ Targets(connCall[p]) :
          known'[x] = known[x] /\ told'[x] = told[x] /\ (x \in gone' <=> x \in gone)
    BY <1>1, <1>2, <1>4 DEF ConnTypes
  <2>. QED
    BY <1>1, <1>3, <2>1 DEF StepOf
<1>8. Follows(p)
  BY <1>3 DEF Follows
<1>9. SecretsOfOne'
  <2>1. \A x \in Conn : stored'[x] # None => Copy(x, stored'[x].secret)
    BY <1>1 DEF Copy
  <2>2. ASSUME NEW x \in Conn, connCall'[p] # None, x \in Targets(connCall'[p]),
               connCall'[p].saved # None
        PROVE  Copy(x, connCall'[p].saved.secret)
    BY <1>1, <1>3, <2>2 DEF Copy, Targets
  <2>. QED
    BY <1>1, <1>7, <2>1, <2>2, SecretsStay
<1>10. LimitInv'
  <2>1. StoredConns' = StoredConns /\ IsFiniteSet(StoredConns)
    BY <1>1 DEF StoredConns, ConnsInv, LimitInv
  <2>. QED
    BY <1>3, <1>7, <1>8, <2>1, RoomStays
<1>11. c # None => ConnAsked(p)'
  BY <1>3, <1>4 DEF ConnAsked, Deletes
<1>12. ASSUME NEW x \in Targets(connCall[p]), x[2] \notin raced
       PROVE  /\ connCall[p].op = "create" =>
                   x \notin gone /\ stored[x] # None /\ stored[x].secret = connCall[p].saved.secret
              /\ connCall[p].op \in Deletes => DeleteKeeps(p, x)
  BY <1>1, <1>4, <1>12 DEF ConnFits, CreateKeeps
<1>13. c # None => ConnFits(p)'
  <2> SUFFICES ASSUME c # None, NEW x \in Targets(c), x[2] \notin raced PROVE DeleteKeeps(p, x)'
    BY <1>1, <1>3 DEF ConnFits, Deletes
  <2>1. x \in Targets(connCall[p])
    BY <1>3 DEF Targets
  <2>. QED
    BY <1>1, <1>3, <1>12, <2>1 DEF DeleteKeeps, Deletes
<1>14. ToldInv'
  <2>1. ASSUME NEW x \in Targets(connCall[p]), x \notin missed', x[2] \notin crossed
        PROVE  told'[x] = StateOf(x)' /\ ~Tells(p, x)'
    <3>1. StateOf(x)' = StateOf(x) /\ x \in Conn /\ ~Tells(p, x)'
      BY <1>1, <1>3, <1>4 DEF StateOf, EventOf, Tells
    <3>2. Tells(p, x) <=> x \in Changed(p)
      BY <1>1 DEF Tells
    <3>3. IF x \in Changed(p) THEN connCall[p].event = StateOf(x) ELSE told[x] = StateOf(x)
      BY <1>1, <2>1, <3>2, NoneElseTells
    <3>. QED
      BY <1>1, <3>1, <3>3
  <2>. QED
    BY <1>7, <1>8, <1>11, <2>1, ToldStays
<1>15. ASSUME NEW x \in Targets(connCall[p]), x[2] \notin raced
       PROVE  /\ known'[x] # 0 => stored'[x] # None /\ stored'[x].secret = known'[x]
              /\ x \in gone' => stored'[x] = None
  <2>1. x \in Conn /\ stored'[x] = stored[x]
    BY <1>1, <1>4
  <2>2. /\ known[x] # 0 => stored[x] # None /\ stored[x].secret = known[x]
        /\ x \in gone => stored[x] = None
    BY <1>15, <2>1 DEF ConnsInv, SecretKept, DeletedIsGone
  <2>3. CASE connCall[p].op = "create"
    BY <1>1, <1>12, <1>15, <2>1, <2>3 DEF Deletes
  <2>4. CASE connCall[p].op # "create"
    BY <1>1, <1>12, <1>15, <2>1, <2>2, <2>4 DEF DeleteKeeps
  <2>. QED
    BY <2>3, <2>4
<1>16. \A x \in Targets(connCall[p]) : stored'[x] = stored[x]
  BY <1>1
<1>. QED
  BY <1>6, <1>7, <1>8, <1>9, <1>10, <1>11, <1>13, <1>14, <1>15, <1>16, StepKeeps

LEMMA NotifyFailsStep ==
  ASSUME ConnectionsAssumption, ConnsInv, NEW p \in Caller, NotifyFails(p) PROVE ConnsInv'
<1>1. /\ connCall[p] # None /\ connCall[p].at = "notify" /\ ConnMove(p, None)
      /\ missed' = missed \cup Changed(p)
      /\ UNCHANGED <<limited, connCalls, stored, secrets, told, known, gone,
                     crossed, raced, crowded>>
  BY DEF NotifyFails, Frame, EndConn
<1>2. ConnTypes
  BY TypesHold
<1>3. /\ connCall' \in [Caller -> ConnCall \cup {None}] /\ connCall'[p] = None
      /\ \A q \in Caller \ {p} : connCall'[q] = connCall[q]
  BY <1>1, <1>2, ConnMoves
<1>4. Changed(p) \subseteq Targets(connCall[p]) /\ Targets(connCall[p]) \subseteq Conn
  BY <1>1, Calling
<1>5. ConnTypes'
  BY <1>1, <1>2, <1>3, <1>4 DEF ConnTypes
<1>6. StepOf(p)
  BY <1>1, <1>3, <1>4 DEF StepOf
<1>7. Follows(p)
  BY <1>3 DEF Follows
<1>8. SecretsOfOne'
  <2>1. \A x \in Conn : stored'[x] # None => Copy(x, stored'[x].secret)
    BY <1>1 DEF Copy
  <2>. QED
    BY <1>1, <1>3, <1>6, <2>1, SecretsStay
<1>9. LimitInv'
  <2>1. StoredConns' = StoredConns /\ IsFiniteSet(StoredConns)
    BY <1>1 DEF StoredConns, ConnsInv, LimitInv
  <2>. QED
    BY <1>3, <1>6, <1>7, <2>1, RoomStays
<1>10. ToldInv'
  <2>1. ASSUME NEW x \in Targets(connCall[p]), x \notin missed', x[2] \notin crossed
        PROVE  told'[x] = StateOf(x)' /\ ~Tells(p, x)'
    <3>1. StateOf(x)' = StateOf(x) /\ ~Tells(p, x)' /\ ~Tells(p, x)
      BY <1>1, <1>3, <2>1 DEF StateOf, EventOf, Tells
    <3>. QED
      BY <1>1, <2>1, <3>1, NoneElseTells
  <2>. QED
    BY <1>3, <1>6, <1>7, <2>1, ToldStays
<1>11. \A x \in Targets(connCall[p]) : x[2] \notin raced =>
         /\ known'[x] # 0 => stored'[x] # None /\ stored'[x].secret = known'[x]
         /\ x \in gone' => stored'[x] = None
         /\ stored'[x] = stored[x]
  BY <1>1, <1>4 DEF ConnsInv, SecretKept, DeletedIsGone
<1>. QED
  BY <1>3, <1>5, <1>6, <1>7, <1>8, <1>9, <1>10, <1>11, StepKeeps

LEMMA BeginConnStep ==
  ASSUME ConnectionsAssumption, ConnsInv, NEW p \in Caller, BeginConn(p) PROVE ConnsInv'
<1>1. PICK t \in Tenant :
        \/ \E i \in Idp : Arrive(p, "create", t, {i}, None) \/ Arrive(p, "delete", t, {i}, None)
        \/ \E i \in Idp, change \in {None, TRUE, FALSE} : Arrive(p, "update", t, {i}, change)
        \/ \E strategy \in {Saml, Idp \ Saml, Idp} : Arrive(p, "deleteAll", t, strategy, None)
  BY DEF BeginConn
<1>2. {"create", "update", "delete", "deleteAll"} = ConnOp
  BY DEF ConnOp
<1>3. ASSUME NEW i \in Idp, NEW op \in {"create", "delete", "update"},
             NEW change \in {None, TRUE, FALSE}, Arrive(p, op, t, {i}, change)
      PROVE  ConnsInv'
  <2>1. op \in ConnOp /\ {i} \in SUBSET Idp
    BY <1>2
  <2>. QED
    BY <1>3, <2>1, ArriveStep
<1>4. ASSUME NEW strategy \in {Saml, Idp \ Saml, Idp}, Arrive(p, "deleteAll", t, strategy, None)
      PROVE  ConnsInv'
  <2>1. strategy \in SUBSET Idp /\ "deleteAll" \in ConnOp
    BY <1>2 DEF ConnectionsAssumption
  <2>. QED
    BY <1>4, <2>1, ArriveStep
<1>. QED
  BY <1>1, <1>3, <1>4

LEMMA ConnsNextStep == ConnectionsAssumption /\ ConnsInv /\ ConnsNext => ConnsInv'
BY BeginConnStep, CheckLimitStep, CheckEntityIDStep, ReadExistingStep, ReadSavedStep,
   ReadDoomedStep, ListDoomedStep, PutConnStep, PutSavedConnStep, DeleteConnStep,
   NotifyStep, NotifyFailsStep, FailConnStep
DEF ConnsNext, Step

LEMMA ConnsStutter == ConnsInv /\ UNCHANGED connsVars => ConnsInv'
<1> SUFFICES ASSUME ConnsInv, UNCHANGED connsVars PROVE ConnsInv'
  OBVIOUS
<1>1. UNCHANGED <<limited, stored, connCall, connCalls, secrets, told, known, gone,
                  missed, crossed, raced, crowded>>
  BY DEF connsVars, history
<1>2. StoredConns' = StoredConns
  BY <1>1 DEF StoredConns
<1>3. \A p \in Caller : ConnAsked(p)' = ConnAsked(p) /\ ConnFits(p)' = ConnFits(p)
  BY <1>1, <1>2 DEF ConnAsked, ConnFits, CreateKeeps, UpdateKeeps, DeleteKeeps
<1>4. MeetingsNoted' /\ SecretsOfOne'
  BY <1>1 DEF ConnsInv, MeetingsNoted, Meets, SecretsOfOne, Copy
<1>5. LimitInv' /\ OneTenantUnlessRaced'
  BY <1>1, <1>2 DEF ConnsInv, LimitInv, OneTenantUnlessRaced, OneTenant
<1>6. ToldInv'
  BY <1>1 DEF ConnsInv, ToldInv, StateOf, EventOf, Tells, Changed
<1>. QED
  BY <1>1, <1>3, <1>4, <1>5, <1>6 DEF ConnsInv, ConnsTypeOK, SecretKept, DeletedIsGone

LEMMA ConnsInvariant == ASSUME ConnectionsAssumption PROVE ConnsSpec => []ConnsInv
<1>1. ConnsInit => ConnsInv
  BY ConnsInitInv
<1>2. ConnsInv /\ [ConnsNext]_connsVars => ConnsInv'
  BY ConnsNextStep, ConnsStutter
<1>. QED
  BY <1>1, <1>2, PTL DEF ConnsSpec

-----------------------------------------------------------------------------
\* The connections, the calls and the histories have their types, and no two
\* connections share a secret (npm/src/controller/connection/saml.ts:174).
THEOREM ConnsTyped == ASSUME ConnectionsAssumption PROVE ConnsSpec => []ConnsTypeOK
<1>1. ConnsInv => ConnsTypeOK
  BY DEF ConnsInv
<1>. QED
  BY <1>1, ConnsInvariant, PTL

\* The secret answered for a connection stays valid until its deletion is
\* asked for, and a deleted one stays away, except where calls raced
\* (connection/saml.ts:174, 330).
THEOREM AnswersKept == ASSUME ConnectionsAssumption PROVE ConnsSpec => []AnsweredIsKept
<1>1. ConnsInv => AnsweredIsKept
  BY DEF ConnsInv, AnsweredIsKept
<1>. QED
  BY <1>1, ConnsInvariant, PTL

\* The two checks of a creation hold later: one tenant per EntityID, and no
\* more connections than a product under development may have where the store
\* counts them (api.ts:238, connection/saml.ts:147, development-mode.ts:42).
THEOREM LimitsKept == ASSUME ConnectionsAssumption PROVE ConnsSpec => []CreatesKeepLimits
<1>1. ConnsInv => CreatesKeepLimits
  BY DEF ConnsInv, CreatesKeepLimits, LimitInv, LimitKept
<1>. QED
  BY <1>1, ConnsInvariant, PTL

\* With no call under way the webhook knows what is stored, where calls did not
\* overlap and none of its calls failed.
THEOREM WebhookKnows == ASSUME ConnectionsAssumption PROVE ConnsSpec => []WebhookFollows
<1>1. ASSUME ConnsInv PROVE WebhookFollows
  <2> SUFFICES ASSUME NEW c \in Conn \ missed, c[2] \notin crossed,
                      \A p \in Caller : connCall[p] # None => c[2] \notin connCall[p].on
               PROVE  told[c] = StateOf(c)
    BY DEF WebhookFollows, StateOf
  <2>1. ASSUME NEW p \in Caller, Tells(p, c) PROVE FALSE
    <3>1. connCall[p] # None /\ connCall[p].now \subseteq connCall[p].on
      BY <1>1, <2>1 DEF Tells, ConnsInv, ConnAsked
    <3>. QED
      BY <2>1, <3>1 DEF Tells, Changed
  <2>. QED
    BY <1>1, <2>1 DEF ConnsInv, ToldInv
<1>. QED
  BY <1>1, ConnsInvariant, PTL
==============================================================================
