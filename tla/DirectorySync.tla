--------------------------- MODULE DirectorySync ---------------------------
(***************************************************************************)
(* SCIM requests on users, groups and memberships (directory-sync/scim)    *)
(* and the deletion of a directory, each a run of handlers that share the  *)
(* controllers Users and Groups with all other requests.  A step is what   *)
(* lies between two requests to the store.                                 *)
(*                                                                         *)
(* Users and groups are resources with a label, the email or display name, *)
(* by which a create looks for one that exists.  The webhook is followed   *)
(* by the picture it gets from the events.                                 *)
(***************************************************************************)
EXTENDS Absence, Naturals, FiniteSets

CONSTANTS
  Directory, Tenant, User, Group, Label, Slot,
  TenantOf,   \* TenantOf[d]: tenant and product of directory d
  Deletable,  \* directories an administrator may delete (a bound)
  PageLimit   \* records the store gives at a time

Resource == User \cup Group
Store == {"users", "groups"}

VARIABLES
  tenant,  \* the tenant set in each controller, shared by all requests
  dir,     \* state of each directory
  rec,     \* rec[t][x]: label and index entry of x under tenant t, or None
  member,  \* membership records: tenant, group, user
  home,    \* history: the directory that gave resource x its id, or None
  told,    \* told[x]: the label the webhook knows of x, or None
  links,   \* memberships the webhook knows
  pc,      \* where each request is
  req,     \* what it asks for
  page,    \* records it has read and is about to delete, or the member at hand
  todo,    \* deleted groups whose memberships are left to delete
  quiet    \* history: directories deleted while no request was under way

requestVars == <<pc, req, page, todo>>
webhookVars == <<told, links>>
vars == <<tenant, dir, rec, member, home, webhookVars, requestVars, quiet>>

IdOps == {"update", "delete", "add", "remove"}
Entry == [label : Label, index : (Directory \X Label) \cup {None}]
Request == [op : {"create", "drop"} \cup IdOps, dir : Directory, in : Store,
            x : Resource \cup {None}, label : Label \cup {None},
            who : SUBSET User]

ASSUME SyncAssumption ==
  /\ TenantOf \in [Directory -> Tenant]
  /\ User \cap Group = {} /\ Resource \cap (Group \X User) = {}
  /\ None \notin Resource \cup Label \cup Tenant \cup Directory
  /\ None \notin Entry \cup Request \cup (Directory \X Label)
  /\ PageLimit \in Nat \ {0}
  /\ Deletable \subseteq Directory

TypeOK ==
  /\ tenant \in [Store -> Tenant \cup {None}]
  /\ dir \in [Directory -> {"active", "inactive", "gone"}]
  /\ rec \in [Tenant -> [Resource -> Entry \cup {None}]]
  /\ member \subseteq Tenant \X Group \X User
  /\ home \in [Resource -> Directory \cup {None}]
  /\ told \in [Resource -> Label \cup {None}]
  /\ links \subseteq Group \X User
  /\ pc \in [Slot -> {"idle", "lookup", "put", "check", "delete", "purge",
                      "unlink", "member", "link", "whom", "event", "config",
                      "groups", "groupPage", "users", "userPage"}]
  /\ req \in [Slot -> Request \cup {None}]
  /\ page \in [Slot -> SUBSET Resource]
  /\ todo \in [Slot -> SUBSET Group]
  /\ quiet \subseteq Directory
  /\ \A s \in Slot : (pc[s] = "idle") <=> (req[s] = None)
  /\ \A s \in Slot : pc[s] = "idle" => page[s] = {} /\ todo[s] = {}

Init ==
  /\ tenant = [c \in Store |-> None]
  /\ dir = [d \in Directory |-> "active"]
  /\ rec = [t \in Tenant |-> [x \in Resource |-> None]]
  /\ member = {}
  /\ home = [x \in Resource |-> None]
  /\ told = [x \in Resource |-> None]
  /\ links = {}
  /\ pc = [s \in Slot |-> "idle"]
  /\ req = [s \in Slot |-> None]
  /\ page = [s \in Slot |-> {}]
  /\ todo = [s \in Slot |-> {}]
  /\ quiet = {}

-----------------------------------------------------------------------------
StoreOf(x) == IF x \in User THEN "users" ELSE "groups"
InStore(c) == IF c = "users" THEN User ELSE Group

\* What the controllers read now: their tenant's record of x.
Found(x) == rec[tenant[StoreOf(x)]][x]

SetRec(x, entry) == rec' = [rec EXCEPT ![tenant[StoreOf(x)]][x] = entry]

Goto(s, where) ==
  /\ pc' = [pc EXCEPT ![s] = where]
  /\ UNCHANGED <<req, page, todo>>

Answer_KeepsPage(s) ==
  /\ pc' = [pc EXCEPT ![s] = "idle"]
  /\ req' = [req EXCEPT ![s] = None]
  /\ todo' = [todo EXCEPT ![s] = {}]
  /\ UNCHANGED page

\* The request is answered.
Answer(s) ==
  /\ pc' = [pc EXCEPT ![s] = "idle"]
  /\ req' = [req EXCEPT ![s] = None]
  /\ page' = [page EXCEPT ![s] = {}]
  /\ todo' = [todo EXCEPT ![s] = {}]

\* setTenantAndProduct: a request on groups sets both controllers.
SetTenant(s) ==
  tenant' = [c \in Store |->
    IF c = "users" \/ req[s].in = "groups" THEN TenantOf[req[s].dir]
                                           ELSE tenant[c]]

\* getByIndex gives at most a page; which records come first is the store's
\* choice.
PageOf(S, p) ==
  /\ p \subseteq S
  /\ Cardinality(p) = IF Cardinality(S) < PageLimit THEN Cardinality(S)
                                                    ELSE PageLimit

-----------------------------------------------------------------------------
\* What a request is about.  A provider waits for the answer before it sends
\* another request on the same user or group; on others it need not.
Touches(r) == {r.x} \cup r.who
Busy == UNION {Touches(req[s]) : s \in {s \in Slot : pc[s] # "idle"}}

Asking(op, d, c, x, label, who) ==
  [op |-> op, dir |-> d, in |-> c, x |-> x, label |-> label, who |-> who]

\* A provider asks to create, or names ids that it was given before.
Given(d, S) == {x \in S : home[x] = d}

Creates(d) == {Asking("create", d, c, None, l, {}) : c \in Store, l \in Label}

Edits(d, x) ==
  {Asking("update", d, StoreOf(x), x, l, {}) : l \in Label}
    \cup {Asking("delete", d, StoreOf(x), x, None, {})}

Memberships(d) ==
  {Asking(op, d, "groups", g, None, who) :
     op \in {"add", "remove"}, g \in Given(d, Group),
     who \in (SUBSET Given(d, User)) \ {{}}}

Requests(d) ==
  Creates(d) \cup Memberships(d) \cup UNION {Edits(d, x) : x \in Given(d, Resource)}

\* handleRequest: the directory exists, is active and the secret is its own.
Start(s) ==
  /\ pc[s] = "idle"
  /\ \E d \in Directory : \E r \in Requests(d) :
       /\ dir[d] = "active"
       /\ (Touches(r) \ {None}) \cap Busy = {}
       /\ req' = [req EXCEPT ![s] = r]
  /\ pc' = [pc EXCEPT ![s] = "lookup"]
  /\ UNCHANGED <<tenant, dir, rec, member, home, webhookVars, page, todo, quiet>>

\* It sets the tenant and looks for the resource by its id ...
Lookup(s) ==
  /\ pc[s] = "lookup" /\ req[s].op \in IdOps
  /\ SetTenant(s)
  /\ IF rec[TenantOf[req[s].dir]][req[s].x] = None
       THEN Answer(s)
       ELSE Goto(s, CASE req[s].op = "update" -> "put"
                      [] req[s].op = "delete" -> "check"
                      [] OTHER -> "member")
  /\ UNCHANGED <<dir, rec, member, home, webhookVars, quiet>>

\* ... or, before a create, by the label under which it was created.
Search(s) ==
  /\ pc[s] = "lookup" /\ req[s].op = "create"
  /\ SetTenant(s)
  /\ IF \E x \in InStore(req[s].in) :
          LET e == rec[TenantOf[req[s].dir]][x] IN
            e # None /\ e.index = <<req[s].dir, req[s].label>>
       THEN Answer(s)
       ELSE Goto(s, "put")
  /\ UNCHANGED <<dir, rec, member, home, webhookVars, quiet>>

\* A create puts a record with its indexes under a new id.
PutNew(s) ==
  /\ pc[s] = "put" /\ req[s].op = "create"
  /\ \E x \in InStore(req[s].in) :
       /\ home[x] = None
       /\ home' = [home EXCEPT ![x] = req[s].dir]
       /\ req' = [req EXCEPT ![s].x = x]
       /\ SetRec(x, [label |-> req[s].label,
                     index |-> <<req[s].dir, req[s].label>>])
  /\ pc' = [pc EXCEPT ![s] = "event"]
  /\ UNCHANGED <<tenant, dir, member, webhookVars, page, todo, quiet>>

\* An update puts the record without indexes: they stay as they were, and a
\* record that is no longer there comes back with none.
PutAgain(s) ==
  /\ pc[s] = "put" /\ req[s].op = "update"
  /\ LET x == req[s].x IN
       SetRec(x, [label |-> req[s].label,
                  index |-> IF Found(x) = None THEN None ELSE Found(x).index])
  /\ Goto(s, "event")
  /\ UNCHANGED <<tenant, dir, member, home, webhookVars, quiet>>

\* Users.delete and Groups.delete look once more; what fails here is not
\* reported, and the event is sent in any case.
Check(s) ==
  /\ pc[s] = "check"
  /\ Goto(s, IF Found(req[s].x) = None THEN "event" ELSE "delete")
  /\ UNCHANGED <<tenant, dir, rec, member, home, webhookVars, quiet>>

Delete_Quietly(s) ==
  /\ pc[s] = "delete"
  /\ SetRec(req[s].x, None)
  /\ IF req[s].x \in User
       THEN Answer(s)
       ELSE /\ pc' = [pc EXCEPT ![s] = "purge"]
            /\ todo' = [todo EXCEPT ![s] = {req[s].x}]
            /\ UNCHANGED <<req, page>>
  /\ UNCHANGED <<tenant, dir, member, home, webhookVars, quiet>>

Delete(s) ==
  /\ pc[s] = "delete"
  /\ SetRec(req[s].x, None)
  /\ IF req[s].x \in User
       THEN Goto(s, "event")
       ELSE /\ pc' = [pc EXCEPT ![s] = "purge"]
            /\ todo' = [todo EXCEPT ![s] = {req[s].x}]
            /\ UNCHANGED <<req, page>>
  /\ UNCHANGED <<tenant, dir, member, home, webhookVars, quiet>>

\* removeAllUsers: page by page, the memberships of each deleted group.
MembersOf(g) == {u \in User : <<tenant["groups"], g, u>> \in member}

Purge(s) ==
  /\ pc[s] = "purge"
  /\ \E g \in todo[s] :
       IF MembersOf(g) = {}
         THEN /\ todo' = [todo EXCEPT ![s] = @ \ {g}]
              /\ pc' = [pc EXCEPT ![s] =
                   IF todo[s] # {g} THEN "purge"
                   ELSE IF req[s].op = "drop" THEN "groups" ELSE "event"]
              /\ UNCHANGED page
         ELSE /\ \E p \in SUBSET User : /\ PageOf(MembersOf(g), p)
                                        /\ page' = [page EXCEPT ![s] = p \cup {g}]
              /\ pc' = [pc EXCEPT ![s] = "unlink"]
              /\ UNCHANGED todo
  /\ UNCHANGED <<tenant, dir, rec, member, home, webhookVars, req, quiet>>

Unlink_OnePage(s) ==
  /\ pc[s] = "unlink" /\ req[s].op = "delete"
  /\ member' = member \ ({tenant["groups"]} \X (page[s] \cap Group)
                                            \X (page[s] \cap User))
  /\ page' = [page EXCEPT ![s] = {}]
  /\ pc' = [pc EXCEPT ![s] = "event"]
  /\ UNCHANGED <<tenant, dir, rec, home, webhookVars, req, todo, quiet>>

Unlink(s) ==
  /\ pc[s] = "unlink"
  /\ member' = member \ ({tenant["groups"]} \X (page[s] \cap Group)
                                            \X (page[s] \cap User))
  /\ page' = [page EXCEPT ![s] = {}]
  /\ pc' = [pc EXCEPT ![s] = "purge"]
  /\ UNCHANGED <<tenant, dir, rec, home, webhookVars, req, todo, quiet>>

-----------------------------------------------------------------------------
\* addGroupMembers and removeGroupMembers take one member after another.
TakeMember(s) ==
  /\ pc[s] = "member"
  /\ \E u \in req[s].who :
       /\ page' = [page EXCEPT ![s] = {u}]
       /\ pc' = [pc EXCEPT ![s] =
            IF req[s].op = "add" /\ u \in MembersOf(req[s].x)
              THEN "whom" ELSE "link"]
  /\ UNCHANGED <<tenant, dir, rec, member, home, webhookVars, req, todo, quiet>>

Link(s) ==
  /\ pc[s] = "link"
  /\ LET records == {tenant["groups"]} \X {req[s].x} \X page[s] IN
       member' = IF req[s].op = "add" THEN member \cup records
                                      ELSE member \ records
  /\ Goto(s, "whom")
  /\ UNCHANGED <<tenant, dir, rec, home, webhookVars, quiet>>

\* The request goes on with the next member, or is answered.
NextMember(s) ==
  IF req[s].op \in {"add", "remove"} /\ req[s].who # page[s]
    THEN /\ pc' = [pc EXCEPT ![s] = "member"]
         /\ req' = [req EXCEPT ![s].who = @ \ page[s]]
         /\ page' = [page EXCEPT ![s] = {}]
         /\ UNCHANGED todo
    ELSE Answer(s)

\* The user is read for the event.  Without one there is no event, or one
\* that says nothing.
Whom(s) ==
  /\ pc[s] = "whom"
  /\ IF \E u \in page[s] : Found(u) = None
       THEN NextMember(s) ELSE Goto(s, "event")
  /\ UNCHANGED <<tenant, dir, rec, member, home, webhookVars, quiet>>

\* The event reaches the webhook, in order (EventQueue).
Event(s) ==
  /\ pc[s] = "event" /\ dir[req[s].dir] # "gone"
  /\ LET r == req[s] IN
       /\ told' = IF r.op \in {"add", "remove"} THEN told
                  ELSE [told EXCEPT ![r.x] = r.label]
       /\ links' = CASE r.op = "add" -> links \cup ({r.x} \X page[s])
                     [] r.op = "remove" -> links \ ({r.x} \X page[s])
                     [] r.op = "delete" ->
                          {p \in links : r.x \notin {p[1], p[2]}}
                     [] OTHER -> links
  /\ NextMember(s)
  /\ UNCHANGED <<tenant, dir, rec, member, home, quiet>>

\* For a directory that is gone the callback throws and the request fails.
NoEvent(s) ==
  /\ pc[s] = "event" /\ dir[req[s].dir] = "gone"
  /\ Answer(s)
  /\ UNCHANGED <<tenant, dir, rec, member, home, webhookVars, quiet>>

-----------------------------------------------------------------------------
\* DirectoryConfig.update with deactivated set or reset.
Deactivate(d) ==
  /\ d \in Deletable /\ dir[d] # "gone"
  /\ dir' = [dir EXCEPT ![d] = IF @ = "active" THEN "inactive" ELSE "active"]
  /\ UNCHANGED <<tenant, rec, member, home, webhookVars, requestVars, quiet>>

\* DirectoryConfig.delete reads the directory, deletes its record, ...
StartDrop(s) ==
  /\ pc[s] = "idle"
  /\ \E d \in Deletable :
       /\ dir[d] # "gone"
       /\ req' = [req EXCEPT ![s] = Asking("drop", d, "groups", None, None, {})]
  /\ pc' = [pc EXCEPT ![s] = "config"]
  /\ UNCHANGED <<tenant, dir, rec, member, home, webhookVars, page, todo, quiet>>

UnderWay(s, d) ==
  \E r \in Slot \ {s} : pc[r] # "idle" /\ req[r].dir = d

DropConfig(s) ==
  /\ pc[s] = "config"
  /\ LET d == req[s].dir IN
       /\ dir' = [dir EXCEPT ![d] = "gone"]
       /\ quiet' = IF UnderWay(s, d) \/ dir[d] = "gone" THEN quiet
                                                        ELSE quiet \cup {d}
       /\ tenant' = [tenant EXCEPT !["groups"] = TenantOf[d]]
  /\ Goto(s, "groups")
  /\ UNCHANGED <<rec, member, home, webhookVars>>

\* ... then page by page its groups with their memberships, and its users,
\* found by the index on the directory.
Listed(d, c) ==
  {x \in InStore(c) : /\ Found(x) # None
                      /\ Found(x).index # None
                      /\ Found(x).index[1] = d}

DropGroups(s) ==
  /\ pc[s] = "groups"
  /\ IF Listed(req[s].dir, "groups") = {}
       THEN /\ tenant' = [tenant EXCEPT !["users"] = TenantOf[req[s].dir]]
            /\ Goto(s, "users")
       ELSE /\ \E p \in SUBSET Group :
                 /\ PageOf(Listed(req[s].dir, "groups"), p)
                 /\ page' = [page EXCEPT ![s] = p]
            /\ pc' = [pc EXCEPT ![s] = "groupPage"]
            /\ UNCHANGED <<tenant, req, todo>>
  /\ UNCHANGED <<dir, rec, member, home, webhookVars, quiet>>

DropUsers(s) ==
  /\ pc[s] = "users"
  /\ IF Listed(req[s].dir, "users") = {}
       THEN Answer(s)
       ELSE /\ \E p \in SUBSET User :
                 /\ PageOf(Listed(req[s].dir, "users"), p)
                 /\ page' = [page EXCEPT ![s] = p]
            /\ pc' = [pc EXCEPT ![s] = "userPage"]
            /\ UNCHANGED <<req, todo>>
  /\ UNCHANGED <<tenant, dir, rec, member, home, webhookVars, quiet>>

DropPage_Once(s) ==
  /\ pc[s] \in {"groupPage", "userPage"}
  /\ LET c == IF pc[s] = "userPage" THEN "users" ELSE "groups" IN
       rec' = [rec EXCEPT ![tenant[c]] =
                 [x \in Resource |-> IF x \in page[s] THEN None ELSE @[x]]]
  /\ IF pc[s] = "userPage" THEN Answer(s)
       ELSE /\ todo' = [todo EXCEPT ![s] = page[s]]
            /\ pc' = [pc EXCEPT ![s] = "purge"]
            /\ page' = [page EXCEPT ![s] = {}]
            /\ UNCHANGED req
  /\ UNCHANGED <<tenant, dir, member, home, webhookVars, quiet>>

\* deleteMany.
DropPage(s) ==
  /\ pc[s] \in {"groupPage", "userPage"}
  /\ LET c == IF pc[s] = "userPage" THEN "users" ELSE "groups" IN
       rec' = [rec EXCEPT ![tenant[c]] =
                 [x \in Resource |-> IF x \in page[s] THEN None ELSE @[x]]]
  /\ IF pc[s] = "groupPage"
       THEN /\ todo' = [todo EXCEPT ![s] = page[s]]
            /\ pc' = [pc EXCEPT ![s] = "purge"]
       ELSE /\ pc' = [pc EXCEPT ![s] = "users"]
            /\ UNCHANGED todo
  /\ page' = [page EXCEPT ![s] = {}]
  /\ UNCHANGED <<tenant, dir, member, home, webhookVars, req, quiet>>

-----------------------------------------------------------------------------
Step(s) ==
  \/ Lookup(s) \/ Search(s) \/ PutNew(s) \/ PutAgain(s) \/ Check(s)
  \/ Delete(s) \/ Purge(s) \/ Unlink(s) \/ TakeMember(s) \/ Link(s)
  \/ Whom(s) \/ Event(s) \/ NoEvent(s)
  \/ DropConfig(s) \/ DropGroups(s) \/ DropUsers(s) \/ DropPage(s)

Next ==
  \/ \E s \in Slot : Start(s) \/ StartDrop(s) \/ Step(s)
  \/ \E d \in Directory : Deactivate(d)

Spec == Init /\ [][Next]_vars

-----------------------------------------------------------------------------
\* The items of the feed, and what store and webhook hold of them.  While a
\* user is gone its memberships say nothing.
Item == Resource \cup (Group \X User)
Own(x) == IF home[x] = None THEN None ELSE rec[TenantOf[home[x]]][x]

Content == [i \in Item |->
  IF i \in Resource THEN IF Own(i) = None THEN None ELSE Own(i).label
  ELSE IF /\ Own(i[1]) # None /\ Own(i[2]) # None
          /\ <<TenantOf[home[i[1]]], i[1], i[2]>> \in member THEN "in" ELSE None]

Told == [i \in Item |->
  IF i \in Resource THEN told[i] ELSE IF i \in links THEN "in" ELSE None]

Living(x) == home[x] = None \/ dir[home[x]] # "gone"
Open == {i \in Item : IF i \in Resource THEN Living(i)
                      ELSE Living(i[1]) /\ Living(i[2])}

Concerned == {i \in Item : IF i \in Resource THEN i \in Busy
                           ELSE i[1] \in Busy \/ i[2] \in Busy}

(***************************************************************************)
(* The webhook follows the store: each user, group and membership is told  *)
(* as it is, every change before the next one of the same item, although   *)
(* requests on different ones overlap, and is known as it is once they are *)
(* answered (DirectoryUsers.ts:33-133, DirectoryGroups.ts:37-226,          *)
(* Groups.ts:173-188).                                                     *)
(***************************************************************************)
Feed == INSTANCE DirectoryFeed
  WITH Value <- Label \cup {"in", None}, content <- Content, told <- Told,
       busy <- Concerned, open <- Open
WebhookFollowsStore == Feed!Spec

(***************************************************************************)
(* No membership outlives its group, unless a request on the group or the  *)
(* deletion of its directory is under way (Groups.ts:173-188, 376-393).    *)
(***************************************************************************)
MembersHaveGroup ==
  \A m \in member :
    m[2] \notin Busy /\ dir[home[m[2]]] # "gone" => rec[m[1]][m[2]] # None

(***************************************************************************)
(* A directory deleted while none of its requests was under way leaves no  *)
(* record behind, although requests keep coming during the deletion        *)
(* (DirectoryConfig.ts:595-629).                                           *)
(***************************************************************************)
Dropping(d) == \E s \in Slot : pc[s] # "idle" /\ req[s].op = "drop" /\ req[s].dir = d

NothingLeftBehind ==
  \A d \in quiet : ~Dropping(d) =>
    /\ \A t \in Tenant, x \in Resource : home[x] = d => rec[t][x] = None
    /\ \A m \in member : home[m[2]] # d

(***************************************************************************)
(* "Get users from a directory" (Users.ts:172): a user that the webhook of *)
(* a directory knows, and that no request is busy with, is listed under    *)
(* the directory's tenant and product.                                     *)
(***************************************************************************)
UsersListed ==
  \A u \in User :
    told[u] # None /\ u \notin Busy /\ Living(u) =>
      Own(u) # None /\ Own(u).index # None
=============================================================================
