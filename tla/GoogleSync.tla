------------------------------ MODULE GoogleSync ------------------------------
(***************************************************************************)
(* The periodic sync of a directory with Google Workspace                  *)
(* (npm/src/directory-sync/non-scim): all users, then all groups, then the *)
(* members of each group are fetched and compared with the store, and the  *)
(* differences become SCIM requests.  Syncs start by a timer or by a call, *)
(* in several processes; Google changes meanwhile.  A step is a request to *)
(* Google or the store, or one SCIM request (whose own steps are those of  *)
(* DirectorySync).  Users and groups are items with a label, the email or  *)
(* the name.                                                               *)
(***************************************************************************)
EXTENDS Absence, Deployment, Naturals, FiniteSets

CONSTANTS
  User, Group, Label, Sync,
  HostOf,      \* HostOf[s]: the process sync s runs in
  Rank,        \* the order in which Google lists items
  PageLimit,   \* records the store gives at a time
  Renames,     \* may labels of items change in Google?
  Faults,      \* what may fail
  MaxChanges, MaxFaults   \* changes in Google and failures (bounds)

Item == User \cup Group

\* What is assumed of the constants, by the modules that instantiate this one.
GoogleAssumption ==
  /\ User \cap Group = {} /\ None \notin Item \cup Label \cup Process
  /\ HostOf \in [Sync -> Process] /\ Rank \in [Item -> Nat]
  /\ \A x, y \in Item : Rank[x] = Rank[y] => x = y
  /\ PageLimit \in Nat \ {0} /\ Renames \in BOOLEAN
  /\ Faults \subseteq {"google", "store", "crash", "lock", "release"}
  /\ MaxChanges \in Nat /\ MaxFaults \in Nat

VARIABLES
  google,    \* what Google holds: labels of items, members of groups
  label,     \* the store: the label of each item, or None,
  entry,     \* the index of labels,
  member,    \* and the members of groups
  lock,      \* the process named in the lock, None, or one that is gone
  running,   \* isJobRunning of each process
  sync,      \* where each sync is and what it knows
  changes, faults,  \* numbers of changes and failures
  absent,    \* history: items that Google lacked at a time since the sync began
  clean      \* history: may the sync's result be compared?

store == <<label, entry, member>>
googleVars == <<google, store, lock, running, sync, changes, faults, absent, clean>>

Contents == [label : [Item -> Label \cup {None}], member : SUBSET (Group \X User)]
Phase == {"idle", "acquire", "fetch", "compare", "post", "put", "list", "drop",
          "members", "theirs", "remove", "add", "release"}
SyncState == [at : Phase, in : {"users", "groups"},
  seen : SUBSET Item,            \* items fetched
  item : Item \cup {None},       \* the one at hand, with its label in Google
  name : Label \cup {None},
  doomed : SUBSET Item,          \* those to delete
  mine : SUBSET User,            \* members of the group at hand in the store
  theirs : SUBSET User]          \* and in Google

Idle == [at |-> "idle", in |-> "users", seen |-> {}, item |-> None, name |-> None,
         doomed |-> {}, mine |-> {}, theirs |-> {}]

GoogleTypeOK ==
  /\ google \in Contents
  /\ label \in [Item -> Label \cup {None}]
  /\ entry \subseteq Label \X Item /\ member \subseteq Group \X User
  /\ \A e \in entry : label[e[2]] # None
  /\ \A m \in member : label[m[1]] # None
  /\ lock \in Process \cup {None, "gone"} /\ running \in [Process -> BOOLEAN]
  /\ sync \in [Sync -> SyncState]
  /\ changes \in 0..MaxChanges /\ faults \in 0..MaxFaults
  /\ absent \in [Sync -> SUBSET Item] /\ clean \in [Sync -> BOOLEAN]

SameKind(x, y) == (x \in User) = (y \in User)

\* What Google may hold: no two users or groups have the same label.
Sound(contents) ==
  /\ \A x, y \in Item :
       x # y /\ contents.label[x] = contents.label[y] /\ SameKind(x, y) => contents.label[x] = None
  /\ \A m \in contents.member : contents.label[m[1]] # None /\ contents.label[m[2]] # None

GoogleInit ==
  /\ google \in {contents \in Contents : Sound(contents)}
  /\ label = [x \in Item |-> None] /\ entry = {} /\ member = {}
  /\ lock = None /\ running = [i \in Process |-> FALSE]
  /\ sync = [s \in Sync |-> Idle]
  /\ changes = 0 /\ faults = 0
  /\ absent = [s \in Sync |-> {}] /\ clean = [s \in Sync |-> TRUE]

-----------------------------------------------------------------------------
OfKind(s) == IF sync[s].in = "users" THEN User ELSE Group
Move(s, state) == sync' = [sync EXCEPT ![s] = state]
Goto(s, phase) == Move(s, [sync[s] EXCEPT !.at = phase])
Ask == UNCHANGED <<google, store, lock, running, changes, faults, absent, clean>>
Working == {s \in Sync : sync[s].at \notin {"idle", "acquire"}}

\* The timer or a call of the route.
StartSync(s) ==
  /\ sync[s].at = "idle" /\ ~running[HostOf[s]]
  /\ Goto(s, "acquire") /\ Ask

\* The lock is granted if it is free or this process's.
Acquire(s) ==
  /\ sync[s].at = "acquire"
  /\ IF lock \in {None, HostOf[s]}
     THEN /\ lock' = HostOf[s]
          /\ running' = [running EXCEPT ![HostOf[s]] = TRUE]
          /\ Goto(s, "fetch")
          /\ absent' = [absent EXCEPT ![s] = {x \in Item : google.label[x] = None}]
          /\ clean' = [r \in Sync |-> IF r = s THEN Working = {} ELSE clean[r] /\ r \notin Working]
     ELSE Goto(s, "idle") /\ UNCHANGED <<lock, running, absent, clean>>
  /\ UNCHANGED <<google, store, changes, faults>>

\* The items that Google still has to give, the next one, and its end.
Ahead(s) == {x \in OfKind(s) : google.label[x] # None /\ \A y \in sync[s].seen \cap OfKind(s) : Rank[y] < Rank[x]}
Next1(s) == CHOOSE x \in Ahead(s) : \A y \in Ahead(s) : Rank[x] <= Rank[y]

\* getUsers and getGroups, page by page (one item each).
Fetch(s) ==
  /\ sync[s].at = "fetch"
  /\ IF Ahead(s) = {} THEN Goto(s, "list")
     ELSE LET next == Next1(s)
          IN Move(s, [sync[s] EXCEPT !.at = "compare", !.item = next, !.name = google.label[next],
                                     !.seen = @ \cup {next}])
  /\ Ask

\* The store is asked for the item.
Compare(s) ==
  /\ sync[s].at = "compare"
  /\ Goto(s, IF label[sync[s].item] = sync[s].name THEN "fetch"
             ELSE IF label[sync[s].item] = None THEN "post" ELSE "put")
  /\ Ask

\* POST: refused where the label is found in the index.
Post(s) ==
  LET item == sync[s].item
      l == sync[s].name
  IN /\ sync[s].at = "post" /\ Goto(s, "fetch")
     /\ IF \E y \in OfKind(s) : <<l, y>> \in entry
        THEN UNCHANGED store /\ clean' = [clean EXCEPT ![s] = FALSE]
        ELSE /\ label' = [label EXCEPT ![item] = l]
             /\ entry' = entry \cup {<<l, item>>}
             /\ UNCHANGED <<member, clean>>
     /\ UNCHANGED <<google, lock, running, changes, faults, absent>>

\* PUT of an item that is still there.  It is written without indexes, so
\* it is still found by its old label only.
PutItem(s) ==
  LET item == sync[s].item
  IN /\ sync[s].at = "put" /\ Goto(s, "fetch")
     /\ label' = IF label[item] = None THEN label ELSE [label EXCEPT ![item] = sync[s].name]
     /\ UNCHANGED <<google, entry, member, lock, running, changes, faults, absent, clean>>

\* getAllExistingUsers and -Groups ask for 500 at a time and stop when they
\* get fewer, which they do when the store gives fewer at a time.
PageOf(all, page) ==
  page \subseteq all /\ Cardinality(page) = IF Cardinality(all) < PageLimit THEN Cardinality(all) ELSE PageLimit

List(s) ==
  /\ sync[s].at = "list"
  /\ \E page \in SUBSET OfKind(s) :
       /\ PageOf({x \in OfKind(s) : label[x] # None}, page)
       /\ Move(s, [sync[s] EXCEPT !.at = "drop", !.doomed = page \ sync[s].seen])
  /\ Ask

\* DELETE of one item after the other; the members of a group go with it.
Drop(s) ==
  /\ sync[s].at = "drop" /\ sync[s].doomed # {}
  /\ \E x \in sync[s].doomed :
       /\ label' = [label EXCEPT ![x] = None]
       /\ entry' = {e \in entry : e[2] # x}
       /\ member' = {m \in member : m[1] # x}
       /\ Move(s, [sync[s] EXCEPT !.doomed = @ \ {x}])
  /\ UNCHANGED <<google, lock, running, changes, faults, absent, clean>>

\* On to the groups, and then to their members.
Dropped(s) ==
  /\ sync[s].at = "drop" /\ sync[s].doomed = {}
  /\ Move(s, IF sync[s].in = "users" THEN [sync[s] EXCEPT !.in = "groups", !.at = "fetch"]
             ELSE [sync[s] EXCEPT !.at = "members", !.seen = @ \ Group])
  /\ Ask

\* The next group; the members that the store has (at most a page), ...
Members(s) ==
  /\ sync[s].at = "members"
  /\ IF Ahead(s) = {} THEN Goto(s, "release")
     ELSE LET g == Next1(s)
          IN \E page \in SUBSET User :
               /\ PageOf({u \in User : <<g, u>> \in member}, page)
               /\ Move(s, [sync[s] EXCEPT !.at = "theirs", !.item = g, !.mine = page,
                                          !.seen = @ \cup {g}])
  /\ Ask

\* ... and those that Google has.
Theirs(s) ==
  /\ sync[s].at = "theirs"
  /\ Move(s, [sync[s] EXCEPT !.at = "remove",
                !.theirs = {u \in User : <<sync[s].item, u>> \in google.member}])
  /\ Ask

\* PATCH of a group, or nothing if the store does not have it.
Patch(s, members) ==
  member' = IF label[sync[s].item] = None THEN member ELSE members

RemoveMembers_Swapped(s) ==
  /\ sync[s].at = "remove"
  /\ Patch(s, member \ ({sync[s].item} \X (sync[s].theirs \ sync[s].mine)))
  /\ Goto(s, "add")
  /\ UNCHANGED <<google, label, entry, lock, running, changes, faults, absent, clean>>

RemoveMembers(s) ==
  /\ sync[s].at = "remove"
  /\ Patch(s, member \ ({sync[s].item} \X (sync[s].mine \ sync[s].theirs)))
  /\ Goto(s, "add")
  /\ UNCHANGED <<google, label, entry, lock, running, changes, faults, absent, clean>>

AddMembers(s) ==
  /\ sync[s].at = "add"
  /\ Patch(s, member \cup ({sync[s].item} \X (sync[s].theirs \ sync[s].mine)))
  /\ Goto(s, "members")
  /\ UNCHANGED <<google, label, entry, lock, running, changes, faults, absent, clean>>

Free(s) == IF lock = HostOf[s] THEN None ELSE lock

Release_KeepsRunning(s) ==
  /\ sync[s].at = "release"
  /\ lock' = Free(s)
  /\ Move(s, Idle)
  /\ UNCHANGED <<google, store, running, changes, faults, absent, clean>>

Release(s) ==
  /\ sync[s].at = "release"
  /\ lock' = Free(s)
  /\ running' = [running EXCEPT ![HostOf[s]] = FALSE]
  /\ Move(s, Idle)
  /\ UNCHANGED <<google, store, changes, faults, absent, clean>>

-----------------------------------------------------------------------------
Fault(kind) == kind \in Faults /\ faults < MaxFaults /\ faults' = faults + 1

\* A request to Google fails, and with it the whole sync.
GoogleFails_Partly(s) ==
  /\ Fault("google") /\ sync[s].at \in {"fetch", "members", "theirs"}
  /\ Goto(s, IF sync[s].at = "fetch" THEN "list" ELSE "release")
  /\ clean' = [clean EXCEPT ![s] = FALSE]
  /\ UNCHANGED <<google, store, lock, running, changes, absent>>

GoogleFails(s) ==
  /\ Fault("google") /\ sync[s].at \in {"fetch", "members", "theirs"}
  /\ Goto(s, "release")
  /\ clean' = [clean EXCEPT ![s] = FALSE]
  /\ UNCHANGED <<google, store, lock, running, changes, absent>>

\* A request to the store fails.  A failed read of a record looks like a missing
\* one, so a PATCH of its group is left out.  A failed write of a user is passed
\* over; that of a group or of its members is thrown, and ends the sync.
StoreFails(s) ==
  /\ Fault("store")
  /\ \/ sync[s].at = "compare" /\ Goto(s, "post")
     \/ sync[s].at = "list" /\ Goto(s, "drop")
     \/ sync[s].at = "theirs" /\ Move(s, [sync[s] EXCEPT !.mine = {}])
     \/ sync[s].at = "post" /\ Goto(s, "fetch")
     \/ sync[s].at = "put" /\ Goto(s, IF sync[s].in = "users" THEN "fetch" ELSE "release")
     \/ /\ sync[s].at = "drop"
        /\ \E x \in sync[s].doomed : Move(s, [sync[s] EXCEPT !.doomed = @ \ {x}])
     \/ sync[s].at = "remove" /\ Goto(s, "add")
     \/ sync[s].at = "add" /\ Goto(s, "members")
     \/ sync[s].at \in {"remove", "add"} /\ Goto(s, "release")
  /\ clean' = [clean EXCEPT ![s] = FALSE]
  /\ UNCHANGED <<google, store, lock, running, changes, absent>>

\* The release is outside of the try: isJobRunning stays set.
UnlockFails(s) ==
  /\ Fault("release") /\ sync[s].at = "release"
  /\ Move(s, Idle)
  /\ UNCHANGED <<google, store, lock, running, changes, absent, clean>>

\* The process of some syncs dies and another is started in its place, with
\* a key of its own for the lock.
Restart(i) ==
  /\ Fault("crash") /\ \E s \in Sync : HostOf[s] = i /\ sync[s].at # "idle"
  /\ lock' = IF lock = i THEN "gone" ELSE lock
  /\ running' = [running EXCEPT ![i] = FALSE]
  /\ sync' = [s \in Sync |-> IF HostOf[s] = i THEN Idle ELSE sync[s]]
  /\ clean' = [s \in Sync |-> clean[s] /\ (HostOf[s] # i \/ sync[s].at = "idle")]
  /\ UNCHANGED <<google, store, changes, absent>>

\* The lock expires or is lost (CronLock).
LockLost ==
  /\ lock # None /\ lock' = None
  /\ \/ Fault("lock") \/ (Working = {} /\ UNCHANGED faults)
  /\ UNCHANGED <<google, store, running, sync, changes, absent, clean>>

\* Google: an item comes, goes, is renamed, joins or leaves a group.
Change(new) ==
  /\ changes < MaxChanges /\ changes' = changes + 1
  /\ google' = new
  /\ absent' = [s \in Sync |-> absent[s] \cup {x \in Item : new.label[x] = None}]
  /\ clean' = [s \in Sync |-> FALSE]
  /\ UNCHANGED <<store, lock, running, sync, faults>>

GoogleChanges ==
  \/ \E x \in Item, l \in Label :
       LET new == [google EXCEPT !.label[x] = l]
       IN /\ google.label[x] # l /\ (Renames \/ google.label[x] = None) /\ Sound(new)
          /\ Change(new)
  \/ \E x \in Item :
       /\ google.label[x] # None
       /\ Change([label |-> [google.label EXCEPT ![x] = None],
                  member |-> {m \in google.member : x \notin {m[1], m[2]}}])
  \/ \E g \in Group, u \in User :
       /\ google.label[g] # None /\ google.label[u] # None
       /\ Change([google EXCEPT !.member = IF <<g, u>> \in @ THEN @ \ {<<g, u>>} ELSE @ \cup {<<g, u>>}])

Step(s) ==
  \/ Acquire(s) \/ Fetch(s) \/ Compare(s) \/ Post(s) \/ PutItem(s) \/ List(s) \/ Drop(s) \/ Dropped(s)
  \/ Members(s) \/ Theirs(s) \/ RemoveMembers(s) \/ AddMembers(s) \/ Release(s)

GoogleNext ==
  \/ \E s \in Sync : StartSync(s) \/ Step(s) \/ GoogleFails(s) \/ StoreFails(s) \/ UnlockFails(s)
  \/ \E i \in Process : Restart(i)
  \/ LockLost \/ GoogleChanges

GoogleSpec == GoogleInit /\ [][GoogleNext]_googleVars

\* The timer goes on, requests are answered, and an abandoned lock expires.
GoogleFairness ==
  /\ WF_googleVars(LockLost)
  /\ \A s \in Sync : WF_googleVars(StartSync(s)) /\ WF_googleVars(Step(s))

GoogleFairSpec == GoogleSpec /\ GoogleFairness

-----------------------------------------------------------------------------
(***************************************************************************)
(* A sync only deletes users and groups that Google lacked at some time    *)
(* since it began, however Google changes, fails, or other syncs overlap   *)
(* (syncUsers.ts:67-71).                                                   *)
(***************************************************************************)
DroppedWereAbsent == \A s \in Sync : sync[s].doomed \subseteq absent[s]

(***************************************************************************)
(* When the store gives all it holds, a sync during which Google did not   *)
(* change or fail, no other sync ran, and no creation was refused, leaves  *)
(* the store as Google is, until Google changes or another sync begins.    *)
(***************************************************************************)
Equal == label = google.label /\ member = google.member
SyncedIsEqual == \A s \in Sync : sync[s].at = "release" /\ clean[s] => Equal

(***************************************************************************)
(* "Delete users that are not in the directory anymore" (syncUsers.ts:67), *)
(* after "Get all the existing users from the Jackson store" (:75): what a *)
(* sync that nothing disturbed leaves in the store is in Google.           *)
(***************************************************************************)
GoneAreDeleted ==
  \A s \in Sync : sync[s].at = "release" /\ clean[s] =>
    \A x \in Item : label[x] # None => google.label[x] # None

(***************************************************************************)
(* Google changes no more in the end, and then neither does the store,     *)
(* which is what Google holds: what a failure, a crash or an overlap left  *)
(* undone or wrong is put right by a later sync.                           *)
(***************************************************************************)
Converges == <>[]Equal
=============================================================================
