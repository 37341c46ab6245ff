----------------------------- MODULE RecordStore -----------------------------
(***************************************************************************)
(* A namespace of records (db/store.ts) on each of the database engines    *)
(* (db/mem.ts, db/sql, db/redis.ts, db/mongo.ts, db/dynamoDb.ts), which    *)
(* keep the index entries, the list of keys and the time to live of a      *)
(* record in different places and change them in different orders.  A step *)
(* is one request to the engine.                                           *)
(***************************************************************************)
EXTENDS Absence, Naturals, FiniteSets

CONSTANTS
  Key, Label, Caller,
  Engine,        \* the engines of this deployment
  CleanupLimit,  \* records that one sweep removes (db.cleanupLimit)
  MaxCalls       \* calls made in all (a bound)

VARIABLES
  engine,    \* the engine chosen when the process starts
  timed,     \* whether records of the namespace have a time to live
  db,        \* what the engine stores
  call,      \* the call each caller has under way, or None
  sweep,     \* the cleanup of the SQL engines: where it is and its keys
  cleaning,  \* keys that a listing on Redis is taking off the list
  started,   \* number of calls made
  torn       \* history: keys whose put met a removal, or whose write failed

vars == <<engine, timed, db, call, sweep, cleaning, started, torn>>

Writes == {"put", "delete", "deleteMany"}
Finds == {"find", "list"}
Phase == {"new", "unmarked", "absent", "present", "noted", "indexed", "gone",
          "loose", "wanted", "done"}

Database == [
  row : [Key -> {None} \cup SUBSET Label],  \* the record, by its labels
  entry : SUBSET (Label \X Key),            \* the index of the namespace
  back : SUBSET (Label \X Key),             \* the entries to clean up per key
  listed : SUBSET Key,                      \* the keys in order of creation
  marked : SUBSET Key,                      \* keys with a time to live
  due : SUBSET Key]                         \* those whose time has passed

Call == [op : Writes \cup Finds \cup {"failed"}, labels : SUBSET Label, at : [Key -> Phase],
         seen : SUBSET (Label \X Key),  \* entries read, yet to be removed
         got : SUBSET Key,              \* records read so far
         always : SUBSET Key,           \* history: records to be found since
         ever : SUBSET Key]             \* the call began, at all times or some

\* A write as its caller sees it: what it asks for, and the keys it has left.
Task == [op : {"put", "delete", "failed"}, labels : SUBSET Label, left : SUBSET Key]

ASSUME StoreAssumption ==
  /\ Engine \subseteq {"mem", "sql", "planetscale", "redis", "mongo", "dynamodb"}
  /\ CleanupLimit \in Nat \ {0} /\ MaxCalls \in Nat
  /\ None \notin Call \cup Task /\ \A labels \in SUBSET Label : labels # None

TypeOK ==
  /\ engine \in Engine /\ timed \in BOOLEAN
  /\ db \in Database /\ db.due \subseteq db.marked
  /\ call \in [Caller -> {None} \cup Call]
  /\ sweep \in [at : {"idle", "rows", "marks", "stopped"}, keys : SUBSET Key]
  /\ cleaning \subseteq Key /\ torn \subseteq Key
  /\ started \in 0..MaxCalls

SQL == {"sql", "planetscale"}
On(engines) == engine \in engines
Rows(d) == {k \in Key : d.row[k] # None}
Left(c) == {k \in Key : c.at[k] # "done"}
EntriesOf(d, k) == {e \in d.entry : e[2] = k}
Keyed(labels, k) == labels \X {k}

(* What a find must give: records under the label that are not being torn. *)
Visible(d, c) ==
  {k \in Rows(d) : c.op = "find" => c.labels \X {k} \subseteq d.entry} \ d.due

(* The keys on which a put and a removal are under way at the same time.   *)
Meeting(d, c) ==
  {k \in Key : \E p \in Caller :
     /\ c[p] # None /\ c[p].op = "put" /\ c[p].at[k] # "done"
     /\ \/ k \in sweep'.keys \cup cleaning'
        \/ k \in Rows(db) \ Rows(d)
        \/ \E q \in Caller : c[q] # None /\ c[q].op \in Writes \ {"put"} /\ c[q].at[k] # "done"}

(* The engine now holds d and the calls are c; the finds under way see it. *)
Become(d, c) ==
  /\ db' = d
  /\ torn' = torn \cup Meeting(d, c)
  /\ call' = [p \in Caller |->
       IF c[p] = None \/ c[p].op \notin Finds THEN c[p]
       ELSE [c[p] EXCEPT !.always = @ \cap (Visible(d, c[p]) \ torn'), !.ever = @ \cup Rows(d)]]
  /\ UNCHANGED <<engine, timed>>

Calm == UNCHANGED <<sweep, cleaning, started>>

(* Caller p has read or changed something, and its call is now c.          *)
Move(p, d, c) == Calm /\ Become(d, [call EXCEPT ![p] = c])
At(p, keys, phase) == [call[p] EXCEPT !.at = [k \in Key |-> IF k \in keys THEN phase ELSE @[k]]]

In(p, ops, keys, phase) ==
  /\ call[p] # None /\ call[p].op \in ops
  /\ keys # {} /\ keys \subseteq Left(call[p])
  /\ \A k \in keys : call[p].at[k] = phase

(* A find that takes one request gives these records.                      *)
Gives(p, keys) ==
  Move(p, db, [At(p, Key, "done") EXCEPT !.got = keys])

(* One that takes several has found these keys.                            *)
Indexed(c) == {k \in Key : c.labels \X {k} \subseteq db.entry}
Wants(p, keys, phase) ==
  [call[p] EXCEPT !.at = [k \in Key |-> IF k \in keys THEN phase ELSE "done"]]
Reads_StopsAtMissing(p, k, found) ==
  /\ In(p, {"find"}, {k}, "wanted")
  /\ Move(p, db, [At(p, IF found THEN {k} ELSE Key, "done") EXCEPT
                    !.got = IF found THEN @ \cup {k} ELSE @])

Reads(p, k, found) ==
  /\ In(p, {"find"}, {k}, "wanted")
  /\ Move(p, db, [At(p, {k}, "done") EXCEPT !.got = IF found THEN @ \cup {k} ELSE @])

Failed == [op |-> "failed", labels |-> {}, at |-> [k \in Key |-> "done"], seen |-> {},
           got |-> {}, always |-> {}, ever |-> {}]

(* A record that is not there cannot be decrypted.                         *)
Throws(p, k) ==
  /\ In(p, {"find"}, {k}, "wanted") /\ k \notin Rows(db)
  /\ Move(p, db, None)

-----------------------------------------------------------------------------
(* Changes of what the engine stores.                                      *)

\* A record stored without labels keeps the index entries it has.
Replace(old, labels) == IF labels = {} /\ old # None THEN old ELSE labels

Store(d, k, labels) == [d EXCEPT
  !.row[k] = Replace(@, labels), !.due = @ \ {k},
  !.marked = IF timed THEN @ \cup {k} ELSE @]

AddEntries(d, k, labels) == [d EXCEPT !.entry = @ \cup Keyed(labels, k)]

AddBack(d, k, labels) == [d EXCEPT !.back = @ \cup Keyed(labels, k)]
List(d, keys) == [d EXCEPT !.listed = @ \cup keys]

Unmark(d, keys) == [d EXCEPT !.marked = @ \ keys, !.due = @ \ keys]
RemoveEntries(d, entries) == [d EXCEPT !.entry = @ \ entries]
Remove(d, keys) == [d EXCEPT !.row = [k \in Key |-> IF k \in keys THEN None ELSE @[k]]]

\* With the index rows, which go with the row they refer to.
Cascade(d, keys) == [Remove(d, keys) EXCEPT !.entry = {e \in @ : e[2] \notin keys}]

-----------------------------------------------------------------------------
(* In memory: every change is made within one run of the event loop.       *)

MemPut(p) == \E k \in Key :
  /\ On({"mem"}) /\ In(p, {"put"}, {k}, "new")
  /\ LET ls == call[p].labels
     IN Move(p, List(AddBack(AddEntries(Store(db, k, ls), k, ls), k, ls), {k}), At(p, {k}, "done"))

MemRemove(d, k) ==
  [Unmark(Remove(d, {k}), {k}) EXCEPT
     !.entry = @ \ {e \in d.back : e[2] = k},
     !.back = {e \in @ : e[2] # k}, !.listed = @ \ {k}]

MemDelete(p) == \E k \in Key :
  /\ On({"mem"}) /\ In(p, {"delete", "deleteMany"}, {k}, "new")
  /\ Move(p, MemRemove(db, k), At(p, {k}, "done"))
MemSweep_All == \E k \in db.marked :
  On({"mem"}) /\ Calm /\ Become(MemRemove(db, k), call)

MemSweep == \E k \in db.due :
  On({"mem"}) /\ Calm /\ Become(MemRemove(db, k), call)

MemGetByIndex(p) ==
  /\ On({"mem"})
  /\ \/ In(p, {"find"}, Key, "new") /\ Move(p, db, Wants(p, Indexed(call[p]), "wanted"))
     \/ \E k \in Rows(db) : Reads(p, k, TRUE)
     \/ \E k \in Key : Throws(p, k)

MemGetAll(p) == On({"mem"}) /\ In(p, {"list"}, Key, "new") /\ Gives(p, db.listed)

-----------------------------------------------------------------------------
(* The SQL engines; on PlanetScale index rows do not go with the row.      *)

SqlPut(p) == \E k \in Key :
  /\ On(SQL) /\ In(p, {"put"}, {k}, "new")
  /\ LET ls == call[p].labels
     IN Move(p, AddEntries(Store(db, k, ls), k, ls), At(p, {k}, "done"))

SqlRemove(d, keys) == IF engine = "sql" THEN Cascade(d, keys) ELSE Remove(d, keys)

SqlDelete(p) == \E k \in Key :
  /\ On(SQL)
  /\ \/ /\ In(p, {"delete"}, {k}, "new")
        /\ Move(p, Unmark(db, {k}), At(p, {k}, "unmarked"))
     \/ /\ On({"planetscale"}) /\ In(p, {"delete"}, {k}, "unmarked")
        /\ Move(p, db, [At(p, {k}, "noted") EXCEPT !.seen = EntriesOf(db, k)])
     \/ /\ In(p, {"delete"}, {k}, "noted")
        /\ \E e \in call[p].seen :
             Move(p, RemoveEntries(db, {e}), [call[p] EXCEPT !.seen = @ \ {e}])
     \/ /\ In(p, {"delete"}, {k}, IF engine = "sql" THEN "unmarked" ELSE "noted")
        /\ call[p].seen = {}
        /\ Move(p, SqlRemove(db, {k}), At(p, {k}, "done"))

SqlDeleteMany(p) ==
  /\ On(SQL) /\ In(p, {"deleteMany"}, Left(call[p]), "new")
  /\ Move(p, Cascade(Unmark(db, Left(call[p])), Left(call[p])), At(p, Left(call[p]), "done"))

SqlGetByIndex(p) ==
  \/ On({"sql"}) /\ In(p, {"find"}, Key, "new") /\ Gives(p, Indexed(call[p]))
  \/ /\ On({"planetscale"})
     /\ \/ In(p, {"find"}, Key, "new") /\ Move(p, db, Wants(p, Indexed(call[p]), "wanted"))
        \/ \E k \in Rows(db) : Reads(p, k, TRUE)
        \/ \E k \in Key : Throws(p, k)

SqlGetAll(p) == On(SQL) /\ In(p, {"list"}, Key, "new") /\ Gives(p, Rows(db))
SqlSweep_MarksFirst ==
  /\ On(SQL) /\ UNCHANGED <<cleaning, started>>
  /\ \/ /\ sweep.at = "idle"
        /\ \E keys \in SUBSET db.due :
             /\ keys # {} /\ Cardinality(keys) <= CleanupLimit
             /\ sweep' = [at |-> "marks", keys |-> keys]
        /\ Become(db, call)
     \/ /\ sweep.at = "marks"
        /\ sweep' = [sweep EXCEPT !.at = "rows"]
        /\ Become(Unmark(db, sweep.keys), call)
     \/ /\ sweep.at = "rows"
        /\ sweep' = [at |-> "idle", keys |-> {}]
        /\ Become(SqlRemove(db, sweep.keys), call)
     \/ /\ timed /\ sweep.at # "stopped"
        /\ sweep' = [at |-> "stopped", keys |-> {}]
        /\ Become(db, call)

\* The cleanup: due records are read, removed, and then their marks.  Nothing
\* catches a failed request, and the next cleanup is set up at the end only.
SqlSweep ==
  /\ On(SQL) /\ UNCHANGED <<cleaning, started>>
  /\ \/ /\ sweep.at = "idle"
        /\ \E keys \in SUBSET db.due :
             /\ keys # {} /\ Cardinality(keys) <= CleanupLimit
             /\ sweep' = [at |-> "rows", keys |-> keys]
        /\ Become(db, call)
     \/ /\ sweep.at = "rows"
        /\ sweep' = [sweep EXCEPT !.at = "marks"]
        /\ Become(SqlRemove(db, sweep.keys), call)
     \/ /\ sweep.at = "marks"
        /\ sweep' = [at |-> "idle", keys |-> {}]
        /\ Become(Unmark(db, sweep.keys), call)
     \/ /\ timed /\ sweep.at # "stopped"
        /\ sweep' = [at |-> "stopped", keys |-> {}]
        /\ Become(db, call)

-----------------------------------------------------------------------------
(* Redis: reads, then one transaction; expired records leave their entries *)
(* and their place in the list behind.                                     *)

RedisPut(p) == \E k \in Key :
  LET ls == call[p].labels
      new == AddBack(AddEntries(Store(db, k, ls), k, ls), k, ls)
  IN /\ On({"redis"})
     /\ \/ /\ In(p, {"put"}, {k}, "new")
           /\ Move(p, db, At(p, {k}, IF k \in Rows(db) THEN "present" ELSE "absent"))
        \/ In(p, {"put"}, {k}, "absent") /\ Move(p, List(new, {k}), At(p, {k}, "done"))
        \/ In(p, {"put"}, {k}, "present") /\ Move(p, new, At(p, {k}, "done"))

RedisDelete(p) ==
  /\ On({"redis"})
  /\ \/ \E k \in Key :
          /\ In(p, {"delete", "deleteMany"}, {k}, "new")
          /\ Move(p, db, [At(p, {k}, "noted") EXCEPT !.seen = @ \cup {e \in db.back : e[2] = k}])
     \/ LET keys == Left(call[p])
            rest == Unmark(Remove(RemoveEntries(db, call[p].seen), keys), keys)
        IN /\ In(p, {"delete", "deleteMany"}, keys, "noted")
           /\ Move(p, [rest EXCEPT !.back = {e \in @ : e[2] \notin keys}, !.listed = @ \ keys],
                   [At(p, keys, "done") EXCEPT !.seen = {}])

RedisExpire == \E k \in db.due :
  On({"redis"}) /\ Calm /\ Become(Unmark(Remove(db, {k}), {k}), call)

\* The members of the index, those of them in the list, and their records.
RedisGetByIndex(p) ==
  /\ On({"redis"})
  /\ \/ In(p, {"find"}, Key, "new") /\ Move(p, db, Wants(p, Indexed(call[p]), "indexed"))
     \/ In(p, {"find"}, Left(call[p]), "indexed")
        /\ Move(p, db, Wants(p, Left(call[p]) \cap db.listed, "wanted"))
     \/ In(p, {"find"}, Left(call[p]), "wanted") /\ Gives(p, Left(call[p]) \cap Rows(db))

\* Keys in the list that have no record are taken off it, in the background.
RedisGetAll(p) ==
  /\ On({"redis"})
  /\ \/ In(p, {"list"}, Key, "new") /\ Move(p, db, Wants(p, db.listed, "wanted"))
     \/ /\ In(p, {"list"}, Left(call[p]), "wanted")
        /\ cleaning' = cleaning \cup (Left(call[p]) \ Rows(db))
        /\ UNCHANGED <<sweep, started>>
        /\ Become(db, [call EXCEPT ![p] =
             [At(p, Key, "done") EXCEPT !.got = Left(call[p]) \cap Rows(db)]])

RedisUnlist == \E k \in cleaning :
  /\ cleaning' = cleaning \ {k}
  /\ UNCHANGED <<sweep, started>>
  /\ Become([db EXCEPT !.listed = @ \ {k}], call)

-----------------------------------------------------------------------------
(* MongoDB: one document per record, with its labels.                      *)

MongoPut(p) == \E k \in Key :
  /\ On({"mongo"}) /\ In(p, {"put"}, {k}, "new")
  /\ LET ls == call[p].labels
         kept == IF ls = {} THEN {} ELSE EntriesOf(db, k)
     IN Move(p, AddEntries(Store(RemoveEntries(db, kept), k, ls), k, ls), At(p, {k}, "done"))

MongoDelete(p) ==
  /\ On({"mongo"}) /\ In(p, {"delete", "deleteMany"}, Left(call[p]), "new")
  /\ Move(p, Cascade(Unmark(db, Left(call[p])), Left(call[p])), At(p, Left(call[p]), "done"))

MongoExpire == \E k \in db.due :
  On({"mongo"}) /\ Calm /\ Become(Cascade(Unmark(db, {k}), {k}), call)

MongoGetByIndex(p) ==
  On({"mongo"}) /\ In(p, {"find"}, Key, "new") /\ Gives(p, Indexed(call[p]))

MongoGetAll(p) == On({"mongo"}) /\ In(p, {"list"}, Key, "new") /\ Gives(p, Rows(db))

-----------------------------------------------------------------------------
(* DynamoDB: a table of items and one of index rows, each request by       *)
(* itself; the index rows of a record that expires stay.                   *)

DynamoPut(p) == \E k \in Key :
  /\ On({"dynamodb"})
  /\ \/ /\ In(p, {"put"}, {k}, "new") /\ call[p].labels # {}
        /\ Move(p, AddEntries(db, k, call[p].labels), At(p, {k}, "indexed"))
     \/ /\ In(p, {"put"}, {k}, IF call[p].labels = {} THEN "new" ELSE "indexed")
        /\ Move(p, Store(db, k, call[p].labels), At(p, {k}, "done"))

\* Of many keys in parallel.
DynamoDelete(p) == \E k \in Key :
  LET delete == {"delete", "deleteMany"}
      mine == {e \in call[p].seen : e[2] = k}
  IN /\ On({"dynamodb"})
     /\ \/ In(p, delete, {k}, "new") /\ Move(p, Unmark(Remove(db, {k}), {k}), At(p, {k}, "gone"))
        \/ /\ In(p, delete, {k}, "gone")
           /\ Move(p, db, [At(p, {k}, IF EntriesOf(db, k) = {} THEN "done" ELSE "loose")
                             EXCEPT !.seen = @ \cup EntriesOf(db, k)])
        \/ /\ In(p, delete, {k}, "loose")
           /\ \E e \in mine :
                Move(p, RemoveEntries(db, {e}),
                     [At(p, IF mine = {e} THEN {k} ELSE {}, "done") EXCEPT !.seen = @ \ {e}])

DynamoExpire == \E k \in db.due :
  On({"dynamodb"}) /\ Calm /\ Become(Unmark(Remove(db, {k}), {k}), call)

\* Items whose time has passed are not given, whether removed yet or not.
DynamoGetByIndex(p) ==
  /\ On({"dynamodb"})
  /\ \/ In(p, {"find"}, Key, "new") /\ Move(p, db, Wants(p, Indexed(call[p]), "wanted"))
     \/ \E k \in Key : Reads(p, k, k \in Rows(db) \ db.due)

DynamoGetAll(p) == On({"dynamodb"}) /\ In(p, {"list"}, Key, "new") /\ Gives(p, Rows(db))

-----------------------------------------------------------------------------
(* Calls, the time to live and failures.                                   *)

Start(p, op, keys, labels) ==
  LET c == [op |-> op, labels |-> labels, at |-> [k \in Key |-> IF k \in keys THEN "new" ELSE "done"],
            seen |-> {}, got |-> {}, always |-> Key, ever |-> {}]
  IN /\ call[p] = None /\ started < MaxCalls
     /\ started' = started + 1
     /\ UNCHANGED <<sweep, cleaning>>
     /\ Become(db, [call EXCEPT ![p] = c])

Ask(p) ==
  \/ \E k \in Key, labels \in SUBSET Label : Start(p, "put", {k}, labels)
  \/ \E k \in Key : Start(p, "delete", {k}, {})
  \/ \E keys \in SUBSET Key \ {{}} : Start(p, "deleteMany", keys, {})
  \/ \E l \in Label : Start(p, "find", Key, {l})
  \/ Start(p, "list", Key, {})

Answer(p) ==
  /\ call[p] # None /\ Left(call[p]) = {}
  /\ Move(p, db, None)

\* A request to the engine fails: the call ends where it is.
Fail(p) ==
  /\ call[p] # None /\ call[p].op # "failed" /\ Left(call[p]) # {}
  /\ call' = [call EXCEPT ![p] = IF @.op \in Writes THEN Failed ELSE None]
  /\ Calm /\ UNCHANGED <<engine, timed, db>>
  /\ torn' = IF call[p].op \in Writes THEN torn \cup Left(call[p]) ELSE torn

ComeDue == \E k \in db.marked \ db.due :
  Calm /\ Become([db EXCEPT !.due = @ \cup {k}], call)

Step(p) ==
  \/ MemPut(p) \/ MemDelete(p) \/ MemGetByIndex(p) \/ MemGetAll(p)
  \/ SqlPut(p) \/ SqlDelete(p) \/ SqlDeleteMany(p) \/ SqlGetByIndex(p) \/ SqlGetAll(p)
  \/ RedisPut(p) \/ RedisDelete(p) \/ RedisGetByIndex(p) \/ RedisGetAll(p)
  \/ MongoPut(p) \/ MongoDelete(p) \/ MongoGetByIndex(p) \/ MongoGetAll(p)
  \/ DynamoPut(p) \/ DynamoDelete(p) \/ DynamoGetByIndex(p) \/ DynamoGetAll(p)

Cleanup == MemSweep \/ SqlSweep \/ RedisExpire \/ RedisUnlist \/ MongoExpire \/ DynamoExpire

Init ==
  /\ engine \in Engine /\ timed \in BOOLEAN
  /\ db = [row |-> [k \in Key |-> None], entry |-> {}, back |-> {}, listed |-> {},
           marked |-> {}, due |-> {}]
  /\ call = [p \in Caller |-> None]
  /\ sweep = [at |-> "idle", keys |-> {}]
  /\ cleaning = {} /\ torn = {} /\ started = 0

Next == \/ \E p \in Caller : Ask(p) \/ Step(p) \/ Answer(p) \/ Fail(p)
        \/ Cleanup \/ ComeDue

Spec == Init /\ [][Next]_vars

-----------------------------------------------------------------------------
(* Properties.                                                             *)

Quiet(k) ==
  /\ \A p \in Caller : call[p] # None => call[p].op \notin Writes \/ call[p].at[k] = "done"
  /\ k \notin sweep.keys \cup cleaning

(* A record whose puts met no removal is found: it is under every label    *)
(* that it was last stored with, and in the list of keys.  Its entries and *)
(* its row are written and removed by different requests.                  *)
NoneHidden == \A k \in Rows(db) \ torn : Quiet(k) =>
  /\ Keyed(db.row[k], k) \subseteq db.entry
  /\ engine \in {"mem", "redis"} => k \in db.listed

(* And it keeps its time to live, or it would never go.                    *)
MarkKept == \A k \in Rows(db) \ torn : timed /\ Quiet(k) => k \in db.marked

(* A record that is gone has left nothing behind, except that those which  *)
(* expired on Redis, DynamoDB or PlanetScale leave their index entries.    *)
NothingDangles == \A k \in Key \ (Rows(db) \cup torn) :
  Quiet(k) /\ ~(timed /\ engine \in {"redis", "dynamodb", "planetscale"}) =>
    /\ EntriesOf(db, k) = {}
    /\ \A e \in db.back : e[2] # k
    /\ k \notin db.listed

(* What is stored has its types, and the indexes, the marks and the        *)
(* records of every engine agree whenever no call is at them, though each  *)
(* is written and removed by requests of its own (db/redis.ts:154-181,     *)
(* db/sql/sql.ts:147, db/mem.ts:182-210, db/dynamoDb.ts:266-313).          *)
IndexesAgree == TypeOK /\ NoneHidden /\ MarkKept /\ NothingDangles

(* What a find answers: every record that was there, under the label, from *)
(* its start to its end, and none that was never there meanwhile.          *)
FindIsHonest == \A p \in Caller :
  call[p] # None /\ call[p].op \in Finds /\ Left(call[p]) = {} =>
    call[p].always \subseteq call[p].got /\ call[p].got \subseteq call[p].ever

TaskOf(c) ==
  IF c = None \/ c.op \in Finds THEN None
  ELSE [op |-> IF c.op = "deleteMany" THEN "delete" ELSE c.op, labels |-> c.labels,
        left |-> {k \in Key : c.at[k] \notin {"gone", "loose", "done"}}]

Tasks == [p \in Caller |-> TaskOf(call[p])]
Doomed == IF sweep.at = "rows" THEN sweep.keys ELSE {}

(* Whatever the engine, the calls implement a map (RecordMap).             *)
Map == INSTANCE RecordMap WITH
  row <- db.row, due <- db.due, task <- Tasks, doomed <- Doomed
StoreIsMap == Map!Spec
=============================================================================
