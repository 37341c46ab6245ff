-------------------------- MODULE RecordStore_proofs --------------------------
(***************************************************************************)
(* What holds of the records on every database engine, for any number of   *)
(* keys, labels and callers: the types, that the calls implement the map   *)
(* of RecordMap, that the indexes agree with the records, and that finds   *)
(* are honest.                                                             *)
(***************************************************************************)
EXTENDS RecordStore, TLAPS

Calls == {None} \cup Call

\* A state the engine may be brought to.
Sound(d) == d \in Database /\ d.due \subseteq d.marked

-----------------------------------------------------------------------------
(***************************************************************************)
(* The operators that change what the engine stores: each gives a sound    *)
(* state, and these are the rows and the due keys of that state.           *)
(***************************************************************************)
LEMMA ReplaceTyped ==
  ASSUME NEW old \in {None} \cup SUBSET Label, NEW labels \in SUBSET Label
  PROVE  Replace(old, labels) \in {None} \cup SUBSET Label
BY DEF Replace

\* The rows of d with the one of k stored again.
RowsWith(d, k, labels) == [d.row EXCEPT ![k] = Replace(@, labels)]

LEMMA StoreRows ==
  ASSUME NEW d, Sound(d), NEW k \in Key, NEW labels \in SUBSET Label
  PROVE  /\ Sound(Store(d, k, labels))
         /\ Store(d, k, labels).row = RowsWith(d, k, labels)
         /\ Store(d, k, labels).due = d.due \ {k}
         /\ Store(d, k, labels).marked = d.marked \cup (IF timed THEN {k} ELSE {})
         /\ Store(d, k, labels).entry = d.entry
         /\ Store(d, k, labels).back = d.back
         /\ Store(d, k, labels).listed = d.listed
<1>1. Replace(d.row[k], labels) \in {None} \cup SUBSET Label
  BY ReplaceTyped DEF Sound, Database
<1>. QED
  BY <1>1 DEF Sound, Database, Store, RowsWith

LEMMA AddEntriesRows ==
  ASSUME NEW d, Sound(d), NEW k \in Key, NEW labels \in SUBSET Label
  PROVE  /\ Sound(AddEntries(d, k, labels))
         /\ AddEntries(d, k, labels).row = d.row
         /\ AddEntries(d, k, labels).due = d.due
         /\ AddEntries(d, k, labels).marked = d.marked
         /\ AddEntries(d, k, labels).entry = d.entry \cup Keyed(labels, k)
         /\ AddEntries(d, k, labels).back = d.back
         /\ AddEntries(d, k, labels).listed = d.listed
BY DEF Sound, Database, AddEntries, Keyed

LEMMA AddBackRows ==
  ASSUME NEW d, Sound(d), NEW k \in Key, NEW labels \in SUBSET Label
  PROVE  /\ Sound(AddBack(d, k, labels))
         /\ AddBack(d, k, labels).row = d.row
         /\ AddBack(d, k, labels).due = d.due
         /\ AddBack(d, k, labels).marked = d.marked
         /\ AddBack(d, k, labels).entry = d.entry
         /\ AddBack(d, k, labels).back = d.back \cup Keyed(labels, k)
         /\ AddBack(d, k, labels).listed = d.listed
BY DEF Sound, Database, AddBack, Keyed

LEMMA ListRows ==
  ASSUME NEW d, Sound(d), NEW keys \in SUBSET Key
  PROVE  /\ Sound(List(d, keys))
         /\ List(d, keys).row = d.row
         /\ List(d, keys).due = d.due
         /\ List(d, keys).marked = d.marked
         /\ List(d, keys).entry = d.entry
         /\ List(d, keys).back = d.back
         /\ List(d, keys).listed = d.listed \cup keys
BY DEF Sound, Database, List

LEMMA UnmarkRows ==
  ASSUME NEW d, Sound(d), NEW keys \in SUBSET Key
  PROVE  /\ Sound(Unmark(d, keys))
         /\ Unmark(d, keys).row = d.row
         /\ Unmark(d, keys).due = d.due \ keys
         /\ Unmark(d, keys).marked = d.marked \ keys
         /\ Unmark(d, keys).entry = d.entry
         /\ Unmark(d, keys).back = d.back
         /\ Unmark(d, keys).listed = d.listed
BY DEF Sound, Database, Unmark

LEMMA RemoveEntriesRows ==
  ASSUME NEW d, Sound(d), NEW entries
  PROVE  /\ Sound(RemoveEntries(d, entries))
         /\ RemoveEntries(d, entries).row = d.row
         /\ RemoveEntries(d, entries).due = d.due
         /\ RemoveEntries(d, entries).marked = d.marked
         /\ RemoveEntries(d, entries).entry = d.entry \ entries
         /\ RemoveEntries(d, entries).back = d.back
         /\ RemoveEntries(d, entries).listed = d.listed
BY DEF Sound, Database, RemoveEntries

\* The rows of d, but for some keys that have none.
RowsWithout(d, keys) == [k \in Key |-> IF k \in keys THEN None ELSE d.row[k]]

LEMMA RemoveRows ==
  ASSUME NEW d, Sound(d), NEW keys
  PROVE  /\ Sound(Remove(d, keys))
         /\ Remove(d, keys).row = RowsWithout(d, keys)
         /\ Remove(d, keys).due = d.due
         /\ Remove(d, keys).marked = d.marked
         /\ Remove(d, keys).entry = d.entry
         /\ Remove(d, keys).back = d.back
         /\ Remove(d, keys).listed = d.listed
<1>1. RowsWithout(d, keys) \in [Key -> {None} \cup SUBSET Label]
  BY DEF Sound, Database, RowsWithout
<1>2. Remove(d, keys) = [d EXCEPT !.row = RowsWithout(d, keys)]
  BY DEF Remove, RowsWithout
<1>. QED
  BY <1>1, <1>2 DEF Sound, Database

LEMMA CascadeRows ==
  ASSUME NEW d, Sound(d), NEW keys
  PROVE  /\ Sound(Cascade(d, keys))
         /\ Cascade(d, keys).row = RowsWithout(d, keys)
         /\ Cascade(d, keys).due = d.due
         /\ Cascade(d, keys).marked = d.marked
         /\ Cascade(d, keys).entry = {e \in d.entry : e[2] \notin keys}
         /\ Cascade(d, keys).back = d.back
         /\ Cascade(d, keys).listed = d.listed
<1>. DEFINE r == Remove(d, keys)
<1>1. Sound(r) /\ r.entry = d.entry /\ r.row = RowsWithout(d, keys) /\ r.due = d.due
      /\ r.marked = d.marked /\ r.back = d.back /\ r.listed = d.listed
  BY RemoveRows
<1>2. Cascade(d, keys) = [r EXCEPT !.entry = {e \in @ : e[2] \notin keys}]
  BY DEF Cascade
<1>. HIDE DEF r
<1>. QED
  BY <1>1, <1>2 DEF Sound, Database

LEMMA SqlRemoveRows ==
  ASSUME NEW d, Sound(d), NEW keys
  PROVE  /\ Sound(SqlRemove(d, keys))
         /\ SqlRemove(d, keys).row = RowsWithout(d, keys)
         /\ SqlRemove(d, keys).due = d.due
         /\ SqlRemove(d, keys).marked = d.marked
         /\ engine = "sql" => SqlRemove(d, keys).entry = {e \in d.entry : e[2] \notin keys}
         /\ engine # "sql" => SqlRemove(d, keys).entry = d.entry
         /\ SqlRemove(d, keys).back = d.back
         /\ SqlRemove(d, keys).listed = d.listed
<1>1. CASE engine = "sql"
  <2>1. SqlRemove(d, keys) = Cascade(d, keys)
    BY <1>1 DEF SqlRemove
  <2>. QED
    BY <1>1, <2>1, CascadeRows
<1>2. CASE engine # "sql"
  <2>1. SqlRemove(d, keys) = Remove(d, keys)
    BY <1>2 DEF SqlRemove
  <2>. QED
    BY <1>2, <2>1, RemoveRows
<1>. QED
  BY <1>1, <1>2

LEMMA MemRemoveRows ==
  ASSUME NEW d, Sound(d), NEW k \in Key
  PROVE  /\ Sound(MemRemove(d, k))
         /\ MemRemove(d, k).row = RowsWithout(d, {k})
         /\ MemRemove(d, k).due = d.due \ {k}
         /\ MemRemove(d, k).marked = d.marked \ {k}
         /\ MemRemove(d, k).entry = d.entry \ {e \in d.back : e[2] = k}
         /\ MemRemove(d, k).back = {e \in d.back : e[2] # k}
         /\ MemRemove(d, k).listed = d.listed \ {k}
<1>. DEFINE r == Remove(d, {k})
            u == Unmark(r, {k})
<1>1. Sound(r) /\ r.entry = d.entry /\ r.row = RowsWithout(d, {k}) /\ r.due = d.due
      /\ r.marked = d.marked /\ r.back = d.back /\ r.listed = d.listed
  BY RemoveRows
<1>. HIDE DEF r
<1>2. Sound(u) /\ u.entry = d.entry /\ u.row = RowsWithout(d, {k}) /\ u.due = d.due \ {k}
      /\ u.marked = d.marked \ {k} /\ u.back = d.back /\ u.listed = d.listed
  BY <1>1, UnmarkRows
<1>3. MemRemove(d, k) = [u EXCEPT !.entry = @ \ {e \in d.back : e[2] = k},
                           !.back = {e \in @ : e[2] # k}, !.listed = @ \ {k}]
  BY DEF MemRemove, r
<1>. HIDE DEF u
<1>4. /\ u.entry \ {e \in d.back : e[2] = k} \in SUBSET (Label \X Key)
      /\ {e \in u.back : e[2] # k} \in SUBSET (Label \X Key)
      /\ u.listed \ {k} \in SUBSET Key
  BY <1>2 DEF Sound, Database
<1>. QED
  BY <1>2, <1>3, <1>4 DEF Sound, Database
-----------------------------------------------------------------------------
(***************************************************************************)
(* Calls: how a request moves one on, and what a move leaves to others.    *)
(***************************************************************************)
Pending(c) == {k \in Key : c.at[k] \notin {"gone", "loose", "done"}}

LEMMA AtTyped ==
  ASSUME NEW p \in Caller, call[p] \in Call, NEW keys, NEW phase \in Phase
  PROVE  /\ At(p, keys, phase) \in Call
         /\ \A k \in Key : At(p, keys, phase).at[k] =
                            IF k \in keys THEN phase ELSE call[p].at[k]
         /\ At(p, keys, phase).op = call[p].op
         /\ At(p, keys, phase).labels = call[p].labels
         /\ At(p, keys, phase).seen = call[p].seen
         /\ At(p, keys, phase).got = call[p].got
         /\ At(p, keys, phase).always = call[p].always
         /\ At(p, keys, phase).ever = call[p].ever
<1>. DEFINE at == [k \in Key |-> IF k \in keys THEN phase ELSE call[p].at[k]]
<1>1. at \in [Key -> Phase]
  BY DEF Call
<1>2. At(p, keys, phase) = [call[p] EXCEPT !.at = at]
  BY DEF At
<1>. QED
  BY <1>1, <1>2 DEF Call

LEMMA SeenTyped ==
  ASSUME NEW c \in Call, NEW S \in SUBSET (Label \X Key)
  PROVE  /\ [c EXCEPT !.seen = S] \in Call
         /\ [c EXCEPT !.seen = S].at = c.at
         /\ [c EXCEPT !.seen = S].op = c.op
         /\ [c EXCEPT !.seen = S].labels = c.labels
         /\ [c EXCEPT !.seen = S].seen = S
         /\ [c EXCEPT !.seen = S].got = c.got
BY DEF Call

LEMMA GotTyped ==
  ASSUME NEW c \in Call, NEW S \in SUBSET Key
  PROVE  /\ [c EXCEPT !.got = S] \in Call
         /\ [c EXCEPT !.got = S].at = c.at
         /\ [c EXCEPT !.got = S].op = c.op
         /\ [c EXCEPT !.got = S].labels = c.labels
         /\ [c EXCEPT !.got = S].got = S
         /\ [c EXCEPT !.got = S].always = c.always
         /\ [c EXCEPT !.got = S].ever = c.ever
BY DEF Call

LEMMA NoneIsNoCall == None \notin Call /\ None \notin Task
BY StoreAssumption

LEMMA TaskOfWrite ==
  ASSUME NEW c \in Call, c.op \notin Finds
  PROVE  /\ TaskOf(c) = [op |-> IF c.op = "deleteMany" THEN "delete" ELSE c.op,
                         labels |-> c.labels, left |-> Pending(c)]
         /\ TaskOf(c) # None
         /\ TaskOf(c) \in Task
<1>1. c # None
  BY NoneIsNoCall
<1>2. c.op \in {"put", "delete", "deleteMany", "failed"} /\ c.labels \in SUBSET Label
  BY DEF Call, Writes, Finds
<1>3. TaskOf(c) = [op |-> IF c.op = "deleteMany" THEN "delete" ELSE c.op,
                   labels |-> c.labels, left |-> Pending(c)]
  BY <1>1 DEF TaskOf, Pending
<1>4. TaskOf(c) \in Task
  BY <1>2, <1>3 DEF Task, Pending
<1>. QED
  BY <1>3, <1>4, NoneIsNoCall

LEMMA SameTask ==
  ASSUME NEW b \in Call, NEW c \in Call, b.op = c.op, b.labels = c.labels,
         Pending(b) = Pending(c)
  PROVE  TaskOf(b) = TaskOf(c)
<1>1. CASE b.op \in Finds
  BY <1>1 DEF TaskOf
<1>2. CASE b.op \notin Finds
  BY <1>2, TaskOfWrite
<1>. QED
  BY <1>1, <1>2

LEMMA NoTask ==
  ASSUME NEW c \in Calls, c = None \/ c.op \in Finds
  PROVE  TaskOf(c) = None
BY DEF TaskOf

\* The engine is brought to d, and calls go on: those that find learn of it.
LEMMA BecomeTyped ==
  ASSUME TypeOK, NEW d, Sound(d), NEW c \in [Caller -> Calls], Become(d, c)
  PROVE  /\ db' = d /\ UNCHANGED <<engine, timed>>
         /\ call' \in [Caller -> Calls]
         /\ torn' \subseteq Key
         /\ Tasks' = [p \in Caller |-> TaskOf(c[p])]
<1>1. db' = d /\ UNCHANGED <<engine, timed>> /\ torn' \subseteq Key
  BY DEF Become, Meeting, TypeOK
<1>2. ASSUME NEW p \in Caller
      PROVE  call'[p] \in Calls /\ TaskOf(call'[p]) = TaskOf(c[p])
  <2>1. CASE c[p] = None \/ c[p].op \notin Finds
    BY <2>1 DEF Become
  <2>2. CASE ~(c[p] = None \/ c[p].op \notin Finds)
    <3>. DEFINE always == c[p].always \cap (Visible(d, c[p]) \ torn')
                ever == c[p].ever \cup Rows(d)
    <3>1. call'[p] = [c[p] EXCEPT !.always = always, !.ever = ever]
      BY <2>2 DEF Become
    <3>2. c[p] \in Call
      BY <2>2 DEF Calls
    <3>3. always \in SUBSET Key /\ ever \in SUBSET Key
      BY <3>2 DEF Call, Rows
    <3>. HIDE DEF always, ever
    <3>4. call'[p] \in Call /\ call'[p].op = c[p].op
      BY <3>1, <3>2, <3>3 DEF Call
    <3>. QED
      BY <2>2, <3>4, NoTask DEF Calls
  <2>. QED
    BY <2>1, <2>2
<1>3. call' \in [Caller -> Calls]
  <2>1. call' = [p \in Caller |-> call'[p]]
    BY DEF Become
  <2>. QED
    BY <1>2, <2>1
<1>. QED
  BY <1>1, <1>2, <1>3 DEF Tasks

LEMMA MoveTyped ==
  ASSUME TypeOK, NEW p \in Caller, NEW d, Sound(d), NEW c \in Calls, Move(p, d, c)
  PROVE  /\ TypeOK'
         /\ db' = d
         /\ Tasks' = [Tasks EXCEPT ![p] = TaskOf(c)]
         /\ Doomed' = Doomed
<1>. DEFINE cc == [call EXCEPT ![p] = c]
<1>1. cc \in [Caller -> Calls] /\ \A q \in Caller : cc[q] = IF q = p THEN c ELSE call[q]
  BY DEF TypeOK, Calls
<1>2. Become(d, cc) /\ Calm
  BY DEF Move
<1>. HIDE DEF cc
<1>3. /\ db' = d /\ UNCHANGED <<engine, timed>>
      /\ call' \in [Caller -> Calls]
      /\ torn' \subseteq Key
      /\ Tasks' = [q \in Caller |-> TaskOf(cc[q])]
  BY <1>1, <1>2, BecomeTyped
<1>4. Tasks' = [Tasks EXCEPT ![p] = TaskOf(c)]
  BY <1>1, <1>3 DEF Tasks
<1>5. TypeOK'
  BY <1>2, <1>3 DEF TypeOK, Calm, Sound, Calls
<1>. QED
  BY <1>2, <1>3, <1>4, <1>5 DEF Calm, Doomed
-----------------------------------------------------------------------------
(***************************************************************************)
(* What a step of the store is to the map: nothing, an effect on the keys  *)
(* that a call is done with, or an expiry.                                 *)
(***************************************************************************)
MapStep == TypeOK' /\ (Map!Next \/ UNCHANGED Map!vars)

LEMMA SilentMove ==
  ASSUME TypeOK, NEW p \in Caller, NEW d, Sound(d), NEW c \in Calls, Move(p, d, c),
         d.row = db.row, d.due = db.due, TaskOf(c) = TaskOf(call[p])
  PROVE  MapStep
<1>1. TypeOK' /\ db' = d /\ Doomed' = Doomed /\ Tasks' = [Tasks EXCEPT ![p] = TaskOf(c)]
  BY MoveTyped
<1>2. Tasks' = Tasks
  BY <1>1 DEF Tasks
<1>. QED
  BY <1>1, <1>2 DEF MapStep, Map!vars

LEMMA EffectMove ==
  ASSUME TypeOK, NEW p \in Caller, NEW d, Sound(d), NEW c \in Call, Move(p, d, c),
         call[p] \in Call, call[p].op \in Writes,
         c.op = call[p].op, c.labels = call[p].labels,
         Pending(c) \subseteq Pending(call[p]),
         d.row = [k \in Key |->
           IF k \notin Pending(call[p]) \ Pending(c) THEN db.row[k]
           ELSE IF call[p].op = "put" THEN Replace(db.row[k], call[p].labels) ELSE None],
         d.due \subseteq db.due, db.due \ d.due \subseteq Pending(call[p]) \ Pending(c)
  PROVE  MapStep
<1>. DEFINE done == Pending(call[p]) \ Pending(c)
            old == TaskOf(call[p])
            new == TaskOf(c)
<1>1. TypeOK' /\ db' = d /\ Doomed' = Doomed /\ Tasks' = [Tasks EXCEPT ![p] = new]
  BY MoveTyped DEF Calls
<1>2. call[p].op \notin Finds /\ c.op \notin Finds
  BY DEF Writes, Finds
<1>3. /\ old = [op |-> IF call[p].op = "deleteMany" THEN "delete" ELSE call[p].op,
                labels |-> call[p].labels, left |-> Pending(call[p])]
      /\ new = [op |-> IF call[p].op = "deleteMany" THEN "delete" ELSE call[p].op,
                labels |-> call[p].labels, left |-> Pending(c)]
      /\ new # None /\ old # None
  BY <1>2, TaskOfWrite
<1>4. Tasks[p] = old /\ Tasks'[p] = new /\ Tasks' = [Tasks EXCEPT ![p] = Tasks'[p]]
  BY <1>1 DEF Tasks
<1>5. old.left \ new.left = done /\ new = [old EXCEPT !.left = @ \ done]
  <2>1. old.left = Pending(call[p]) /\ new.left = Pending(c)
    BY <1>3
  <2>2. Pending(c) = Pending(call[p]) \ done
    OBVIOUS
  <2>3. new = [old EXCEPT !.left = Pending(c)]
    BY <1>3
  <2>. QED
    BY <2>1, <2>2, <2>3
<1>6. old.op = IF call[p].op = "put" THEN "put" ELSE "delete"
  BY <1>3 DEF Writes
<1>7. old.labels = call[p].labels
  BY <1>3
<1>. HIDE DEF old, new
<1>8. d.row = [k \in Key |-> IF k \notin done THEN db.row[k]
                             ELSE IF old.op = "delete" THEN None
                             ELSE Replace(db.row[k], old.labels)]
  BY <1>6, <1>7
<1>. HIDE DEF done
<1>9. \A x, y : Map!Replace(x, y) = Replace(x, y)
  BY DEF Map!Replace, Replace
<1>10. Map!Effect(p)
  <2>1. d.due \subseteq db.due /\ db.due \ d.due \subseteq done
    BY DEF done
  <2>2. (IF Tasks'[p] = None THEN {} ELSE Tasks[p].left \ Tasks'[p].left) = done
    BY <1>3, <1>4, <1>5
  <2>3. db'.row = [k \in Key |-> IF k \notin done THEN db.row[k]
                                ELSE IF Tasks[p].op = "delete" THEN None
                                ELSE Map!Replace(db.row[k], Tasks[p].labels)]
    BY <1>1, <1>4, <1>8, <1>9
  <2>4. /\ Tasks'[p] # None
        /\ Tasks'[p] = [Tasks[p] EXCEPT !.left = @ \ done]
    BY <1>3, <1>4, <1>5
  <2>. QED
    BY <1>1, <1>4, <2>1, <2>2, <2>3, <2>4 DEF Map!Effect, Map!Own
<1>. QED
  BY <1>1, <1>3, <1>4, <1>10 DEF MapStep, Map!Next

\* Rows that go with due keys, or marks that go with nothing.
LEMMA ExpireStep ==
  ASSUME TypeOK', Tasks' = Tasks,
         \A k \in Key : db'.row[k] # db.row[k] =>
           db'.row[k] = None /\ k \in db.due \cup Doomed,
         db'.due \subseteq db.due, Doomed' \subseteq Doomed
  PROVE  MapStep
BY DEF MapStep, Map!Next, Map!Expire

\* A find moves on without a trace.
LEMMA FindMove ==
  ASSUME TypeOK, NEW p \in Caller, NEW c \in Calls, Move(p, db, c),
         call[p] \in Call, call[p].op \in Finds, c = None \/ c.op \in Finds
  PROVE  MapStep
<1>1. Sound(db) /\ call[p] \in Calls
  BY DEF TypeOK, Sound, Calls
<1>2. TaskOf(c) = TaskOf(call[p])
  BY <1>1, NoTask
<1>. QED
  BY <1>1, <1>2, SilentMove
-----------------------------------------------------------------------------
(***************************************************************************)
(* The steps of a call, from what its request finds the call to be.        *)
(***************************************************************************)
LEMMA InCall ==
  ASSUME TypeOK, NEW p \in Caller, NEW ops, NEW keys, NEW phase, In(p, ops, keys, phase)
  PROVE  /\ call[p] \in Call /\ call[p].op \in ops /\ call[p].labels \in SUBSET Label
         /\ keys \in SUBSET Key /\ \A k \in keys : call[p].at[k] = phase
         /\ call[p].at \in [Key -> Phase]
         /\ Sound(db)
<1>1. call[p] \in Call
  BY DEF In, TypeOK
<1>. QED
  BY <1>1 DEF In, Left, Call, TypeOK, Sound

LEMMA PendingAt ==
  ASSUME NEW p \in Caller, call[p] \in Call, NEW keys \in SUBSET Key, NEW phase \in Phase
  PROVE  Pending(At(p, keys, phase)) =
           IF phase \in {"gone", "loose", "done"} THEN Pending(call[p]) \ keys
                                                 ELSE Pending(call[p]) \cup keys
BY AtTyped DEF Pending

\* A request that only moves the call on, among phases of one kind.
LEMMA PassStep ==
  ASSUME TypeOK, NEW p \in Caller, NEW k \in Key, NEW phase \in Phase, NEW c \in Call,
         call[p] \in Call, Move(p, db, c),
         c.op = call[p].op, c.labels = call[p].labels, c.at = At(p, {k}, phase).at,
         call[p].at[k] \in {"gone", "loose", "done"} <=> phase \in {"gone", "loose", "done"}
  PROVE  MapStep
<1>1. Pending(c) = Pending(call[p])
  BY AtTyped DEF Pending
<1>2. TaskOf(c) = TaskOf(call[p]) /\ Sound(db) /\ c \in Calls
  BY <1>1, SameTask DEF TypeOK, Sound, Calls
<1>. QED
  BY <1>2, SilentMove

\* To the map, a put is the row of k.
Puts(d, k, ls) == Sound(d) /\ d.row = RowsWith(db, k, ls) /\ d.due = db.due \ {k}

LEMMA PutStep ==
  ASSUME TypeOK, NEW p \in Caller, NEW k \in Key, NEW phase, NEW d,
         In(p, {"put"}, {k}, phase), phase \notin {"gone", "loose", "done"},
         Puts(d, k, call[p].labels),
         Move(p, d, At(p, {k}, "done"))
  PROVE  MapStep
<1>. DEFINE c == At(p, {k}, "done")
<1>1. call[p] \in Call /\ call[p].op = "put" /\ call[p].at[k] = phase
  BY InCall
<1>2. c \in Call /\ c.op = call[p].op /\ c.labels = call[p].labels
  BY <1>1, AtTyped DEF Phase
<1>3. Pending(c) = Pending(call[p]) \ {k} /\ k \in Pending(call[p])
  <2>1. Pending(c) = Pending(call[p]) \ {k}
    BY <1>1, PendingAt DEF Phase
  <2>. QED
    BY <1>1, <2>1 DEF Pending
<1>. HIDE DEF c
<1>4. Pending(call[p]) \ Pending(c) = {k}
  BY <1>3
<1>5. d.row = [j \in Key |-> IF j \notin {k} THEN db.row[j]
                             ELSE Replace(db.row[j], call[p].labels)]
  BY DEF TypeOK, Database, RowsWith, Puts
<1>. QED
  BY <1>1, <1>2, <1>3, <1>4, <1>5, EffectMove DEF c, Writes, Puts

LEMMA RemoveStep ==
  ASSUME TypeOK, NEW p \in Caller, NEW keys \in SUBSET Key, NEW d, Sound(d), NEW c \in Call,
         call[p] \in Call, call[p].op \in {"delete", "deleteMany"},
         \A k \in keys : call[p].at[k] \notin {"gone", "loose", "done"},
         c.op = call[p].op, c.labels = call[p].labels,
         Pending(c) = Pending(call[p]) \ keys,
         d.row = RowsWithout(db, keys),
         d.due \in {db.due, db.due \ keys},
         Move(p, d, c)
  PROVE  MapStep
<1>1. Pending(call[p]) \ Pending(c) = keys
  BY DEF Pending
<1>2. d.row = [k \in Key |-> IF k \notin keys THEN db.row[k] ELSE None]
  BY DEF RowsWithout
<1>3. d.due \subseteq db.due /\ db.due \ d.due \subseteq keys
  OBVIOUS
<1>. QED
  BY <1>1, <1>2, <1>3, EffectMove DEF Writes

\* The same for a call that is done with the keys, or knows them gone.
LEMMA RemoveAt ==
  ASSUME TypeOK, NEW p \in Caller, NEW keys \in SUBSET Key, NEW d, Sound(d),
         call[p] \in Call, call[p].op \in {"delete", "deleteMany"},
         \A k \in keys : call[p].at[k] \notin {"gone", "loose", "done"},
         NEW phase \in {"gone", "done"},
         d.row = RowsWithout(db, keys),
         d.due \in {db.due, db.due \ keys},
         Move(p, d, At(p, keys, phase))
  PROVE  MapStep
<1>1. phase \in Phase
  BY DEF Phase
<1>2. /\ At(p, keys, phase) \in Call
      /\ At(p, keys, phase).op = call[p].op /\ At(p, keys, phase).labels = call[p].labels
      /\ Pending(At(p, keys, phase)) = Pending(call[p]) \ keys
  BY <1>1, AtTyped, PendingAt
<1>. QED
  BY <1>2, RemoveStep
-----------------------------------------------------------------------------
(***************************************************************************)
(* Puts.  On every engine a put changes the row and its time at once, and  *)
(* what else it writes does not show in the map.                           *)
(***************************************************************************)
\* What a put writes on the SQL engines, and in memory and on Redis.
SqlPuts(k, ls) == AddEntries(Store(db, k, ls), k, ls)
MemPuts(k, ls) == AddBack(SqlPuts(k, ls), k, ls)

LEMMA PutRows ==
  ASSUME TypeOK, NEW k \in Key, NEW ls \in SUBSET Label
  PROVE  /\ Puts(Store(db, k, ls), k, ls)
         /\ Puts(SqlPuts(k, ls), k, ls)
         /\ Puts(MemPuts(k, ls), k, ls)
         /\ Puts(List(MemPuts(k, ls), {k}), k, ls)
<1>1. Puts(Store(db, k, ls), k, ls)
  <2>1. Sound(db)
    BY DEF TypeOK, Sound
  <2>. QED
    BY <2>1, StoreRows DEF Puts
<1>2. Puts(SqlPuts(k, ls), k, ls)
  BY <1>1, AddEntriesRows DEF Puts, SqlPuts
<1>3. Puts(MemPuts(k, ls), k, ls)
  BY <1>2, AddBackRows DEF Puts, MemPuts
<1>4. Puts(List(MemPuts(k, ls), {k}), k, ls)
  BY <1>3, ListRows DEF Puts
<1>. QED
  BY <1>1, <1>2, <1>3, <1>4

LEMMA PutMaps ==
  ASSUME TypeOK, NEW p \in Caller, MemPut(p) \/ SqlPut(p) \/ RedisPut(p)
  PROVE  MapStep
<1>1. CASE MemPut(p)
  <2>1. PICK k \in Key : In(p, {"put"}, {k}, "new") /\
          Move(p, List(MemPuts(k, call[p].labels), {k}), At(p, {k}, "done"))
    BY <1>1 DEF MemPut, MemPuts, SqlPuts
  <2>2. call[p].labels \in SUBSET Label
    BY <2>1, InCall
  <2>. QED
    BY <2>1, <2>2, PutRows, PutStep
<1>2. CASE SqlPut(p)
  <2>1. PICK k \in Key : In(p, {"put"}, {k}, "new") /\
          Move(p, SqlPuts(k, call[p].labels), At(p, {k}, "done"))
    BY <1>2 DEF SqlPut, SqlPuts
  <2>2. call[p].labels \in SUBSET Label
    BY <2>1, InCall
  <2>. QED
    BY <2>1, <2>2, PutRows, PutStep
<1>3. CASE RedisPut(p)
  <2>. DEFINE new(k) == MemPuts(k, call[p].labels)
  <2>1. PICK k \in Key :
          \/ /\ In(p, {"put"}, {k}, "new")
             /\ Move(p, db, At(p, {k}, IF k \in Rows(db) THEN "present" ELSE "absent"))
          \/ In(p, {"put"}, {k}, "absent") /\ Move(p, List(new(k), {k}), At(p, {k}, "done"))
          \/ In(p, {"put"}, {k}, "present") /\ Move(p, new(k), At(p, {k}, "done"))
    BY <1>3 DEF RedisPut, MemPuts, SqlPuts
  <2>2. call[p].labels \in SUBSET Label /\ call[p] \in Call
    BY <2>1, InCall
  <2>3. CASE /\ In(p, {"put"}, {k}, "new")
             /\ Move(p, db, At(p, {k}, IF k \in Rows(db) THEN "present" ELSE "absent"))
    <3>1. PICK phase \in {"present", "absent"} : Move(p, db, At(p, {k}, phase))
      BY <2>3
    <3>2. call[p].at[k] = "new" /\ phase \in Phase
      BY <2>3, <3>1, InCall DEF Phase
    <3>. QED
      BY <2>2, <3>1, <3>2, AtTyped, PassStep
  <2>4. CASE In(p, {"put"}, {k}, "absent") /\ Move(p, List(new(k), {k}), At(p, {k}, "done"))
    BY <2>2, <2>4, PutRows, PutStep
  <2>5. CASE In(p, {"put"}, {k}, "present") /\ Move(p, new(k), At(p, {k}, "done"))
    <3>1. Puts(new(k), k, call[p].labels)
      BY <2>2, PutRows
    <3>. HIDE DEF new
    <3>. QED
      BY <2>5, <3>1, PutStep
  <2>. QED
    BY <2>1, <2>3, <2>4, <2>5
<1>. QED
  BY <1>1, <1>2, <1>3

LEMMA MongoPutMaps ==
  ASSUME TypeOK, NEW p \in Caller, MongoPut(p)
  PROVE  MapStep
<1>1. PICK k \in Key : In(p, {"put"}, {k}, "new") /\
        LET ls == call[p].labels
            kept == IF ls = {} THEN {} ELSE EntriesOf(db, k)
        IN Move(p, AddEntries(Store(RemoveEntries(db, kept), k, ls), k, ls),
                At(p, {k}, "done"))
  BY DEF MongoPut
<1>. DEFINE ls == call[p].labels
            r == RemoveEntries(db, IF ls = {} THEN {} ELSE EntriesOf(db, k))
            d == Store(r, k, ls)
            e == AddEntries(d, k, ls)
<1>2. ls \in SUBSET Label /\ Sound(db)
  BY <1>1, InCall
<1>3. Sound(r) /\ r.row = db.row /\ r.due = db.due /\ RowsWith(r, k, ls) = RowsWith(db, k, ls)
  BY <1>2, RemoveEntriesRows DEF RowsWith
<1>4. Move(p, e, At(p, {k}, "done"))
  BY <1>1
<1>. HIDE DEF r
<1>5. Puts(d, k, ls)
  BY <1>2, <1>3, StoreRows DEF Puts
<1>. HIDE DEF d
<1>6. Puts(e, k, ls)
  BY <1>2, <1>5, AddEntriesRows DEF Puts
<1>. HIDE DEF e
<1>. QED
  BY <1>1, <1>4, <1>5, <1>6, PutStep

LEMMA DynamoPutMaps ==
  ASSUME TypeOK, NEW p \in Caller, DynamoPut(p)
  PROVE  MapStep
<1>1. PICK k \in Key :
        \/ /\ In(p, {"put"}, {k}, "new")
           /\ Move(p, AddEntries(db, k, call[p].labels), At(p, {k}, "indexed"))
        \/ \E phase \in {"new", "indexed"} :
             /\ In(p, {"put"}, {k}, phase)
             /\ Move(p, Store(db, k, call[p].labels), At(p, {k}, "done"))
  BY DEF DynamoPut
<1>2. CASE /\ In(p, {"put"}, {k}, "new")
           /\ Move(p, AddEntries(db, k, call[p].labels), At(p, {k}, "indexed"))
  <2>. DEFINE d == AddEntries(db, k, call[p].labels)
              c == At(p, {k}, "indexed")
  <2>1. call[p] \in Call /\ call[p].at[k] = "new" /\ Sound(db)
        /\ call[p].labels \in SUBSET Label
    BY <1>2, InCall
  <2>2. Sound(d) /\ d.row = db.row /\ d.due = db.due
    BY <2>1, AddEntriesRows
  <2>3. "indexed" \in Phase
    BY DEF Phase
  <2>4. /\ c \in Call /\ c.op = call[p].op /\ c.labels = call[p].labels
        /\ Pending(c) = Pending(call[p]) \cup {k}
    BY <2>1, <2>3, AtTyped, PendingAt
  <2>5. k \in Pending(call[p])
    BY <2>1 DEF Pending
  <2>6. TaskOf(c) = TaskOf(call[p])
    BY <2>1, <2>4, <2>5, SameTask
  <2>7. Move(p, d, c) /\ c \in Calls
    BY <1>2, <2>4 DEF Calls
  <2>. HIDE DEF c, d
  <2>. QED
    BY <2>2, <2>6, <2>7, SilentMove
<1>3. ASSUME NEW phase \in {"new", "indexed"}, In(p, {"put"}, {k}, phase),
             Move(p, Store(db, k, call[p].labels), At(p, {k}, "done"))
      PROVE  MapStep
  <2>1. call[p].labels \in SUBSET Label
    BY <1>3, InCall
  <2>. QED
    BY <1>3, <2>1, PutRows, PutStep
<1>. QED
  BY <1>1, <1>2, <1>3
-----------------------------------------------------------------------------
(***************************************************************************)
(* Removals.                                                               *)
(***************************************************************************)
Deletes == {"delete", "deleteMany"}

LEMMA MemDeleteMaps ==
  ASSUME TypeOK, NEW p \in Caller, MemDelete(p)
  PROVE  MapStep
<1>1. PICK k \in Key : /\ In(p, Deletes, {k}, "new")
                       /\ Move(p, MemRemove(db, k), At(p, {k}, "done"))
  BY DEF MemDelete, Deletes
<1>2. call[p] \in Call /\ call[p].op \in Deletes /\ call[p].at[k] = "new" /\ Sound(db)
  BY <1>1, InCall
<1>. DEFINE d == MemRemove(db, k)
<1>3. Sound(d) /\ d.row = RowsWithout(db, {k}) /\ d.due = db.due \ {k}
  BY <1>2, MemRemoveRows
<1>. HIDE DEF d
<1>. QED
  BY <1>1, <1>2, <1>3, RemoveAt DEF d, Deletes

LEMMA SqlDeleteMaps ==
  ASSUME TypeOK, NEW p \in Caller, SqlDelete(p)
  PROVE  MapStep
<1>1. PICK k \in Key :
        \/ /\ In(p, {"delete"}, {k}, "new")
           /\ Move(p, Unmark(db, {k}), At(p, {k}, "unmarked"))
        \/ /\ In(p, {"delete"}, {k}, "unmarked")
           /\ Move(p, db, [At(p, {k}, "noted") EXCEPT !.seen = EntriesOf(db, k)])
        \/ /\ In(p, {"delete"}, {k}, "noted")
           /\ \E e \in call[p].seen :
                Move(p, RemoveEntries(db, {e}), [call[p] EXCEPT !.seen = @ \ {e}])
        \/ \E phase \in {"unmarked", "noted"} :
             /\ In(p, {"delete"}, {k}, phase)
             /\ Move(p, SqlRemove(db, {k}), At(p, {k}, "done"))
  BY DEF SqlDelete
<1>2. /\ call[p] \in Call /\ call[p].op = "delete" /\ Sound(db)
      /\ call[p].at[k] \in {"new", "unmarked", "noted"}
  BY <1>1, InCall
<1>3. CASE /\ In(p, {"delete"}, {k}, "new")
           /\ Move(p, Unmark(db, {k}), At(p, {k}, "unmarked"))
  <2>. DEFINE d == Unmark(db, {k})
              c == At(p, {k}, "unmarked")
  <2>1. Sound(d) /\ d.row = db.row /\ d.due = db.due \ {k}
    BY <1>2, UnmarkRows
  <2>2. "unmarked" \in Phase
    BY DEF Phase
  <2>3. /\ c \in Call /\ c.op = call[p].op /\ c.labels = call[p].labels
        /\ Pending(c) = Pending(call[p]) \cup {k}
    BY <1>2, <2>2, AtTyped, PendingAt
  <2>4. k \in Pending(call[p])
    BY <1>2 DEF Pending
  <2>5. TaskOf(c) = TaskOf(call[p]) /\ c \in Calls
    BY <1>2, <2>3, <2>4, SameTask DEF Calls
  <2>6. Move(p, d, c)
    BY <1>3
  <2>. HIDE DEF d, c
  <2>7. TypeOK' /\ db' = d /\ Doomed' = Doomed /\ Tasks' = [Tasks EXCEPT ![p] = TaskOf(c)]
    BY <2>1, <2>5, <2>6, MoveTyped
  <2>8. Tasks' = Tasks
    BY <2>5, <2>7 DEF Tasks
  <2>. QED
    BY <2>1, <2>7, <2>8, ExpireStep
<1>4. CASE /\ In(p, {"delete"}, {k}, "unmarked")
           /\ Move(p, db, [At(p, {k}, "noted") EXCEPT !.seen = EntriesOf(db, k)])
  <2>. DEFINE a == At(p, {k}, "noted")
              c == [a EXCEPT !.seen = EntriesOf(db, k)]
  <2>1. "noted" \in Phase /\ EntriesOf(db, k) \in SUBSET (Label \X Key)
    BY <1>2 DEF Phase, Sound, Database, EntriesOf
  <2>2. a \in Call /\ a.op = call[p].op /\ a.labels = call[p].labels
    BY <1>2, <2>1, AtTyped
  <2>3. /\ c \in Call /\ c.op = call[p].op /\ c.labels = call[p].labels
        /\ c.at = At(p, {k}, "noted").at
    <3>. HIDE DEF a
    <3>1. c \in Call /\ c.op = a.op /\ c.labels = a.labels /\ c.at = a.at
      BY <2>1, <2>2, SeenTyped
    <3>. QED
      BY <2>2, <3>1 DEF a
  <2>4. Move(p, db, c)
    BY <1>4
  <2>. HIDE DEF c
  <2>. QED
    BY <1>2, <2>1, <2>3, <2>4, PassStep
<1>5. ASSUME NEW e \in call[p].seen,
             Move(p, RemoveEntries(db, {e}), [call[p] EXCEPT !.seen = @ \ {e}])
      PROVE  MapStep
  <2>. DEFINE d == RemoveEntries(db, {e})
              c == [call[p] EXCEPT !.seen = @ \ {e}]
  <2>1. Sound(d) /\ d.row = db.row /\ d.due = db.due
    BY <1>2, RemoveEntriesRows
  <2>2. call[p].seen \ {e} \in SUBSET (Label \X Key)
    BY <1>2 DEF Call
  <2>3. c \in Call /\ c.op = call[p].op /\ c.labels = call[p].labels /\ c.at = call[p].at
    BY <1>2, <2>2, SeenTyped
  <2>4. Move(p, d, c)
    BY <1>5
  <2>. HIDE DEF d, c
  <2>5. TaskOf(c) = TaskOf(call[p]) /\ c \in Calls
    BY <1>2, <2>3, SameTask DEF Pending, Calls
  <2>. QED
    BY <2>1, <2>4, <2>5, SilentMove
<1>6. CASE Move(p, SqlRemove(db, {k}), At(p, {k}, "done"))
  <2>. DEFINE d == SqlRemove(db, {k})
  <2>1. Sound(d) /\ d.row = RowsWithout(db, {k}) /\ d.due = db.due
    BY <1>2, SqlRemoveRows
  <2>. HIDE DEF d
  <2>. QED
    BY <1>2, <1>6, <2>1, RemoveAt DEF d
<1>. QED
  BY <1>1, <1>3, <1>4, <1>5, <1>6

\* Everything the call has left goes in one request.
LEMMA ManyMaps ==
  ASSUME TypeOK, NEW p \in Caller, SqlDeleteMany(p) \/ MongoDelete(p)
  PROVE  MapStep
<1>. DEFINE keys == Left(call[p])
            u == Unmark(db, keys)
            d == Cascade(u, keys)
<1>1. In(p, Deletes, keys, "new") /\ Move(p, d, At(p, keys, "done"))
  BY DEF SqlDeleteMany, MongoDelete, In, Deletes
<1>2. /\ call[p] \in Call /\ call[p].op \in Deletes /\ Sound(db)
      /\ keys \in SUBSET Key /\ \A k \in keys : call[p].at[k] = "new"
  BY <1>1, InCall
<1>. HIDE DEF keys
<1>3. Sound(u) /\ u.row = db.row /\ u.due = db.due \ keys
  BY <1>2, UnmarkRows
<1>. HIDE DEF u
<1>4. Sound(d) /\ d.row = RowsWithout(db, keys) /\ d.due = db.due \ keys
  <2>1. RowsWithout(u, keys) = RowsWithout(db, keys)
    BY <1>3 DEF RowsWithout
  <2>. QED
    BY <1>3, <2>1, CascadeRows
<1>. HIDE DEF d
<1>. QED
  BY <1>1, <1>2, <1>4, RemoveAt DEF Deletes

LEMMA RedisDeleteMaps ==
  ASSUME TypeOK, NEW p \in Caller, RedisDelete(p)
  PROVE  MapStep
<1>1. CASE \E k \in Key :
             /\ In(p, Deletes, {k}, "new")
             /\ Move(p, db, [At(p, {k}, "noted") EXCEPT
                               !.seen = @ \cup {e \in db.back : e[2] = k}])
  <2>1. PICK k \in Key :
             /\ In(p, Deletes, {k}, "new")
             /\ Move(p, db, [At(p, {k}, "noted") EXCEPT
                               !.seen = @ \cup {e \in db.back : e[2] = k}])
    BY <1>1
  <2>2. call[p] \in Call /\ Sound(db) /\ call[p].at[k] = "new"
    BY <2>1, InCall
  <2>. DEFINE a == At(p, {k}, "noted")
              seen == a.seen \cup {e \in db.back : e[2] = k}
              c == [a EXCEPT !.seen = seen]
  <2>3. "noted" \in Phase
    BY DEF Phase
  <2>4. a \in Call /\ a.op = call[p].op /\ a.labels = call[p].labels
    BY <2>2, <2>3, AtTyped
  <2>5. /\ c \in Call /\ c.op = call[p].op /\ c.labels = call[p].labels
        /\ c.at = At(p, {k}, "noted").at
    <3>. HIDE DEF a
    <3>1. seen \in SUBSET (Label \X Key)
      BY <2>2, <2>4 DEF Sound, Database, Call
    <3>2. c \in Call /\ c.op = a.op /\ c.labels = a.labels /\ c.at = a.at
      BY <2>4, <3>1, SeenTyped
    <3>. QED
      BY <2>4, <3>2 DEF a
  <2>6. Move(p, db, c)
    BY <2>1
  <2>. HIDE DEF c
  <2>. QED
    BY <2>2, <2>3, <2>5, <2>6, PassStep
<1>2. ASSUME NEW keys, keys = Left(call[p]), In(p, Deletes, keys, "noted"),
             Move(p, [Unmark(Remove(RemoveEntries(db, call[p].seen), keys), keys) EXCEPT
                        !.back = {e \in @ : e[2] \notin keys}, !.listed = @ \ keys],
                  [At(p, keys, "done") EXCEPT !.seen = {}])
      PROVE  MapStep
  <2>1. /\ call[p] \in Call /\ call[p].op \in Deletes /\ Sound(db)
        /\ keys \in SUBSET Key /\ \A k \in keys : call[p].at[k] = "noted"
    BY <1>2, InCall
  <2>. DEFINE r == RemoveEntries(db, call[p].seen)
              w == Remove(r, keys)
              u == Unmark(w, keys)
              d == [u EXCEPT !.back = {e \in @ : e[2] \notin keys}, !.listed = @ \ keys]
              a == At(p, keys, "done")
              c == [a EXCEPT !.seen = {}]
  <2>2. Move(p, d, c)
    BY <1>2
  <2>3. Sound(r) /\ r.row = db.row /\ r.due = db.due
    BY <2>1, RemoveEntriesRows
  <2>. HIDE DEF r
  <2>4. Sound(w) /\ w.row = RowsWithout(db, keys) /\ w.due = db.due
    <3>1. RowsWithout(r, keys) = RowsWithout(db, keys)
      BY <2>3 DEF RowsWithout
    <3>. QED
      BY <2>3, <3>1, RemoveRows
  <2>. HIDE DEF w
  <2>5. Sound(u) /\ u.row = RowsWithout(db, keys) /\ u.due = db.due \ keys
    BY <2>1, <2>4, UnmarkRows
  <2>. HIDE DEF u
  <2>6. Sound(d) /\ d.row = RowsWithout(db, keys) /\ d.due = db.due \ keys
    BY <2>5 DEF Sound, Database
  <2>7. "done" \in Phase
    BY DEF Phase
  <2>8. /\ a \in Call /\ a.op = call[p].op /\ a.labels = call[p].labels
        /\ Pending(a) = Pending(call[p]) \ keys
    BY <2>1, <2>7, AtTyped, PendingAt
  <2>. HIDE DEF a
  <2>9. /\ c \in Call /\ c.op = call[p].op /\ c.labels = call[p].labels
        /\ Pending(c) = Pending(call[p]) \ keys
    <3>1. {} \in SUBSET (Label \X Key)
      OBVIOUS
    <3>2. c \in Call /\ c.op = a.op /\ c.labels = a.labels /\ c.at = a.at
      BY <2>8, <3>1, SeenTyped
    <3>. QED
      BY <2>8, <3>2 DEF Pending
  <2>. HIDE DEF c, d
  <2>. QED
    BY <2>1, <2>2, <2>6, <2>9, RemoveStep DEF Deletes
<1>. QED
  BY <1>1, <1>2 DEF RedisDelete, Deletes

LEMMA DynamoDeleteMaps ==
  ASSUME TypeOK, NEW p \in Caller, DynamoDelete(p)
  PROVE  MapStep
<1>1. PICK k \in Key :
        \/ /\ In(p, Deletes, {k}, "new")
           /\ Move(p, Unmark(Remove(db, {k}), {k}), At(p, {k}, "gone"))
        \/ /\ In(p, Deletes, {k}, "gone")
           /\ \E phase \in {"done", "loose"} :
                Move(p, db, [At(p, {k}, phase) EXCEPT !.seen = @ \cup EntriesOf(db, k)])
        \/ /\ In(p, Deletes, {k}, "loose")
           /\ \E e \in call[p].seen, keys \in {{k}, {}} :
                Move(p, RemoveEntries(db, {e}),
                     [At(p, keys, "done") EXCEPT !.seen = @ \ {e}])
  BY DEF DynamoDelete, Deletes
<1>2. /\ call[p] \in Call /\ call[p].op \in Deletes /\ Sound(db)
  BY <1>1, InCall
<1>3. CASE /\ In(p, Deletes, {k}, "new")
           /\ Move(p, Unmark(Remove(db, {k}), {k}), At(p, {k}, "gone"))
  <2>. DEFINE w == Remove(db, {k})
              d == Unmark(w, {k})
  <2>1. Sound(w) /\ w.row = RowsWithout(db, {k}) /\ w.due = db.due
    BY <1>2, RemoveRows
  <2>2. Move(p, d, At(p, {k}, "gone")) /\ call[p].at[k] = "new"
    BY <1>3, InCall
  <2>. HIDE DEF w
  <2>3. Sound(d) /\ d.row = RowsWithout(db, {k}) /\ d.due = db.due \ {k}
    BY <2>1, UnmarkRows
  <2>. HIDE DEF d
  <2>. QED
    BY <1>2, <2>2, <2>3, RemoveAt DEF Deletes
<1>4. ASSUME In(p, Deletes, {k}, "gone"), NEW phase \in {"done", "loose"},
             Move(p, db, [At(p, {k}, phase) EXCEPT !.seen = @ \cup EntriesOf(db, k)])
      PROVE  MapStep
  <2>. DEFINE a == At(p, {k}, phase)
              seen == a.seen \cup EntriesOf(db, k)
              c == [a EXCEPT !.seen = seen]
  <2>1. phase \in Phase /\ call[p].at[k] = "gone"
    BY <1>4, InCall DEF Phase
  <2>2. a \in Call /\ a.op = call[p].op /\ a.labels = call[p].labels
    BY <1>2, <2>1, AtTyped
  <2>3. /\ c \in Call /\ c.op = call[p].op /\ c.labels = call[p].labels
        /\ c.at = At(p, {k}, phase).at
    <3>. HIDE DEF a
    <3>1. seen \in SUBSET (Label \X Key)
      BY <1>2, <2>2 DEF Sound, Database, Call, EntriesOf
    <3>2. c \in Call /\ c.op = a.op /\ c.labels = a.labels /\ c.at = a.at
      BY <2>2, <3>1, SeenTyped
    <3>. QED
      BY <2>2, <3>2 DEF a
  <2>4. Move(p, db, c)
    BY <1>4
  <2>. HIDE DEF c
  <2>. QED
    BY <1>2, <2>1, <2>3, <2>4, PassStep
<1>5. ASSUME In(p, Deletes, {k}, "loose"), NEW e, NEW keys \in {{k}, {}},
             Move(p, RemoveEntries(db, {e}), [At(p, keys, "done") EXCEPT !.seen = @ \ {e}])
      PROVE  MapStep
  <2>. DEFINE d == RemoveEntries(db, {e})
              a == At(p, keys, "done")
              seen == a.seen \ {e}
              c == [a EXCEPT !.seen = seen]
  <2>1. "done" \in Phase /\ call[p].at[k] = "loose" /\ keys \in SUBSET Key
    BY <1>5, InCall DEF Phase
  <2>2. /\ a \in Call /\ a.op = call[p].op /\ a.labels = call[p].labels
        /\ Pending(a) = Pending(call[p]) \ keys
    BY <1>2, <2>1, AtTyped, PendingAt
  <2>3. Pending(call[p]) \ keys = Pending(call[p])
    BY <2>1 DEF Pending
  <2>4. Sound(d) /\ d.row = db.row /\ d.due = db.due
    BY <1>2, RemoveEntriesRows
  <2>5. Move(p, d, c)
    BY <1>5
  <2>. HIDE DEF a, d
  <2>6. seen \in SUBSET (Label \X Key)
    BY <2>2 DEF Call
  <2>. HIDE DEF seen
  <2>7. c \in Call /\ c.op = call[p].op /\ c.labels = call[p].labels
        /\ Pending(c) = Pending(call[p])
    BY <2>2, <2>3, <2>6, SeenTyped DEF Pending
  <2>. HIDE DEF c
  <2>8. TaskOf(c) = TaskOf(call[p]) /\ c \in Calls
    BY <1>2, <2>7, SameTask DEF Calls
  <2>. QED
    BY <2>4, <2>5, <2>8, SilentMove
<1>. QED
  BY <1>1, <1>3, <1>4, <1>5
-----------------------------------------------------------------------------
(***************************************************************************)
(* Finds, cleanup and expiry, and the calls' beginnings and ends.          *)
(***************************************************************************)
LEMMA WantsTyped ==
  ASSUME NEW p \in Caller, call[p] \in Call, NEW keys, NEW phase \in Phase
  PROVE  Wants(p, keys, phase) \in Call /\ Wants(p, keys, phase).op = call[p].op
<1>. DEFINE at == [k \in Key |-> IF k \in keys THEN phase ELSE "done"]
<1>1. at \in [Key -> Phase]
  BY DEF Phase
<1>2. Wants(p, keys, phase) = [call[p] EXCEPT !.at = at]
  BY DEF Wants
<1>. HIDE DEF at
<1>. QED
  BY <1>1, <1>2 DEF Call

LEMMA FindStarted ==
  ASSUME TypeOK, NEW p \in Caller, NEW op \in Finds, NEW keys, NEW phase,
         In(p, {op}, keys, phase)
  PROVE  call[p] \in Call /\ call[p].op \in Finds
BY InCall

LEMMA GivesMaps ==
  ASSUME TypeOK, NEW p \in Caller, call[p] \in Call, call[p].op \in Finds,
         NEW keys \in SUBSET Key, Gives(p, keys)
  PROVE  MapStep
<1>. DEFINE a == At(p, Key, "done")
            c == [a EXCEPT !.got = keys]
<1>1. a \in Call /\ a.op = call[p].op
  BY AtTyped DEF Phase
<1>2. Move(p, db, c)
  BY DEF Gives
<1>. HIDE DEF a
<1>3. c \in Call /\ c.op = call[p].op
  BY <1>1, GotTyped
<1>. HIDE DEF c
<1>. QED
  BY <1>2, <1>3, FindMove DEF Calls

LEMMA ReadsMaps ==
  ASSUME TypeOK, NEW p \in Caller, NEW k \in Key, NEW found, Reads(p, k, found)
  PROVE  MapStep
<1>1. call[p] \in Call /\ call[p].op = "find"
  BY InCall DEF Reads
<1>. DEFINE a == At(p, {k}, "done")
            got == IF found THEN a.got \cup {k} ELSE a.got
            c == [a EXCEPT !.got = got]
<1>2. a \in Call /\ a.op = "find"
  BY <1>1, AtTyped DEF Phase
<1>3. Move(p, db, c)
  BY DEF Reads
<1>. HIDE DEF a
<1>4. got \in SUBSET Key
  BY <1>2 DEF Call
<1>. HIDE DEF got
<1>5. c \in Call /\ c.op = "find"
  BY <1>2, <1>4, GotTyped
<1>. HIDE DEF c
<1>. QED
  BY <1>1, <1>3, <1>5, FindMove DEF Calls, Finds

LEMMA ThrowsMaps ==
  ASSUME TypeOK, NEW p \in Caller, NEW k \in Key, Throws(p, k)
  PROVE  MapStep
<1>1. call[p] \in Call /\ call[p].op = "find" /\ Move(p, db, None)
  BY InCall DEF Throws
<1>. QED
  BY <1>1, FindMove DEF Calls, Finds

LEMMA WantsMaps ==
  ASSUME TypeOK, NEW p \in Caller, call[p] \in Call, call[p].op \in Finds,
         NEW keys, NEW phase \in Phase, Move(p, db, Wants(p, keys, phase))
  PROVE  MapStep
BY WantsTyped, FindMove DEF Calls

LEMMA FindMaps ==
  ASSUME TypeOK, NEW p \in Caller,
         \/ MemGetByIndex(p) \/ MemGetAll(p) \/ SqlGetByIndex(p) \/ SqlGetAll(p)
         \/ RedisGetByIndex(p) \/ MongoGetByIndex(p) \/ MongoGetAll(p)
         \/ DynamoGetByIndex(p) \/ DynamoGetAll(p)
  PROVE  MapStep
<1>1. /\ \A c : Indexed(c) \subseteq Key
      /\ Rows(db) \subseteq Key /\ db.listed \subseteq Key /\ Left(call[p]) \subseteq Key
      /\ "wanted" \in Phase /\ "indexed" \in Phase
      /\ "find" \in Finds /\ "list" \in Finds
  BY DEF Indexed, Rows, Left, TypeOK, Database, Phase, Finds
<1>2. ASSUME NEW op \in Finds, NEW keys, NEW at, NEW got \in SUBSET Key,
             In(p, {op}, keys, at), Gives(p, got)
      PROVE  MapStep
  BY <1>2, FindStarted, GivesMaps
<1>3. ASSUME NEW op \in Finds, NEW keys, NEW at, NEW wanted, NEW phase \in Phase,
             In(p, {op}, keys, at), Move(p, db, Wants(p, wanted, phase))
      PROVE  MapStep
  BY <1>3, FindStarted, WantsMaps
<1>4. CASE MemGetByIndex(p) \/ MemGetAll(p)
  <2>1. CASE In(p, {"find"}, Key, "new") /\ Move(p, db, Wants(p, Indexed(call[p]), "wanted"))
    BY <1>1, <1>3, <2>1
  <2>2. CASE In(p, {"list"}, Key, "new") /\ Gives(p, db.listed)
    BY <1>1, <1>2, <2>2
  <2>. QED
    BY <1>1, <1>4, <2>1, <2>2, ReadsMaps, ThrowsMaps DEF MemGetByIndex, MemGetAll
<1>5. CASE SqlGetByIndex(p) \/ SqlGetAll(p)
  <2>1. CASE In(p, {"find"}, Key, "new") /\ Move(p, db, Wants(p, Indexed(call[p]), "wanted"))
    BY <1>1, <1>3, <2>1
  <2>2. CASE In(p, {"find"}, Key, "new") /\ Gives(p, Indexed(call[p]))
    BY <1>1, <1>2, <2>2
  <2>3. CASE In(p, {"list"}, Key, "new") /\ Gives(p, Rows(db))
    BY <1>1, <1>2, <2>3
  <2>. QED
    BY <1>1, <1>5, <2>1, <2>2, <2>3, ReadsMaps, ThrowsMaps DEF SqlGetByIndex, SqlGetAll
<1>6. CASE RedisGetByIndex(p)
  <2>1. CASE In(p, {"find"}, Key, "new") /\ Move(p, db, Wants(p, Indexed(call[p]), "indexed"))
    BY <1>1, <1>3, <2>1
  <2>2. CASE /\ In(p, {"find"}, Left(call[p]), "indexed")
             /\ Move(p, db, Wants(p, Left(call[p]) \cap db.listed, "wanted"))
    BY <1>1, <1>3, <2>2
  <2>3. CASE /\ In(p, {"find"}, Left(call[p]), "wanted")
             /\ Gives(p, Left(call[p]) \cap Rows(db))
    <3>1. Left(call[p]) \cap Rows(db) \in SUBSET Key
      BY <1>1
    <3>. QED
      BY <1>1, <1>2, <2>3, <3>1
  <2>. QED
    BY <1>6, <2>1, <2>2, <2>3 DEF RedisGetByIndex
<1>7. CASE MongoGetByIndex(p) \/ MongoGetAll(p)
  <2>1. CASE In(p, {"find"}, Key, "new") /\ Gives(p, Indexed(call[p]))
    BY <1>1, <1>2, <2>1
  <2>2. CASE In(p, {"list"}, Key, "new") /\ Gives(p, Rows(db))
    BY <1>1, <1>2, <2>2
  <2>. QED
    BY <1>7, <2>1, <2>2 DEF MongoGetByIndex, MongoGetAll
<1>8. CASE DynamoGetByIndex(p) \/ DynamoGetAll(p)
  <2>1. CASE In(p, {"find"}, Key, "new") /\ Move(p, db, Wants(p, Indexed(call[p]), "wanted"))
    BY <1>1, <1>3, <2>1
  <2>2. CASE In(p, {"list"}, Key, "new") /\ Gives(p, Rows(db))
    BY <1>1, <1>2, <2>2
  <2>. QED
    BY <1>8, <2>1, <2>2, ReadsMaps DEF DynamoGetByIndex, DynamoGetAll
<1>. QED
  BY <1>4, <1>5, <1>6, <1>7, <1>8

\* Redis lists, and takes keys off its list, in the background.
LEMMA RedisListMaps ==
  ASSUME TypeOK, NEW p \in Caller, RedisGetAll(p)
  PROVE  MapStep
<1>1. CASE In(p, {"list"}, Key, "new") /\ Move(p, db, Wants(p, db.listed, "wanted"))
  <2>1. call[p] \in Call /\ call[p].op \in Finds /\ "wanted" \in Phase
    BY <1>1, InCall DEF Finds, Phase
  <2>. QED
    BY <1>1, <2>1, WantsMaps
<1>2. CASE /\ In(p, {"list"}, Left(call[p]), "wanted")
           /\ cleaning' = cleaning \cup (Left(call[p]) \ Rows(db))
           /\ UNCHANGED <<sweep, started>>
           /\ Become(db, [call EXCEPT ![p] =
                [At(p, Key, "done") EXCEPT !.got = Left(call[p]) \cap Rows(db)]])
  <2>. DEFINE a == At(p, Key, "done")
              got == Left(call[p]) \cap Rows(db)
              c == [a EXCEPT !.got = got]
              cc == [call EXCEPT ![p] = c]
  <2>1. call[p] \in Call /\ call[p].op = "list" /\ Sound(db)
    BY <1>2, InCall
  <2>2. a \in Call /\ a.op = "list"
    BY <2>1, AtTyped DEF Phase
  <2>3. Become(db, cc)
    BY <1>2
  <2>. HIDE DEF a
  <2>4. got \in SUBSET Key
    BY DEF Rows
  <2>. HIDE DEF got
  <2>5. c \in Call /\ c.op = "list"
    BY <2>2, <2>4, GotTyped
  <2>. HIDE DEF c
  <2>6. cc \in [Caller -> Calls] /\ \A q \in Caller : cc[q] = IF q = p THEN c ELSE call[q]
    BY <2>5 DEF TypeOK, Calls
  <2>. HIDE DEF cc
  <2>7. /\ db' = db /\ UNCHANGED <<engine, timed>>
        /\ call' \in [Caller -> Calls] /\ torn' \subseteq Key
        /\ Tasks' = [q \in Caller |-> TaskOf(cc[q])]
    BY <2>1, <2>3, <2>6, BecomeTyped
  <2>8. Tasks' = Tasks
    <3>1. TaskOf(c) = TaskOf(call[p])
      BY <2>1, <2>5, NoTask DEF Calls, Finds
    <3>. QED
      BY <2>6, <2>7, <3>1 DEF Tasks
  <2>9. TypeOK'
    BY <1>2, <2>7 DEF TypeOK, Calls, Left
  <2>. QED
    BY <1>2, <2>7, <2>8, <2>9 DEF MapStep, Map!vars, Doomed
<1>. QED
  BY <1>1, <1>2 DEF RedisGetAll
\* The engine changes by itself, and the calls only learn of it.
LEMMA BecomeAlone ==
  ASSUME TypeOK, NEW d, Sound(d), Become(d, call), started' = started,
         cleaning' \subseteq Key,
         sweep' \in [at : {"idle", "rows", "marks", "stopped"}, keys : SUBSET Key]
  PROVE  TypeOK' /\ db' = d /\ Tasks' = Tasks
<1>1. call \in [Caller -> Calls]
  BY DEF TypeOK, Calls
<1>2. /\ db' = d /\ UNCHANGED <<engine, timed>>
      /\ call' \in [Caller -> Calls] /\ torn' \subseteq Key
      /\ Tasks' = [p \in Caller |-> TaskOf(call[p])]
  BY <1>1, BecomeTyped
<1>3. TypeOK'
  BY <1>2 DEF TypeOK, Sound, Calls
<1>. QED
  BY <1>2, <1>3 DEF Tasks

LEMMA CalmAlone ==
  ASSUME TypeOK, NEW d, Sound(d), Become(d, call), Calm,
         \A k \in Key : d.row[k] # db.row[k] => d.row[k] = None /\ k \in db.due,
         d.due \subseteq db.due
  PROVE  MapStep
<1>1. TypeOK' /\ db' = d /\ Tasks' = Tasks /\ Doomed' = Doomed
  BY BecomeAlone DEF TypeOK, Calm, Doomed
<1>. QED
  BY <1>1, ExpireStep

LEMMA ExpiryMaps ==
  ASSUME TypeOK, MemSweep \/ RedisExpire \/ MongoExpire \/ DynamoExpire
  PROVE  MapStep
<1>. USE DEF RowsWithout
<1>1. Sound(db)
  BY DEF TypeOK, Sound
<1>2. \A k \in db.due : k \in Key
  BY DEF TypeOK, Database
<1>3. ASSUME NEW k \in db.due, NEW d, Sound(d), d.row = RowsWithout(db, {k}),
             d.due = db.due \ {k}, Calm, Become(d, call)
      PROVE  MapStep
  BY <1>3, CalmAlone
<1>. HIDE DEF RowsWithout
<1>4. CASE MemSweep
  <2>1. PICK k \in db.due : Calm /\ Become(MemRemove(db, k), call)
    BY <1>4 DEF MemSweep
  <2>. QED
    BY <1>1, <1>2, <1>3, <2>1, MemRemoveRows
<1>5. CASE RedisExpire \/ DynamoExpire
  <2>1. PICK k \in db.due : Calm /\ Become(Unmark(Remove(db, {k}), {k}), call)
    BY <1>5 DEF RedisExpire, DynamoExpire
  <2>. DEFINE r == Remove(db, {k})
              d == Unmark(r, {k})
  <2>2. Sound(r) /\ r.row = RowsWithout(db, {k}) /\ r.due = db.due
    BY <1>1, RemoveRows
  <2>. HIDE DEF r
  <2>3. Sound(d) /\ d.row = RowsWithout(db, {k}) /\ d.due = db.due \ {k}
    BY <1>2, <2>2, UnmarkRows
  <2>. QED
    BY <1>3, <2>1, <2>3 DEF r
<1>6. CASE MongoExpire
  <2>1. PICK k \in db.due : Calm /\ Become(Cascade(Unmark(db, {k}), {k}), call)
    BY <1>6 DEF MongoExpire
  <2>. DEFINE u == Unmark(db, {k})
              d == Cascade(u, {k})
  <2>2. Sound(u) /\ u.row = db.row /\ u.due = db.due \ {k}
    BY <1>1, <1>2, UnmarkRows
  <2>. HIDE DEF u
  <2>3. Sound(d) /\ d.row = RowsWithout(u, {k}) /\ d.due = db.due \ {k}
    BY <2>2, CascadeRows
  <2>4. RowsWithout(u, {k}) = RowsWithout(db, {k})
    BY <2>2 DEF RowsWithout
  <2>. QED
    BY <1>3, <2>1, <2>3, <2>4 DEF u
<1>. QED
  BY <1>4, <1>5, <1>6

\* The keys that a sweep has read as due are doomed until their rows go; their
\* marks go after them.
LEMMA SqlSweepMaps ==
  ASSUME TypeOK, SqlSweep
  PROVE  MapStep
<1>1. Sound(db) /\ sweep.keys \in SUBSET Key /\ db.due \in SUBSET Key
      /\ UNCHANGED <<cleaning, started>> /\ cleaning \subseteq Key
  BY DEF TypeOK, Sound, Database, SqlSweep
<1>2. ASSUME NEW keys \in SUBSET db.due, sweep' = [at |-> "rows", keys |-> keys],
             Become(db, call)
      PROVE  MapStep
  <2>1. TypeOK' /\ db' = db /\ Tasks' = Tasks
    BY <1>1, <1>2, BecomeAlone
  <2>2. Doomed' = keys
    BY <1>2 DEF Doomed
  <2>. QED
    BY <2>1, <2>2 DEF MapStep, Map!Next, Map!Doom
<1>3. CASE /\ sweep.at = "rows" /\ sweep' = [sweep EXCEPT !.at = "marks"]
           /\ Become(SqlRemove(db, sweep.keys), call)
  <2>. DEFINE d == SqlRemove(db, sweep.keys)
  <2>1. Sound(d) /\ d.row = RowsWithout(db, sweep.keys) /\ d.due = db.due
    BY <1>1, SqlRemoveRows
  <2>2. Doomed = sweep.keys /\ Doomed' = {}
    BY <1>3 DEF Doomed, TypeOK
  <2>3. sweep' \in [at : {"idle", "rows", "marks", "stopped"}, keys : SUBSET Key]
    BY <1>3 DEF TypeOK
  <2>. HIDE DEF d
  <2>4. TypeOK' /\ db' = d /\ Tasks' = Tasks
    BY <1>1, <1>3, <2>1, <2>3, BecomeAlone DEF d
  <2>5. \A k \in Key : d.row[k] # db.row[k] => d.row[k] = None /\ k \in sweep.keys
    BY <2>1 DEF RowsWithout
  <2>. QED
    BY <2>1, <2>2, <2>4, <2>5, ExpireStep
<1>4. CASE /\ sweep.at = "marks" /\ sweep' = [at |-> "idle", keys |-> {}]
           /\ Become(Unmark(db, sweep.keys), call)
  <2>. DEFINE d == Unmark(db, sweep.keys)
  <2>1. Sound(d) /\ d.row = db.row /\ d.due = db.due \ sweep.keys
    BY <1>1, UnmarkRows
  <2>2. Doomed' = {}
    BY <1>4 DEF Doomed
  <2>. HIDE DEF d
  <2>3. TypeOK' /\ db' = d /\ Tasks' = Tasks
    BY <1>1, <1>4, <2>1, BecomeAlone DEF d
  <2>. QED
    BY <2>1, <2>2, <2>3, ExpireStep
<1>5. CASE sweep' = [at |-> "stopped", keys |-> {}] /\ Become(db, call)
  <2>1. TypeOK' /\ db' = db /\ Tasks' = Tasks
    BY <1>1, <1>5, BecomeAlone
  <2>2. Doomed' = {}
    BY <1>5 DEF Doomed
  <2>. QED
    BY <2>1, <2>2, ExpireStep
<1>. QED
  BY <1>2, <1>3, <1>4, <1>5 DEF SqlSweep

LEMMA AroundMaps ==
  ASSUME TypeOK, RedisUnlist \/ ComeDue
  PROVE  MapStep
<1>1. Sound(db) /\ db.marked \in SUBSET Key /\ db.due \in SUBSET Key
  BY DEF TypeOK, Sound, Database
<1>2. CASE RedisUnlist
  <2>1. PICK k \in cleaning :
          /\ cleaning' = cleaning \ {k} /\ UNCHANGED <<sweep, started>>
          /\ Become([db EXCEPT !.listed = @ \ {k}], call)
    BY <1>2 DEF RedisUnlist
  <2>. DEFINE d == [db EXCEPT !.listed = @ \ {k}]
  <2>2. Sound(d) /\ d.row = db.row /\ d.due = db.due
    BY <1>1 DEF Sound, Database
  <2>. HIDE DEF d
  <2>3. TypeOK' /\ db' = d /\ Tasks' = Tasks
    BY <2>1, <2>2, BecomeAlone DEF TypeOK, d
  <2>. QED
    BY <2>1, <2>2, <2>3 DEF MapStep, Map!vars, Doomed
<1>3. CASE ComeDue
  <2>1. PICK k \in db.marked \ db.due : Calm /\ Become([db EXCEPT !.due = @ \cup {k}], call)
    BY <1>3 DEF ComeDue
  <2>. DEFINE d == [db EXCEPT !.due = @ \cup {k}]
  <2>2. Sound(d) /\ d.row = db.row /\ d.due = db.due \cup {k}
    BY <1>1 DEF Sound, Database
  <2>. HIDE DEF d
  <2>3. TypeOK' /\ db' = d /\ Tasks' = Tasks /\ Doomed' = Doomed
    BY <2>1, <2>2, BecomeAlone DEF TypeOK, Calm, Doomed, d
  <2>. QED
    BY <2>2, <2>3 DEF MapStep, Map!Next, Map!Age
<1>. QED
  BY <1>2, <1>3

-----------------------------------------------------------------------------
\* A call begins: to the map, a write has all of its keys left.
LEMMA StartMaps ==
  ASSUME TypeOK, NEW p \in Caller, NEW op \in Writes \cup Finds, NEW keys \in SUBSET Key,
         NEW labels \in SUBSET Label, Start(p, op, keys, labels)
  PROVE  MapStep
<1>. DEFINE at == [k \in Key |-> IF k \in keys THEN "new" ELSE "done"]
            c == [op |-> op, labels |-> labels, at |-> at, seen |-> {}, got |-> {},
                  always |-> Key, ever |-> {}]
            cc == [call EXCEPT ![p] = c]
<1>1. /\ call[p] = None /\ started < MaxCalls /\ started' = started + 1
      /\ UNCHANGED <<sweep, cleaning>> /\ Become(db, cc)
  BY DEF Start
<1>2. at \in [Key -> Phase]
  BY DEF Phase
<1>. HIDE DEF at
<1>3. c \in Call /\ c.op = op
  BY <1>2 DEF Call
<1>. HIDE DEF c
<1>4. cc \in [Caller -> Calls] /\ \A q \in Caller : cc[q] = IF q = p THEN c ELSE call[q]
  BY <1>3 DEF TypeOK, Calls
<1>. HIDE DEF cc
<1>5. /\ db' = db /\ UNCHANGED <<engine, timed>>
      /\ call' \in [Caller -> Calls] /\ torn' \subseteq Key
      /\ Tasks' = [q \in Caller |-> TaskOf(cc[q])]
  <2>1. Sound(db)
    BY DEF TypeOK, Sound
  <2>. QED
    BY <1>1, <1>4, <2>1, BecomeTyped
<1>6. TypeOK'
  BY <1>1, <1>5, StoreAssumption DEF TypeOK, Calls
<1>7. Tasks[p] = None /\ Tasks'[p] = TaskOf(c) /\ Tasks' = [Tasks EXCEPT ![p] = Tasks'[p]]
  <2>1. Tasks[p] = None
    BY <1>1 DEF Tasks, TaskOf
  <2>2. \A q \in Caller : Tasks'[q] = IF q = p THEN TaskOf(c) ELSE Tasks[q]
    BY <1>4, <1>5 DEF Tasks
  <2>3. Tasks' = [q \in Caller |-> Tasks'[q]] /\ Tasks = [q \in Caller |-> Tasks[q]]
    BY DEF Tasks
  <2>. QED
    BY <2>1, <2>2, <2>3
<1>8. Doomed' = Doomed
  BY <1>1 DEF Doomed
<1>9. CASE op \in Finds
  <2>1. Tasks' = Tasks
    BY <1>3, <1>7, <1>9, NoTask DEF Calls, Tasks
  <2>. QED
    BY <1>5, <1>6, <1>8, <2>1 DEF MapStep, Map!vars
<1>10. CASE op \in Writes
  <2>1. op \notin Finds /\ op # "failed"
    BY <1>10 DEF Writes, Finds
  <2>2. TaskOf(c) # None /\ TaskOf(c) \in Task /\ TaskOf(c).op # "failed"
    BY <1>3, <1>10, <2>1, TaskOfWrite
  <2>. QED
    BY <1>5, <1>6, <1>7, <1>8, <2>2
       DEF MapStep, Map!Next, Map!Ask, Map!Own, Map!Task, Task
<1>. QED
  BY <1>9, <1>10

LEMMA AskMaps ==
  ASSUME TypeOK, NEW p \in Caller, Ask(p)
  PROVE  MapStep
<1>1. /\ {"put", "delete", "deleteMany", "find", "list"} \subseteq Writes \cup Finds
      /\ \A k \in Key : {k} \in SUBSET Key
      /\ \A l \in Label : {l} \in SUBSET Label
      /\ {} \in SUBSET Label /\ Key \in SUBSET Key
  BY DEF Writes, Finds
<1>2. ASSUME NEW op \in {"put", "delete", "deleteMany", "find", "list"},
             NEW keys \in SUBSET Key, NEW labels \in SUBSET Label, Start(p, op, keys, labels)
      PROVE  MapStep
  BY <1>1, <1>2, StartMaps
<1>3. CASE \E k \in Key, labels \in SUBSET Label : Start(p, "put", {k}, labels)
  BY <1>1, <1>2, <1>3
<1>4. CASE \E k \in Key : Start(p, "delete", {k}, {})
  BY <1>1, <1>2, <1>4
<1>5. CASE \E keys \in SUBSET Key \ {{}} : Start(p, "deleteMany", keys, {})
  BY <1>1, <1>2, <1>5
<1>6. CASE (\E l \in Label : Start(p, "find", Key, {l})) \/ Start(p, "list", Key, {})
  BY <1>1, <1>2, <1>6
<1>. QED
  BY <1>3, <1>4, <1>5, <1>6 DEF Ask

LEMMA AnswerMaps ==
  ASSUME TypeOK, NEW p \in Caller, Answer(p)
  PROVE  MapStep
<1>1. call[p] \in Call /\ Pending(call[p]) = {} /\ Move(p, db, None) /\ Sound(db)
  BY DEF TypeOK, Answer, Left, Pending, Sound
<1>2. TypeOK' /\ db' = db /\ Doomed' = Doomed /\ Tasks' = [Tasks EXCEPT ![p] = None]
  BY <1>1, MoveTyped, NoTask DEF Calls
<1>3. CASE call[p].op \in Finds
  <2>1. Tasks[p] = None
    BY <1>1, <1>3, NoTask DEF Tasks, Calls
  <2>2. Tasks' = Tasks
    BY <1>2, <2>1 DEF Tasks
  <2>. QED
    BY <1>2, <2>2 DEF MapStep, Map!vars
<1>4. CASE call[p].op \notin Finds
  <2>1. Tasks[p] # None /\ Tasks[p].left = {}
    BY <1>1, <1>4, TaskOfWrite DEF Tasks
  <2>. QED
    BY <1>2, <2>1 DEF MapStep, Map!Next, Map!Answer
<1>. QED
  BY <1>3, <1>4

LEMMA FailMaps ==
  ASSUME TypeOK, NEW p \in Caller, Fail(p)
  PROVE  MapStep
<1>. DEFINE c == IF call[p].op \in Writes THEN Failed ELSE None
<1>1. /\ call[p] \in Call /\ call[p].op # "failed"
      /\ db' = db /\ call' = [call EXCEPT ![p] = c] /\ Calm /\ UNCHANGED <<engine, timed>>
      /\ torn' \subseteq torn \cup Left(call[p])
  BY DEF TypeOK, Fail
<1>2. [k \in Key |-> "done"] \in [Key -> Phase]
  BY DEF Phase
<1>3. Failed \in Call /\ Failed.op = "failed" /\ Failed.labels = {} /\ Pending(Failed) = {}
  BY <1>2 DEF Failed, Call, Pending
<1>4. c \in Calls
  BY <1>3 DEF Calls
<1>5. TypeOK' /\ Doomed' = Doomed
  BY <1>1, <1>4 DEF TypeOK, Calm, Calls, Left, Doomed
<1>6. Tasks[p] = TaskOf(call[p]) /\ Tasks' = [Tasks EXCEPT ![p] = TaskOf(c)]
      /\ Tasks'[p] = TaskOf(c)
  BY <1>1, <1>4 DEF Tasks, TypeOK
<1>7. CASE call[p].op \in Writes
  <2>1. call[p].op \notin Finds /\ Failed.op \notin Finds
    BY <1>3, <1>7 DEF Writes, Finds
  <2>2. TaskOf(c) = [op |-> "failed", labels |-> {}, left |-> {}]
    BY <1>3, <1>7, <2>1, TaskOfWrite
  <2>3. Tasks[p] # None
    BY <1>1, <1>6, <2>1, TaskOfWrite
  <2>. QED
    BY <1>1, <1>5, <1>6, <2>2, <2>3 DEF MapStep, Map!Next, Map!Fail, Map!Own
<1>8. CASE call[p].op \in Finds
  <2>1. call[p].op \notin Writes
    BY <1>8 DEF Writes, Finds
  <2>2. TaskOf(c) = TaskOf(call[p])
    BY <1>1, <1>8, <2>1, NoTask DEF Calls
  <2>3. Tasks' = Tasks
    BY <1>6, <2>2 DEF Tasks
  <2>. QED
    BY <1>1, <1>5, <2>3 DEF MapStep, Map!vars
<1>. QED
  BY <1>1, <1>7, <1>8 DEF Call
-----------------------------------------------------------------------------
LEMMA StartsAsMap ==
  ASSUME Init
  PROVE  TypeOK /\ Map!Init
<1>1. [k \in Key |-> None] \in [Key -> {None} \cup SUBSET Label]
      /\ [p \in Caller |-> None] \in [Caller -> {None} \cup Call]
      /\ 0 \in 0 .. MaxCalls
  BY StoreAssumption
<1>2. TypeOK
  BY <1>1 DEF Init, TypeOK, Database
<1>3. Map!Init
  BY DEF Init, Map!Init, Tasks, TaskOf, Doomed
<1>. QED
  BY <1>2, <1>3

LEMMA EveryStepMaps ==
  ASSUME TypeOK, [Next]_vars
  PROVE  MapStep
<1>1. ASSUME NEW p \in Caller, Step(p)
      PROVE  MapStep
  BY <1>1, PutMaps, MongoPutMaps, DynamoPutMaps, MemDeleteMaps, SqlDeleteMaps, ManyMaps,
     RedisDeleteMaps, DynamoDeleteMaps, FindMaps, RedisListMaps DEF Step
<1>2. ASSUME NEW p \in Caller, Ask(p) \/ Answer(p) \/ Fail(p)
      PROVE  MapStep
  BY <1>2, AskMaps, AnswerMaps, FailMaps
<1>3. CASE Cleanup \/ ComeDue
  BY <1>3, ExpiryMaps, SqlSweepMaps, AroundMaps DEF Cleanup
<1>4. CASE UNCHANGED vars
  BY <1>4 DEF vars, MapStep, Map!vars, TypeOK, Tasks, TaskOf, Doomed
<1>. QED
  BY <1>1, <1>2, <1>3, <1>4 DEF Next

(***************************************************************************)
(* What is stored has its types, on every engine.                          *)
(***************************************************************************)
THEOREM TypeCorrect == Spec => []TypeOK
<1>1. Init => TypeOK
  BY StartsAsMap
<1>2. TypeOK /\ [Next]_vars => TypeOK'
  BY EveryStepMaps DEF MapStep
<1>. QED
  BY <1>1, <1>2, PTL DEF Spec

(***************************************************************************)
(* Whatever the engine, and however the requests of overlapping calls, the *)
(* sweeps and the expiries interleave or fail, the calls implement one map *)
(* (db/mem.ts, db/sql, db/redis.ts, db/mongo.ts, db/dynamoDb.ts).          *)
(***************************************************************************)
THEOREM EveryEngineIsMap == Spec => StoreIsMap
<1>1. Init => Map!Init
  BY StartsAsMap
<1>2. TypeOK /\ [Next]_vars => [Map!Next]_Map!vars
  BY EveryStepMaps DEF MapStep
<1>. QED
  BY <1>1, <1>2, TypeCorrect, PTL DEF Spec, StoreIsMap, Map!Spec

-----------------------------------------------------------------------------
(***************************************************************************)
(* The inductive invariant of the indexes: what the engine keeps of each   *)
(* key that is not torn, and what each call has read of it or is yet to    *)
(* do to it.  An index may be behind its record only while a call that     *)
(* will catch up is under way, so the invariant is about both.             *)
(***************************************************************************)
Writing(p) == call[p] # None /\ call[p].op \in Writes
Storing(p) == call[p] # None /\ call[p].op = "put"
Deleting(p) == call[p] # None /\ call[p].op \in Deletes

\* What an engine keeps of one key, and what a call has read of it.
BackOf(d, k) == {e \in d.back : e[2] = k}
SeenOf(c, k) == {e \in c.seen : e[2] = k}

\* What holds of all that an engine stores, also of torn keys.
StoreInv(d) ==
  /\ ~timed => d.marked = {}
  /\ engine \notin {"mem", "redis"} => d.back = {} /\ d.listed = {}
  /\ engine = "mem" => d.listed = Rows(d)
  /\ engine \in {"sql", "mongo"} => \A e \in d.entry : e[2] \in Rows(d)

\* And of a write: phases of its engine only, entries read of keys it is at,
\* and one key of a single delete.
WriteInv(c) ==
  /\ c.op = "put" => \A k \in Key : c.at[k] = "indexed" => engine = "dynamodb"
  /\ c.op \in Deletes => \A e \in c.seen : c.at[e[2]] \in {"noted", "loose"}
  /\ c.op = "delete" => \A j, k \in Key : c.at[j] # "done" /\ c.at[k] # "done" => j = k

EngineInv ==
  /\ StoreInv(db)
  /\ \A p \in Caller : Writing(p) => WriteInv(call[p])
  /\ sweep.keys # {} => timed /\ engine \in SQL
  /\ cleaning # {} => engine = "redis"

\* A put and a removal are never at a key at once: it would be torn.
PutAt(k) == \E p \in Caller : Storing(p) /\ call[p].at[k] # "done"
DeleteAt(k) == \E p \in Caller : Deleting(p) /\ call[p].at[k] # "done"
Apart(k) == PutAt(k) => k \notin sweep.keys \cup cleaning /\ ~DeleteAt(k)

\* A row is found and marked, unless a delete has begun to take it apart.
Harmed(k) ==
  engine \in SQL /\ \E p \in Caller : Deleting(p) /\ call[p].at[k] \in {"unmarked", "noted"}
Shown(k) == k \in Rows(db) =>
  /\ ~Harmed(k) => Keyed(db.row[k], k) \subseteq EntriesOf(db, k) /\ (timed => k \in db.marked)
  /\ engine \in {"mem", "redis"} => k \in db.listed

\* What is gone has left nothing, unless DynamoDB is between two requests.
Between(k) == \E p \in Caller :
  \/ Storing(p) /\ call[p].at[k] = "indexed"
  \/ Deleting(p) /\ call[p].at[k] \in {"gone", "loose"}
Leaving == timed /\ engine \in {"redis", "dynamodb", "planetscale"}
Bare(d, k) == EntriesOf(d, k) = {} /\ BackOf(d, k) = {} /\ k \notin d.listed
Swept(k) == k \notin Rows(db) => Between(k) \/ Leaving \/ Bare(db, k)

\* What a put or a delete has read or written still holds when it goes on.
PutReady(p, k) == Storing(p) =>
  /\ call[p].at[k] = "present" => k \in Rows(db)
  /\ call[p].at[k] = "indexed" => Keyed(call[p].labels, k) \subseteq EntriesOf(db, k)
DeleteReady(p, k) == Deleting(p) =>
  /\ call[p].at[k] \in {"noted", "loose"} =>
       EntriesOf(db, k) \cup BackOf(db, k) \subseteq SeenOf(call[p], k)
  /\ call[p].at[k] \in {"gone", "loose"} => k \notin Rows(db)
Ready(k) == \A p \in Caller : PutReady(p, k) /\ DeleteReady(p, k)

\* Entries are removed by the second index, and marks after the rows.
Backed(k) == engine \in {"mem", "redis"} => EntriesOf(db, k) \subseteq BackOf(db, k)
SweptFirst(k) == k \in cleaning \/ (sweep.at = "marks" /\ k \in sweep.keys) => k \notin Rows(db)

KeyInv(k) == Apart(k) /\ Shown(k) /\ Swept(k) /\ Ready(k) /\ Backed(k) /\ SweptFirst(k)

\* A find has read only what was there, and has what it must give or is yet to
\* read it; on Redis it reads all records at once.
Honest(d, c) ==
  /\ c.got \subseteq c.ever \cup Rows(d)
  /\ \A k \in c.always \cap (Visible(d, c) \ torn) : c.at[k] # "done" \/ k \in c.got
  /\ engine = "redis" /\ c.got # {} => Left(c) = {}
  /\ c.op = "find" => c.labels # {}
FindInv == \A p \in Caller : call[p] # None /\ call[p].op \in Finds =>
  /\ call[p].got \subseteq call[p].ever
  /\ \A k \in call[p].always : call[p].at[k] # "done" \/ k \in call[p].got
  /\ engine = "redis" /\ call[p].got # {} => Left(call[p]) = {}
  /\ call[p].op = "find" => call[p].labels # {}

IndexInv == TypeOK /\ EngineInv /\ FindInv /\ \A k \in Key \ torn : KeyInv(k)
IndexStep == EngineInv' /\ FindInv' /\ \A k \in Key \ torn' : KeyInv(k)'

-----------------------------------------------------------------------------
(***************************************************************************)
(* Who goes on with what.                                                  *)
(***************************************************************************)
\* A write is not at k, or in a phase that says nothing of it.
Idle(p, k) == Writing(p) => call[p].at[k] \in {"new", "absent", "done"}

\* To k, a step is nothing that p does.
Still(p, k) ==
  \/ /\ Writing(p) /\ Writing(p)'
     /\ call'[p].op = call[p].op /\ call'[p].labels = call[p].labels
     /\ call'[p].at[k] = call[p].at[k] /\ SeenOf(call'[p], k) = SeenOf(call[p], k)
  \/ Idle(p, k) /\ Idle(p, k)'

\* Nothing at all that p does.
Same(p) == (Writing(p)' <=> Writing(p)) /\ (Writing(p) => call'[p] = call[p])

LEMMA SameIsStill ==
  ASSUME NEW p \in Caller, Same(p), NEW k \in Key
  PROVE  Still(p, k)
BY DEF Same, Still, Idle

LEMMA BecomeCalls ==
  ASSUME NEW d, NEW c \in [Caller -> Calls], Become(d, c), NEW p \in Caller
  PROVE  /\ c[p] # None /\ c[p].op \in Writes => Writing(p)' /\ call'[p] = c[p]
         /\ c[p] = None \/ c[p].op \notin Writes => ~Writing(p)'
<1>1. CASE c[p] = None \/ c[p].op \notin Finds
  <2>1. call'[p] = c[p]
    BY <1>1 DEF Become
  <2>. QED
    BY <2>1 DEF Writing
<1>2. CASE ~(c[p] = None \/ c[p].op \notin Finds)
  <2>. DEFINE always == c[p].always \cap (Visible(d, c[p]) \ torn')
              ever == c[p].ever \cup Rows(d)
  <2>1. call'[p] = [c[p] EXCEPT !.always = always, !.ever = ever]
    BY <1>2 DEF Become
  <2>2. c[p] \in Call /\ c[p].op \in Finds
    BY <1>2 DEF Calls
  <2>. HIDE DEF always, ever
  <2>3. call'[p].op = c[p].op
    BY <2>1, <2>2 DEF Call
  <2>. QED
    BY <2>2, <2>3 DEF Writing, Writes, Finds
<1>. QED
  BY <1>1, <1>2

\* What a move of p is to the others, and to p.
LEMMA MoveCalls ==
  ASSUME TypeOK, NEW p \in Caller, NEW d, NEW c \in Calls, Move(p, d, c)
  PROVE  /\ \A q \in Caller \ {p} : Same(q)
         /\ c # None /\ c.op \in Writes => Writing(p)' /\ call'[p] = c
         /\ c = None \/ c.op \notin Writes => ~Writing(p)'
<1>. DEFINE cc == [call EXCEPT ![p] = c]
<1>1. cc \in [Caller -> Calls] /\ \A q \in Caller : cc[q] = IF q = p THEN c ELSE call[q]
  BY DEF TypeOK, Calls
<1>2. Become(d, cc)
  BY DEF Move
<1>. HIDE DEF cc
<1>3. ASSUME NEW q \in Caller \ {p}
      PROVE  Same(q)
  <2>1. cc[q] = call[q]
    BY <1>1
  <2>. QED
    BY <1>1, <1>2, <2>1, BecomeCalls DEF Same, Writing
<1>4. cc[p] = c
  BY <1>1
<1>. QED
  BY <1>1, <1>2, <1>3, <1>4, BecomeCalls

LEMMA AloneCalls ==
  ASSUME TypeOK, NEW d, Become(d, call), NEW p \in Caller
  PROVE  Same(p)
<1>1. call \in [Caller -> Calls]
  BY DEF TypeOK, Calls
<1>. QED
  BY <1>1, BecomeCalls DEF Same, Writing

\* A put that a removal meets leaves a torn key.
LEMMA BecomeApart ==
  ASSUME NEW d, NEW c \in [Caller -> Calls], Become(d, c), NEW k \in Key, k \notin torn'
  PROVE  Apart(k)' /\ (PutAt(k)' => k \notin Rows(db) \ Rows(d)) /\ k \notin torn
<1>1. k \notin Meeting(d, c) /\ k \notin torn
  BY DEF Become
<1>2. ASSUME NEW p \in Caller
      PROVE  /\ Storing(p)' => c[p] # None /\ c[p].op = "put" /\ c[p].at[k] = call'[p].at[k]
             /\ Deleting(p)' => /\ c[p] # None /\ c[p].op \in Writes \ {"put"}
                                /\ c[p].at[k] = call'[p].at[k]
  BY BecomeCalls DEF Storing, Deleting, Writing, Writes, Deletes
<1>3. PutAt(k)' => k \notin sweep'.keys \cup cleaning' /\ ~DeleteAt(k)' /\ k \notin Rows(db) \ Rows(d)
  BY <1>1, <1>2 DEF Meeting, PutAt, DeleteAt
<1>. QED
  BY <1>1, <1>3 DEF Apart

\* The same of a move.
LEMMA MoveApart ==
  ASSUME TypeOK, NEW p \in Caller, NEW d, NEW c \in Calls, Move(p, d, c),
         NEW k \in Key, k \notin torn'
  PROVE  Apart(k)' /\ (PutAt(k)' => k \notin Rows(db) \ Rows(d)) /\ k \notin torn
<1>1. [call EXCEPT ![p] = c] \in [Caller -> Calls] /\ Become(d, [call EXCEPT ![p] = c])
  BY DEF TypeOK, Calls, Move
<1>. QED
  BY <1>1, BecomeApart

-----------------------------------------------------------------------------
(***************************************************************************)
(* What happens to one key.                                                *)
(***************************************************************************)
\* The engine keeps of k in d what it kept in b.
AsIs(d, b, k) ==
  /\ d.row[k] = b.row[k] /\ EntriesOf(d, k) = EntriesOf(b, k) /\ BackOf(d, k) = BackOf(b, k)
  /\ k \in d.listed <=> k \in b.listed
  /\ k \in d.marked <=> k \in b.marked

LEMMA StillHarmed ==
  ASSUME NEW k, \A p \in Caller : Still(p, k), engine' = engine
  PROVE  Harmed(k)' <=> Harmed(k)
BY DEF Still, Idle, Harmed, Deleting, Writing, Deletes, Writes

LEMMA StillBetween ==
  ASSUME NEW k, \A p \in Caller : Still(p, k)
  PROVE  Between(k)' <=> Between(k)
BY DEF Still, Idle, Between, Storing, Deleting, Writing, Deletes, Writes

LEMMA StillReady ==
  ASSUME NEW p \in Caller, NEW k, Still(p, k), PutReady(p, k), DeleteReady(p, k),
         Storing(p)' /\ call'[p].at[k] # "done" =>
           /\ k \in Rows(db) => k \in Rows(db')
           /\ call'[p].at[k] = "indexed" => EntriesOf(db, k) \subseteq EntriesOf(db', k),
         Deleting(p)' /\ call'[p].at[k] # "done" =>
           /\ EntriesOf(db', k) \subseteq EntriesOf(db, k) /\ BackOf(db', k) \subseteq BackOf(db, k)
           /\ k \in Rows(db') => k \in Rows(db)
  PROVE  PutReady(p, k)' /\ DeleteReady(p, k)'
<1>1. CASE Idle(p, k)'
  BY <1>1 DEF Idle, PutReady, DeleteReady, Storing, Deleting, Writing, Deletes, Writes
<1>2. CASE ~Idle(p, k)'
  <2>1. /\ Writing(p) /\ Writing(p)'
        /\ call'[p].op = call[p].op /\ call'[p].labels = call[p].labels
        /\ call'[p].at[k] = call[p].at[k] /\ SeenOf(call'[p], k) = SeenOf(call[p], k)
        /\ call'[p].at[k] # "done"
    BY <1>2 DEF Still, Idle
  <2>2. Storing(p)' = Storing(p) /\ Deleting(p)' = Deleting(p)
    BY <2>1 DEF Storing, Deleting, Writing
  <2>3. PutReady(p, k)'
    BY <2>1, <2>2 DEF PutReady
  <2>4. DeleteReady(p, k)'
    BY <2>1, <2>2 DEF DeleteReady
  <2>. QED
    BY <2>3, <2>4
<1>. QED
  BY <1>1, <1>2

\* Nothing but that a row which is gone may lose its mark and its place.
LEMMA Untouched ==
  ASSUME NEW k \in Key, KeyInv(k), UNCHANGED <<engine, timed>>,
         db'.row[k] = db.row[k], EntriesOf(db', k) = EntriesOf(db, k),
         BackOf(db', k) = BackOf(db, k),
         k \in db'.listed => k \in db.listed,
         k \in Rows(db) =>
           (k \in db.listed => k \in db'.listed) /\ (k \in db.marked => k \in db'.marked),
         \A p \in Caller : Still(p, k), Apart(k)', SweptFirst(k)'
  PROVE  KeyInv(k)'
<1>1. k \in Rows(db') <=> k \in Rows(db)
  BY DEF Rows
<1>2. (Harmed(k)' <=> Harmed(k)) /\ (Between(k)' <=> Between(k))
  BY StillHarmed, StillBetween
<1>3. Shown(k)'
  BY <1>1, <1>2 DEF KeyInv, Shown
<1>4. Swept(k)'
  BY <1>1, <1>2 DEF KeyInv, Swept, Leaving, Bare
<1>5. Ready(k)'
  BY <1>1, StillReady DEF KeyInv, Ready
<1>6. Backed(k)'
  BY DEF KeyInv, Backed
<1>. QED
  BY <1>3, <1>4, <1>5, <1>6 DEF KeyInv

\* A put stores the record: nobody removes anything of it.
LEMMA PutKept ==
  ASSUME NEW p \in Caller, NEW k \in Key, NEW ls, KeyInv(k), UNCHANGED <<engine, timed>>,
         Storing(p), call[p].at[k] # "done", Idle(p, k)',
         \A q \in Caller \ {p} : Same(q), Apart(k)', UNCHANGED <<sweep, cleaning>>,
         db'.row[k] = Replace(db.row[k], ls), db'.row[k] # None,
         Keyed(ls, k) \subseteq EntriesOf(db', k),
         ls = {} \/ engine = "dynamodb" => EntriesOf(db, k) \subseteq EntriesOf(db', k),
         \A q \in Caller : Storing(q)' /\ call'[q].at[k] = "indexed" => engine = "dynamodb",
         timed => k \in db'.marked,
         engine \in {"mem", "redis"} =>
           k \in db'.listed /\ EntriesOf(db', k) \subseteq BackOf(db', k)
  PROVE  KeyInv(k)'
<1>1. PutAt(k) /\ k \notin sweep.keys \cup cleaning /\ ~DeleteAt(k)
  BY DEF PutAt, KeyInv, Apart
<1>2. k \in Rows(db')
  BY DEF Rows
<1>3. ~Harmed(k)
  BY <1>1 DEF Harmed, DeleteAt
<1>4. Keyed(db'.row[k], k) \subseteq EntriesOf(db', k)
  <2>1. CASE ls = {} /\ db.row[k] # None
    <3>1. db'.row[k] = db.row[k] /\ k \in Rows(db)
      BY <2>1 DEF Replace, Rows
    <3>. QED
      BY <1>3, <2>1, <3>1 DEF KeyInv, Shown
  <2>2. CASE ~(ls = {} /\ db.row[k] # None)
    BY <2>2 DEF Replace
  <2>. QED
    BY <2>1, <2>2
<1>5. Shown(k)'
  BY <1>4 DEF Shown
<1>6. Swept(k)'
  BY <1>2 DEF Swept
<1>7. Ready(k)'
  <2>1. ASSUME NEW q \in Caller
        PROVE  PutReady(q, k)' /\ DeleteReady(q, k)'
    <3>1. CASE q = p
      BY <3>1 DEF Idle, PutReady, DeleteReady, Storing, Deleting, Writing, Writes, Deletes
    <3>2. CASE q # p
      <4>1. Same(q) /\ Still(q, k) /\ PutReady(q, k) /\ DeleteReady(q, k)
        BY <3>2, SameIsStill DEF KeyInv, Ready
      <4>2. ~(Deleting(q)' /\ call'[q].at[k] # "done")
        BY <1>1, <4>1 DEF Same, DeleteAt, Deleting, Writing, Writes, Deletes
      <4>. QED
        BY <1>2, <4>1, <4>2, StillReady DEF Deleting
    <3>. QED
      BY <3>1, <3>2
  <2>. QED
    BY <2>1 DEF Ready
<1>8. Backed(k)'
  BY DEF Backed
<1>9. SweptFirst(k)'
  BY <1>1 DEF SweptFirst
<1>. QED
  BY <1>5, <1>6, <1>7, <1>8, <1>9 DEF KeyInv

\* The row of k goes, or was gone: no put counts on it.
LEMMA RemovedKept ==
  ASSUME NEW k \in Key, KeyInv(k), UNCHANGED <<engine, timed>>,
         k \notin Rows(db'), PutAt(k)' => k \notin Rows(db) \ Rows(db'), Apart(k)',
         EntriesOf(db', k) \subseteq EntriesOf(db, k), BackOf(db', k) \subseteq BackOf(db, k),
         engine = "dynamodb" => EntriesOf(db', k) = EntriesOf(db, k),
         engine \in {"mem", "redis"} => EntriesOf(db', k) \subseteq BackOf(db', k),
         Leaving \/ Between(k)' \/ Bare(db', k),
         \A p \in Caller :
           /\ Storing(p)' /\ call'[p].at[k] = "indexed" => engine = "dynamodb"
           /\ \/ Still(p, k)
              \/ Deleting(p)' /\ call'[p].at[k] \notin {"noted", "loose"}
  PROVE  KeyInv(k)'
<1>1. Shown(k)'
  BY DEF Shown
<1>2. Swept(k)'
  BY DEF Swept, Leaving
<1>3. Ready(k)'
  <2>1. ASSUME NEW p \in Caller
        PROVE  PutReady(p, k)' /\ DeleteReady(p, k)'
    <3>1. CASE Still(p, k)
      <4>1. PutReady(p, k) /\ DeleteReady(p, k)
        BY DEF KeyInv, Ready
      <4>2. Storing(p)' /\ call'[p].at[k] # "done" =>
              /\ k \in Rows(db) => k \in Rows(db')
              /\ call'[p].at[k] = "indexed" => EntriesOf(db, k) \subseteq EntriesOf(db', k)
        BY DEF PutAt
      <4>. QED
        BY <3>1, <4>1, <4>2, StillReady
    <3>2. CASE Deleting(p)' /\ call'[p].at[k] \notin {"noted", "loose"}
      BY <3>2 DEF PutReady, DeleteReady, Storing, Deleting, Deletes
    <3>. QED
      BY <3>1, <3>2
  <2>. QED
    BY <2>1 DEF Ready
<1>4. Backed(k)' /\ SweptFirst(k)'
  BY DEF Backed, SweptFirst
<1>. QED
  BY <1>1, <1>2, <1>3, <1>4 DEF KeyInv

\* A delete goes on, and the row of k stays: it may lose entries and its mark.
LEMMA DeleteMoves ==
  ASSUME NEW p \in Caller, NEW k \in Key, KeyInv(k), UNCHANGED <<engine, timed>>,
         Deleting(p), call[p].at[k] # "done", Deleting(p)', DeleteReady(p, k)',
         \A q \in Caller \ {p} : Same(q), Apart(k)', UNCHANGED <<sweep, cleaning>>,
         db'.row[k] = db.row[k],
         EntriesOf(db', k) \subseteq EntriesOf(db, k), BackOf(db', k) = BackOf(db, k),
         k \in db'.listed <=> k \in db.listed,
         k \in Rows(db) => Harmed(k)' \/ /\ EntriesOf(db', k) = EntriesOf(db, k)
                                         /\ k \in db.marked => k \in db'.marked
                                         /\ ~Harmed(k),
         Between(k) => Between(k)' \/ Bare(db', k)
  PROVE  KeyInv(k)'
<1>1. k \in Rows(db') <=> k \in Rows(db)
  BY DEF Rows
<1>2. Shown(k)'
  BY <1>1 DEF KeyInv, Shown
<1>3. Swept(k)'
  BY <1>1 DEF KeyInv, Swept, Leaving, Bare
<1>4. ~PutAt(k)
  BY DEF KeyInv, Apart, DeleteAt
<1>5. Ready(k)'
  <2>1. ASSUME NEW q \in Caller
        PROVE  PutReady(q, k)' /\ DeleteReady(q, k)'
    <3>1. CASE q = p
      BY <3>1 DEF PutReady, Storing, Deleting, Deletes
    <3>2. CASE q # p
      <4>1. Same(q) /\ Still(q, k) /\ PutReady(q, k) /\ DeleteReady(q, k)
        BY <3>2, SameIsStill DEF KeyInv, Ready
      <4>2. ~(Storing(q)' /\ call'[q].at[k] # "done")
        BY <1>4, <4>1 DEF Same, PutAt, Storing, Writing, Writes
      <4>. QED
        BY <1>1, <4>1, <4>2, StillReady
    <3>. QED
      BY <3>1, <3>2
  <2>. QED
    BY <2>1 DEF Ready
<1>6. Backed(k)'
  BY DEF KeyInv, Backed
<1>7. SweptFirst(k)'
  BY <1>1 DEF KeyInv, SweptFirst
<1>. QED
  BY <1>2, <1>3, <1>5, <1>6, <1>7 DEF KeyInv

-----------------------------------------------------------------------------
(***************************************************************************)
(* A move of p between writes, and the keys it does not touch.             *)
(***************************************************************************)
LEMMA BecomeHonest ==
  ASSUME FindInv, TypeOK, NEW d, NEW c \in [Caller -> Calls], Become(d, c), NEW p \in Caller,
         c[p] = call[p] \/ c[p] = None \/ c[p].op \notin Finds \/ Honest(d, c[p]),
         call'[p] # None, call'[p].op \in Finds
  PROVE  /\ call'[p].got \subseteq call'[p].ever
         /\ \A k \in call'[p].always : call'[p].at[k] # "done" \/ k \in call'[p].got
         /\ engine' = "redis" /\ call'[p].got # {} => Left(call'[p]) = {}
         /\ call'[p].op = "find" => call'[p].labels # {}
<1>1. c[p] # None /\ c[p].op \in Finds /\ c[p] \in Call
  <2>1. c[p] = None \/ c[p].op \notin Finds => call'[p] = c[p]
    BY DEF Become
  <2>. QED
    BY <2>1 DEF Calls
<1>. DEFINE always == c[p].always \cap (Visible(d, c[p]) \ torn')
            ever == c[p].ever \cup Rows(d)
<1>2. call'[p] = [c[p] EXCEPT !.always = always, !.ever = ever]
  BY <1>1 DEF Become
<1>3. Honest(d, c[p])
  <2>1. CASE c[p] = call[p]
    BY <1>1, <2>1 DEF FindInv, Honest
  <2>. QED
    BY <1>1, <2>1
<1>4. torn \subseteq torn' /\ engine' = engine
  BY DEF Become
<1>5. always \subseteq c[p].always \cap (Visible(d, c[p]) \ torn)
  BY <1>4
<1>6. ever = c[p].ever \cup Rows(d)
  OBVIOUS
<1>. HIDE DEF always, ever
<1>7. /\ call'[p].at = c[p].at /\ call'[p].got = c[p].got
      /\ call'[p].always = always /\ call'[p].ever = ever
      /\ call'[p].op = c[p].op /\ call'[p].labels = c[p].labels
  BY <1>1, <1>2 DEF Call
<1>8. Left(call'[p]) = Left(c[p])
  BY <1>7 DEF Left
<1>. QED
  BY <1>3, <1>4, <1>5, <1>6, <1>7, <1>8 DEF Honest

LEMMA BecomeFinds ==
  ASSUME FindInv, TypeOK, NEW d, NEW c \in [Caller -> Calls], Become(d, c),
         \A p \in Caller :
           c[p] = call[p] \/ c[p] = None \/ c[p].op \notin Finds \/ Honest(d, c[p])
  PROVE  FindInv'
BY BecomeHonest DEF FindInv

LEMMA EngineMove ==
  ASSUME TypeOK, EngineInv, FindInv, NEW p \in Caller, NEW d, NEW c \in Calls, Move(p, d, c),
         StoreInv(d), c # None /\ c.op \in Writes => WriteInv(c),
         c = None \/ c.op \notin Finds \/ Honest(d, c)
  PROVE  EngineInv' /\ FindInv'
<1>1. db' = d /\ UNCHANGED <<engine, timed, sweep, cleaning>>
  BY DEF Move, Calm, Become
<1>2. ASSUME NEW q \in Caller, Writing(q)'
      PROVE  WriteInv(call'[q])
  BY <1>2, MoveCalls DEF EngineInv, Same
<1>3. StoreInv(db)'
  BY <1>1 DEF StoreInv, Rows
<1>4. \A q \in Caller : Writing(q)' => WriteInv(call[q])'
  BY <1>1, <1>2 DEF WriteInv
<1>5. FindInv'
  <2>. DEFINE cc == [call EXCEPT ![p] = c]
  <2>1. cc \in [Caller -> Calls] /\ \A q \in Caller : cc[q] = IF q = p THEN c ELSE call[q]
    BY DEF TypeOK, Calls
  <2>2. Become(d, cc)
    BY DEF Move
  <2>. HIDE DEF cc
  <2>. QED
    BY <2>1, <2>2, BecomeFinds
<1>. QED
  BY <1>1, <1>3, <1>4, <1>5 DEF EngineInv

LEMMA OthersKept ==
  ASSUME TypeOK, \A k \in Key \ torn : KeyInv(k),
         NEW p \in Caller, NEW d, NEW c \in Calls, Move(p, d, c),
         NEW k \in Key, k \notin torn', AsIs(d, db, k),
         \/ ~Writing(p) \/ call[p].at[k] \in {"new", "absent", "done"}
         \/ /\ c # None /\ c.op \in Writes /\ c.op = call[p].op /\ c.labels = call[p].labels
            /\ SeenOf(c, k) = SeenOf(call[p], k) /\ c.at[k] = call[p].at[k],
         \/ c = None \/ c.op \notin Writes
         \/ c.at[k] \in {"new", "absent", "done"}
         \/ /\ Writing(p) /\ c.op = call[p].op /\ c.labels = call[p].labels
            /\ SeenOf(c, k) = SeenOf(call[p], k) /\ c.at[k] = call[p].at[k]
  PROVE  KeyInv(k)'
<1>1. db' = d /\ UNCHANGED <<engine, timed, sweep, cleaning>>
  BY DEF Move, Calm, Become
<1>2. Apart(k)' /\ k \notin torn
  BY MoveApart
<1>3. KeyInv(k)
  BY <1>2
<1>4. \A q \in Caller \ {p} : Still(q, k)
  BY MoveCalls, SameIsStill
<1>5. Still(p, k)
  BY MoveCalls DEF Still, Idle, Writing
<1>6. SweptFirst(k)'
  BY <1>1, <1>3 DEF KeyInv, SweptFirst, AsIs, Rows
<1>. QED
  BY <1>1, <1>2, <1>3, <1>4, <1>5, <1>6, Untouched DEF AsIs

-----------------------------------------------------------------------------
(***************************************************************************)
(* Puts keep the indexes.                                                  *)
(***************************************************************************)
\* A put wrote d.row, d.marked and these entries, and perhaps back and list.
Wrote(d, k, ls, entry) ==
  /\ d.row = RowsWith(db, k, ls) /\ d.entry = entry
  /\ d.marked = db.marked \cup (IF timed THEN {k} ELSE {})
  /\ d.back = db.back \/ d.back = db.back \cup Keyed(ls, k)
  /\ d.listed = db.listed \/ d.listed = db.listed \cup {k}

LEMMA PutsWrite ==
  ASSUME TypeOK, NEW k \in Key, NEW ls \in SUBSET Label
  PROVE  /\ Sound(Store(db, k, ls)) /\ Wrote(Store(db, k, ls), k, ls, db.entry)
         /\ Store(db, k, ls).back = db.back /\ Store(db, k, ls).listed = db.listed
         /\ Sound(SqlPuts(k, ls)) /\ Wrote(SqlPuts(k, ls), k, ls, db.entry \cup Keyed(ls, k))
         /\ SqlPuts(k, ls).back = db.back /\ SqlPuts(k, ls).listed = db.listed
         /\ Sound(MemPuts(k, ls)) /\ Wrote(MemPuts(k, ls), k, ls, db.entry \cup Keyed(ls, k))
         /\ MemPuts(k, ls).back = db.back \cup Keyed(ls, k) /\ MemPuts(k, ls).listed = db.listed
         /\ Sound(List(MemPuts(k, ls), {k}))
         /\ Wrote(List(MemPuts(k, ls), {k}), k, ls, db.entry \cup Keyed(ls, k))
         /\ List(MemPuts(k, ls), {k}).back = db.back \cup Keyed(ls, k)
         /\ List(MemPuts(k, ls), {k}).listed = db.listed \cup {k}
<1>0. Sound(db)
  BY DEF TypeOK, Sound
<1>1. /\ Sound(Store(db, k, ls)) /\ Wrote(Store(db, k, ls), k, ls, db.entry)
      /\ Store(db, k, ls).back = db.back /\ Store(db, k, ls).listed = db.listed
  BY <1>0, StoreRows DEF Wrote
<1>2. /\ Sound(SqlPuts(k, ls)) /\ Wrote(SqlPuts(k, ls), k, ls, db.entry \cup Keyed(ls, k))
      /\ SqlPuts(k, ls).back = db.back /\ SqlPuts(k, ls).listed = db.listed
  BY <1>1, AddEntriesRows DEF Wrote, SqlPuts
<1>3. /\ Sound(MemPuts(k, ls)) /\ Wrote(MemPuts(k, ls), k, ls, db.entry \cup Keyed(ls, k))
      /\ MemPuts(k, ls).back = db.back \cup Keyed(ls, k) /\ MemPuts(k, ls).listed = db.listed
  BY <1>2, AddBackRows DEF Wrote, MemPuts
<1>4. /\ Sound(List(MemPuts(k, ls), {k}))
      /\ Wrote(List(MemPuts(k, ls), {k}), k, ls, db.entry \cup Keyed(ls, k))
      /\ List(MemPuts(k, ls), {k}).back = db.back \cup Keyed(ls, k)
      /\ List(MemPuts(k, ls), {k}).listed = db.listed \cup {k}
  BY <1>3, ListRows DEF Wrote
<1>. QED
  BY <1>1, <1>2, <1>3, <1>4

LEMMA WrittenView ==
  ASSUME TypeOK, NEW k \in Key, NEW ls \in SUBSET Label, NEW d, NEW entry,
         Wrote(d, k, ls, entry), \A e \in entry : e \in db.entry \/ e[2] = k,
         \A e \in db.entry : e[2] # k => e \in entry
  PROVE  /\ \A j \in Key \ {k} : AsIs(d, db, j)
         /\ d.row[k] = Replace(db.row[k], ls) /\ d.row[k] # None
         /\ Rows(d) = Rows(db) \cup {k}
<1>1. /\ db.row \in [Key -> {None} \cup SUBSET Label]
      /\ db.entry \in SUBSET (Label \X Key) /\ db.back \in SUBSET (Label \X Key)
  BY DEF TypeOK, Database
<1>2. d.row[k] = Replace(db.row[k], ls) /\ \A j \in Key \ {k} : d.row[j] = db.row[j]
  BY <1>1 DEF Wrote, RowsWith
<1>3. d.row[k] # None
  BY <1>2, StoreAssumption DEF Replace
<1>4. Rows(d) = Rows(db) \cup {k}
  BY <1>2, <1>3 DEF Rows
<1>5. ASSUME NEW j \in Key \ {k}
      PROVE  AsIs(d, db, j)
  <2>1. EntriesOf(d, j) = EntriesOf(db, j)
    BY DEF Wrote, EntriesOf
  <2>2. BackOf(d, j) = BackOf(db, j)
    BY DEF Wrote, BackOf, Keyed
  <2>3. (j \in d.listed <=> j \in db.listed) /\ (j \in d.marked <=> j \in db.marked)
    BY DEF Wrote
  <2>. QED
    BY <1>2, <2>1, <2>2, <2>3 DEF AsIs
<1>. QED
  BY <1>2, <1>3, <1>4, <1>5

\* What a put of k by p must have done by its last request.
LEMMA PutIndexed ==
  ASSUME IndexInv, NEW p \in Caller, NEW k \in Key, NEW phase, NEW d, NEW entry,
         In(p, {"put"}, {k}, phase), phase # "done", Sound(d),
         Move(p, d, At(p, {k}, "done")), StoreInv(d),
         Wrote(d, k, call[p].labels, entry), \A e \in entry : e \in db.entry \/ e[2] = k,
         \A e \in db.entry : e[2] # k => e \in entry,
         k \notin torn' => Keyed(call[p].labels, k) \subseteq entry,
         call[p].labels = {} \/ engine = "dynamodb" => db.entry \subseteq entry,
         k \notin torn' /\ engine \in {"mem", "redis"} =>
           k \in d.listed /\ EntriesOf(d, k) \subseteq BackOf(d, k)
  PROVE  IndexStep
<1>. DEFINE ls == call[p].labels
            c == At(p, {k}, "done")
<1>1. TypeOK /\ EngineInv /\ FindInv /\ \A j \in Key \ torn : KeyInv(j)
  BY DEF IndexInv
<1>2. call[p] \in Call /\ call[p].op = "put" /\ ls \in SUBSET Label /\ call[p].at[k] = phase
  BY <1>1, InCall
<1>3. /\ c \in Call /\ c.op = "put" /\ c.labels = ls /\ c.at[k] = "done" /\ c.seen = call[p].seen
      /\ \A j \in Key \ {k} : c.at[j] = call[p].at[j]
  BY <1>2, AtTyped DEF Phase
<1>4. Writing(p) /\ Storing(p) /\ call[p] # None /\ c # None /\ c \in Calls
  BY <1>2, <1>3, NoneIsNoCall DEF Writing, Storing, Writes, Calls
<1>5. Move(p, d, c)
  OBVIOUS
<1>. HIDE DEF c
<1>6. WriteInv(c)
  BY <1>1, <1>2, <1>3, <1>4 DEF EngineInv, WriteInv, Deletes
<1>7. EngineInv' /\ FindInv'
  <2>1. c.op \notin Finds
    BY <1>3 DEF Finds
  <2>. QED
    BY <1>1, <1>4, <1>5, <1>6, <2>1, EngineMove
<1>8. /\ \A j \in Key \ {k} : AsIs(d, db, j)
      /\ d.row[k] = Replace(db.row[k], ls) /\ d.row[k] # None
  <2>1. TypeOK /\ ls \in SUBSET Label /\ Wrote(d, k, ls, entry)
    BY <1>1, <1>2
  <2>2. (\A e \in entry : e \in db.entry \/ e[2] = k) /\ \A e \in db.entry : e[2] # k => e \in entry
    OBVIOUS
  <2>. HIDE DEF ls
  <2>. QED
    BY ONLY <2>1, <2>2, k \in Key, WrittenView
<1>9. ASSUME NEW j \in Key \ {k}, j \notin torn'
      PROVE  KeyInv(j)'
  <2>1. c.op \in Writes /\ c.op = call[p].op /\ SeenOf(c, j) = SeenOf(call[p], j)
    BY <1>2, <1>3 DEF Writes, SeenOf
  <2>2. c.at[j] = call[p].at[j] /\ AsIs(d, db, j)
    BY <1>3, <1>8, <1>9
  <2>. QED
    BY <1>1, <1>3, <1>4, <1>5, <1>9, <2>1, <2>2, OthersKept
<1>10. ASSUME k \notin torn'
       PROVE  KeyInv(k)'
  <2>1. db' = d /\ UNCHANGED <<engine, timed, sweep, cleaning>>
    BY <1>5 DEF Move, Calm, Become
  <2>2. Apart(k)' /\ KeyInv(k)
    BY <1>1, <1>4, <1>5, <1>10, MoveApart
  <2>3. call'[p] = c /\ \A q \in Caller \ {p} : Same(q)
    BY <1>1, <1>3, <1>4, <1>5, MoveCalls DEF Writes
  <2>4. Idle(p, k)'
    BY <1>3, <2>3 DEF Idle
  <2>5. \A q \in Caller : Storing(q)' /\ call'[q].at[k] = "indexed" => engine = "dynamodb"
    BY <1>7, <2>1 DEF EngineInv, WriteInv, Storing, Writing, Writes
  <2>6. Keyed(ls, k) \subseteq EntriesOf(d, k)
    BY <1>10 DEF Wrote, EntriesOf, Keyed
  <2>7. ls = {} \/ engine = "dynamodb" => EntriesOf(db, k) \subseteq EntriesOf(d, k)
    BY DEF Wrote, EntriesOf
  <2>8. timed => k \in d.marked
    BY DEF Wrote
  <2>. QED
    BY <1>2, <1>4, <1>8, <1>10, <2>1, <2>2, <2>3, <2>4, <2>5, <2>6, <2>7, <2>8, PutKept
<1>. QED
  BY <1>7, <1>9, <1>10 DEF IndexStep

\* A put on Redis learns whether the record is there.
LEMMA PutReads ==
  ASSUME IndexInv, NEW p \in Caller, NEW k \in Key, NEW phase \in {"present", "absent"},
         In(p, {"put"}, {k}, "new"), engine = "redis",
         Move(p, db, At(p, {k}, phase)), phase = "present" => k \in Rows(db)
  PROVE  IndexStep
<1>. DEFINE c == At(p, {k}, phase)
<1>1. TypeOK /\ EngineInv /\ FindInv /\ \A j \in Key \ torn : KeyInv(j)
  BY DEF IndexInv
<1>2. call[p] \in Call /\ call[p].op = "put" /\ call[p].at[k] = "new"
  BY <1>1, InCall
<1>3. /\ c \in Call /\ c.op = "put" /\ c.labels = call[p].labels /\ c.at[k] = phase
      /\ c.seen = call[p].seen /\ \A j \in Key \ {k} : c.at[j] = call[p].at[j]
  BY <1>2, AtTyped DEF Phase
<1>4. Writing(p) /\ Storing(p) /\ call[p] # None /\ c # None /\ c \in Calls
  BY <1>2, <1>3, NoneIsNoCall DEF Writing, Storing, Writes, Calls
<1>5. Move(p, db, c)
  OBVIOUS
<1>. HIDE DEF c
<1>6. WriteInv(c) /\ StoreInv(db)
  BY <1>1, <1>2, <1>3, <1>4 DEF EngineInv, WriteInv, Deletes
<1>7. EngineInv' /\ FindInv'
  <2>1. c.op \notin Finds
    BY <1>3 DEF Finds
  <2>. QED
    BY <1>1, <1>4, <1>5, <1>6, <2>1, EngineMove
<1>8. ASSUME NEW j \in Key, j \notin torn', j # k \/ phase = "absent"
      PROVE  KeyInv(j)'
  <2>1. c.op \in Writes /\ c.op = call[p].op /\ SeenOf(c, j) = SeenOf(call[p], j) /\ AsIs(db, db, j)
    BY <1>2, <1>3 DEF Writes, SeenOf, AsIs
  <2>2. c.at[j] = call[p].at[j] \/ (c.at[j] = "absent" /\ call[p].at[j] = "new")
    BY <1>2, <1>3, <1>8
  <2>. QED
    BY <1>1, <1>3, <1>4, <1>5, <1>8, <2>1, <2>2, OthersKept
<1>9. ASSUME k \notin torn', phase = "present"
      PROVE  KeyInv(k)'
  <2>1. db' = db /\ UNCHANGED <<engine, timed, sweep, cleaning>>
    BY <1>5 DEF Move, Calm, Become
  <2>2. Apart(k)' /\ KeyInv(k)
    BY <1>1, <1>4, <1>5, <1>9, MoveApart
  <2>3. call'[p] = c /\ Storing(p)' /\ \A q \in Caller \ {p} : Same(q)
    BY <1>1, <1>3, <1>4, <1>5, MoveCalls DEF Writes, Storing, Writing
  <2>4. \A q \in Caller \ {p} : Still(q, k)
    BY <2>3, SameIsStill
  <2>5. (Between(k)' <=> Between(k)) /\ ~Harmed(k)'
    BY <1>2, <1>3, <1>4, <1>9, <2>1, <2>3, <2>4
       DEF Between, Harmed, Same, Storing, Deleting, Writing, Writes, Deletes, SQL
  <2>6. Shown(k)' /\ Swept(k)' /\ Backed(k)' /\ SweptFirst(k)'
    <3>1. ~Harmed(k)
      BY DEF Harmed, SQL
    <3>. QED
      BY <2>1, <2>2, <2>5, <3>1 DEF KeyInv, Shown, Swept, Backed, SweptFirst, Leaving
  <2>7. ASSUME NEW q \in Caller
        PROVE  PutReady(q, k)' /\ DeleteReady(q, k)'
    <3>1. CASE q = p
      BY <1>3, <1>9, <2>1, <2>3, <3>1 DEF PutReady, DeleteReady, Storing, Deleting, Deletes
    <3>2. CASE q # p
      BY <2>1, <2>2, <2>4, <3>2, StillReady DEF KeyInv, Ready
    <3>. QED
      BY <3>1, <3>2
  <2>. QED
    BY <2>2, <2>6, <2>7 DEF KeyInv, Ready
<1>. QED
  BY <1>3, <1>7, <1>8, <1>9 DEF IndexStep

LEMMA WrittenStore ==
  ASSUME IndexInv, NEW k \in Key, NEW ls \in SUBSET Label, NEW d, NEW entry,
         Wrote(d, k, ls, entry), \A e \in entry : e \in db.entry \/ e[2] = k,
         \A e \in db.entry : e[2] # k => e \in entry,
         engine \notin {"mem", "redis"} => d.back = db.back /\ d.listed = db.listed,
         engine = "mem" => d.listed = db.listed \cup {k}
  PROVE  StoreInv(d)
<1>1. StoreInv(db) /\ TypeOK
  BY DEF IndexInv, EngineInv
<1>2. Rows(d) = Rows(db) \cup {k}
  <2>1. Wrote(d, k, ls, entry) /\ (\A e \in entry : e \in db.entry \/ e[2] = k)
        /\ (\A e \in db.entry : e[2] # k => e \in entry)
    OBVIOUS
  <2>. QED
    BY ONLY <1>1, <2>1, k \in Key, ls \in SUBSET Label, WrittenView
<1>3. d.entry = entry /\ d.marked = db.marked \cup (IF timed THEN {k} ELSE {})
  BY DEF Wrote
<1>. QED
  BY <1>1, <1>2, <1>3 DEF StoreInv

\* In memory and on Redis the entries written are in the second index too.
LEMMA WrittenBack ==
  ASSUME IndexInv, NEW k \in Key, NEW ls, NEW d, k \notin torn, engine \in {"mem", "redis"},
         d.entry = db.entry \cup Keyed(ls, k), d.back = db.back \cup Keyed(ls, k)
  PROVE  EntriesOf(d, k) \subseteq BackOf(d, k)
<1>1. EntriesOf(db, k) \subseteq BackOf(db, k)
  BY DEF IndexInv, KeyInv, Backed
<1>. QED
  BY <1>1 DEF EntriesOf, BackOf

LEMMA PutStays ==
  ASSUME IndexInv, NEW p \in Caller, NEW k \in Key, NEW phase, NEW d,
         In(p, {"put"}, {k}, phase), phase # "done", Sound(d), Move(p, d, At(p, {k}, "done")),
         Wrote(d, k, call[p].labels, db.entry \cup Keyed(call[p].labels, k)),
         engine \notin {"mem", "redis"} => d.back = db.back /\ d.listed = db.listed,
         engine \in {"mem", "redis"} => d.back = db.back \cup Keyed(call[p].labels, k),
         engine = "mem" => d.listed = db.listed \cup {k},
         engine = "redis" /\ k \notin torn => k \in d.listed
  PROVE  IndexStep
<1>. DEFINE ls == call[p].labels
            entry == db.entry \cup Keyed(ls, k)
<1>1. ls \in SUBSET Label /\ call[p] \in Call
  BY InCall DEF IndexInv
<1>2. /\ \A e \in entry : e \in db.entry \/ e[2] = k
      /\ \A e \in db.entry : e[2] # k => e \in entry
      /\ Keyed(ls, k) \subseteq entry /\ db.entry \subseteq entry
  BY DEF Keyed
<1>3. d.entry = entry /\ Wrote(d, k, ls, entry)
  BY DEF Wrote
<1>4. StoreInv(d)
  <2>. HIDE DEF ls, entry
  <2>. QED
    BY <1>1, <1>2, <1>3, WrittenStore
<1>5. k \notin torn' => k \notin torn
  <2>1. At(p, {k}, "done") \in Calls /\ TypeOK
    BY <1>1, AtTyped DEF Phase, Calls, IndexInv
  <2>. QED
    BY <2>1, MoveApart
<1>6. k \notin torn' /\ engine \in {"mem", "redis"} =>
        k \in d.listed /\ EntriesOf(d, k) \subseteq BackOf(d, k)
  BY <1>3, <1>5, WrittenBack
<1>. HIDE DEF entry
<1>. QED
  BY <1>2, <1>3, <1>4, <1>6, PutIndexed

LEMMA PutsKept ==
  ASSUME IndexInv, NEW p \in Caller, MemPut(p) \/ SqlPut(p) \/ RedisPut(p)
  PROVE  IndexStep
<1>0. TypeOK
  BY DEF IndexInv
<1>1. CASE MemPut(p)
  <2>1. PICK k \in Key : In(p, {"put"}, {k}, "new") /\
          Move(p, List(MemPuts(k, call[p].labels), {k}), At(p, {k}, "done"))
    BY <1>1 DEF MemPut, MemPuts, SqlPuts
  <2>2. call[p].labels \in SUBSET Label /\ engine = "mem"
    BY <1>0, <1>1, <2>1, InCall DEF MemPut, On
  <2>. QED
    BY <1>0, <2>1, <2>2, PutsWrite, PutStays
<1>2. CASE SqlPut(p)
  <2>1. PICK k \in Key : In(p, {"put"}, {k}, "new") /\
          Move(p, SqlPuts(k, call[p].labels), At(p, {k}, "done"))
    BY <1>2 DEF SqlPut, SqlPuts
  <2>2. call[p].labels \in SUBSET Label /\ engine \notin {"mem", "redis"}
    BY <1>0, <1>2, <2>1, InCall DEF SqlPut, On, SQL
  <2>. QED
    BY <1>0, <2>1, <2>2, PutsWrite, PutStays
<1>3. CASE RedisPut(p)
  <2>. DEFINE new(k) == MemPuts(k, call[p].labels)
  <2>0. engine = "redis"
    BY <1>3 DEF RedisPut, On
  <2>1. PICK k \in Key :
          \/ /\ In(p, {"put"}, {k}, "new")
             /\ Move(p, db, At(p, {k}, IF k \in Rows(db) THEN "present" ELSE "absent"))
          \/ In(p, {"put"}, {k}, "absent") /\ Move(p, List(new(k), {k}), At(p, {k}, "done"))
          \/ In(p, {"put"}, {k}, "present") /\ Move(p, new(k), At(p, {k}, "done"))
    BY <1>3 DEF RedisPut, MemPuts, SqlPuts
  <2>2. call[p].labels \in SUBSET Label /\ call[p] \in Call
    BY <1>0, <2>1, InCall
  <2>3. CASE In(p, {"put"}, {k}, "absent") /\ Move(p, List(new(k), {k}), At(p, {k}, "done"))
    BY <1>0, <2>0, <2>2, <2>3, PutsWrite, PutStays
  <2>4. CASE In(p, {"put"}, {k}, "present") /\ Move(p, new(k), At(p, {k}, "done"))
    <3>1. k \notin torn => k \in db.listed
      <4>1. Storing(p) /\ call[p].at[k] = "present"
        BY <2>4 DEF Storing, In
      <4>. QED
        BY <2>0, <4>1 DEF IndexInv, KeyInv, Shown, Ready, PutReady
    <3>. QED
      BY <1>0, <2>0, <2>2, <2>4, <3>1, PutsWrite, PutStays
  <2>5. CASE /\ In(p, {"put"}, {k}, "new")
             /\ Move(p, db, At(p, {k}, IF k \in Rows(db) THEN "present" ELSE "absent"))
    <3>1. PICK phase \in {"present", "absent"} :
            Move(p, db, At(p, {k}, phase)) /\ (phase = "present" => k \in Rows(db))
      BY <2>5
    <3>. QED
      BY <2>0, <2>5, <3>1, PutReads
  <2>. QED
    BY <2>1, <2>3, <2>4, <2>5
<1>. QED
  BY <1>1, <1>2, <1>3

LEMMA MongoPutKept ==
  ASSUME IndexInv, NEW p \in Caller, MongoPut(p)
  PROVE  IndexStep
<1>0. TypeOK
  BY DEF IndexInv
<1>1. PICK k \in Key : In(p, {"put"}, {k}, "new") /\
        LET ls == call[p].labels
            kept == IF ls = {} THEN {} ELSE EntriesOf(db, k)
        IN Move(p, AddEntries(Store(RemoveEntries(db, kept), k, ls), k, ls),
                At(p, {k}, "done"))
  BY DEF MongoPut
<1>. DEFINE ls == call[p].labels
            kept == IF ls = {} THEN {} ELSE EntriesOf(db, k)
            r == RemoveEntries(db, kept)
            s == Store(r, k, ls)
            d == AddEntries(s, k, ls)
            entry == (db.entry \ kept) \cup Keyed(ls, k)
<1>2. ls \in SUBSET Label /\ Sound(db) /\ engine = "mongo"
  BY <1>0, <1>1, InCall DEF MongoPut, On
<1>3. Move(p, d, At(p, {k}, "done"))
  BY <1>1
<1>4. /\ \A e \in entry : e \in db.entry \/ e[2] = k
      /\ \A e \in db.entry : e[2] # k => e \in entry
      /\ Keyed(ls, k) \subseteq entry /\ (ls = {} => db.entry \subseteq entry)
  BY DEF Keyed, EntriesOf
<1>. HIDE DEF kept
<1>5. /\ Sound(r) /\ r.row = db.row /\ r.marked = db.marked /\ r.entry = db.entry \ kept
      /\ r.back = db.back /\ r.listed = db.listed /\ RowsWith(r, k, ls) = RowsWith(db, k, ls)
  BY <1>2, RemoveEntriesRows DEF RowsWith
<1>. HIDE DEF r
<1>6. /\ Sound(s) /\ s.row = RowsWith(db, k, ls) /\ s.entry = db.entry \ kept
      /\ s.marked = db.marked \cup (IF timed THEN {k} ELSE {})
      /\ s.back = db.back /\ s.listed = db.listed
  BY <1>2, <1>5, StoreRows
<1>. HIDE DEF s
<1>7. /\ Sound(d) /\ d.row = RowsWith(db, k, ls) /\ d.entry = entry
      /\ d.marked = db.marked \cup (IF timed THEN {k} ELSE {})
      /\ d.back = db.back /\ d.listed = db.listed
  BY <1>2, <1>6, AddEntriesRows
<1>. HIDE DEF d, entry
<1>8. Wrote(d, k, ls, entry)
  BY <1>7 DEF Wrote
<1>9. StoreInv(d)
  <2>. HIDE DEF ls
  <2>. QED
    BY <1>2, <1>4, <1>7, <1>8, WrittenStore
<1>. QED
  BY <1>1, <1>2, <1>3, <1>4, <1>7, <1>8, <1>9, PutIndexed

\* DynamoDB has the entries of a record before the record.
LEMMA EntriesFirst ==
  ASSUME IndexInv, NEW p \in Caller, NEW k \in Key,
         In(p, {"put"}, {k}, "new"), engine = "dynamodb",
         Move(p, AddEntries(db, k, call[p].labels), At(p, {k}, "indexed"))
  PROVE  IndexStep
<1>. DEFINE c == At(p, {k}, "indexed")
            ls == call[p].labels
            d == AddEntries(db, k, ls)
<1>1. TypeOK /\ EngineInv /\ FindInv /\ \A j \in Key \ torn : KeyInv(j)
  BY DEF IndexInv
<1>2. call[p] \in Call /\ call[p].op = "put" /\ call[p].at[k] = "new" /\ ls \in SUBSET Label
      /\ Sound(db)
  BY <1>1, InCall
<1>3. /\ c \in Call /\ c.op = "put" /\ c.labels = ls /\ c.at[k] = "indexed"
      /\ c.seen = call[p].seen /\ \A j \in Key \ {k} : c.at[j] = call[p].at[j]
  BY <1>2, AtTyped DEF Phase
<1>4. Writing(p) /\ Storing(p) /\ call[p] # None /\ c # None /\ c \in Calls
  BY <1>2, <1>3, NoneIsNoCall DEF Writing, Storing, Writes, Calls
<1>5. /\ d.row = db.row /\ d.marked = db.marked /\ d.entry = db.entry \cup Keyed(ls, k)
      /\ d.back = db.back /\ d.listed = db.listed
  BY <1>2, AddEntriesRows
<1>6. Move(p, d, c)
  OBVIOUS
<1>. HIDE DEF c, d
<1>7. /\ EntriesOf(d, k) = EntriesOf(db, k) \cup Keyed(ls, k)
      /\ \A j \in Key : BackOf(d, j) = BackOf(db, j)
      /\ \A j \in Key \ {k} : AsIs(d, db, j)
  BY <1>5 DEF EntriesOf, BackOf, Keyed, AsIs
<1>8. WriteInv(c) /\ StoreInv(d)
  BY <1>1, <1>2, <1>3, <1>4, <1>5 DEF EngineInv, WriteInv, StoreInv, Deletes, Rows
<1>9. EngineInv' /\ FindInv'
  <2>1. c.op \notin Finds
    BY <1>3 DEF Finds
  <2>. QED
    BY <1>1, <1>4, <1>6, <1>8, <2>1, EngineMove
<1>10. ASSUME NEW j \in Key \ {k}, j \notin torn'
       PROVE  KeyInv(j)'
  <2>1. c.op \in Writes /\ c.op = call[p].op /\ SeenOf(c, j) = SeenOf(call[p], j) /\ AsIs(d, db, j)
    BY <1>2, <1>3, <1>7 DEF Writes, SeenOf
  <2>2. c.at[j] = call[p].at[j]
    BY <1>3
  <2>. QED
    BY <1>1, <1>3, <1>4, <1>6, <1>10, <2>1, <2>2, OthersKept
<1>11. ASSUME k \notin torn'
       PROVE  KeyInv(k)'
  <2>1. db' = d /\ UNCHANGED <<engine, timed, sweep, cleaning>>
    BY <1>6 DEF Move, Calm, Become
  <2>2. Apart(k)' /\ KeyInv(k)
    BY <1>1, <1>4, <1>6, <1>11, MoveApart
  <2>3. call'[p] = c /\ Storing(p)' /\ \A q \in Caller \ {p} : Same(q)
    BY <1>1, <1>3, <1>4, <1>6, MoveCalls DEF Writes, Storing, Writing
  <2>4. PutAt(k)' /\ Between(k)'
    BY <1>3, <2>3 DEF PutAt, Between
  <2>5. ~DeleteAt(k)' /\ k \notin Rows(db) \ Rows(d) /\ (k \in Rows(d) <=> k \in Rows(db))
    BY <1>5, <2>2, <2>4 DEF Apart, Rows
  <2>6. ~Harmed(k)
    BY DEF Harmed, SQL
  <2>7. Shown(k)' /\ Swept(k)' /\ Backed(k)' /\ SweptFirst(k)'
    BY <1>5, <1>7, <2>1, <2>2, <2>4, <2>5, <2>6 DEF KeyInv, Shown, Swept, Backed, SweptFirst
  <2>8. ASSUME NEW q \in Caller
        PROVE  PutReady(q, k)' /\ DeleteReady(q, k)'
    <3>1. CASE q = p
      BY <1>3, <1>7, <2>1, <2>3, <3>1 DEF PutReady, DeleteReady, Storing, Deleting, Deletes
    <3>2. CASE q # p
      <4>1. Still(q, k) /\ PutReady(q, k) /\ DeleteReady(q, k)
        BY <2>2, <2>3, <3>2, SameIsStill DEF KeyInv, Ready
      <4>2. ~(Deleting(q)' /\ call'[q].at[k] # "done")
        BY <2>5 DEF DeleteAt
      <4>. QED
        BY <1>7, <2>1, <2>5, <4>1, <4>2, StillReady
    <3>. QED
      BY <3>1, <3>2
  <2>. QED
    BY <2>2, <2>7, <2>8 DEF KeyInv, Ready
<1>. QED
  BY <1>9, <1>10, <1>11 DEF IndexStep

LEMMA DynamoPutKept ==
  ASSUME IndexInv, NEW p \in Caller, DynamoPut(p)
  PROVE  IndexStep
<1>0. TypeOK /\ engine = "dynamodb"
  BY DEF IndexInv, DynamoPut, On
<1>1. PICK k \in Key :
        \/ /\ In(p, {"put"}, {k}, "new")
           /\ Move(p, AddEntries(db, k, call[p].labels), At(p, {k}, "indexed"))
        \/ /\ In(p, {"put"}, {k}, IF call[p].labels = {} THEN "new" ELSE "indexed")
           /\ Move(p, Store(db, k, call[p].labels), At(p, {k}, "done"))
  BY DEF DynamoPut
<1>2. CASE /\ In(p, {"put"}, {k}, "new")
           /\ Move(p, AddEntries(db, k, call[p].labels), At(p, {k}, "indexed"))
  BY <1>0, <1>2, EntriesFirst
<1>3. CASE /\ In(p, {"put"}, {k}, IF call[p].labels = {} THEN "new" ELSE "indexed")
           /\ Move(p, Store(db, k, call[p].labels), At(p, {k}, "done"))
  <2>. DEFINE ls == call[p].labels
              d == Store(db, k, ls)
  <2>1. PICK phase : phase = (IF ls = {} THEN "new" ELSE "indexed") /\ In(p, {"put"}, {k}, phase)
    BY <1>3
  <2>2. phase # "done"
    BY <2>1
  <2>3. ls \in SUBSET Label /\ call[p] \in Call /\ call[p].at[k] = phase /\ Storing(p)
    <3>1. ls \in SUBSET Label /\ call[p] \in Call /\ call[p].at[k] = phase /\ call[p].op = "put"
      BY <1>0, <2>1, InCall
    <3>. QED
      BY <3>1, NoneIsNoCall DEF Storing
  <2>4. /\ Sound(d) /\ Wrote(d, k, ls, db.entry) /\ d.back = db.back /\ d.listed = db.listed
    BY <1>0, <2>3, PutsWrite
  <2>5. Move(p, d, At(p, {k}, "done"))
    BY <1>3
  <2>. HIDE DEF d
  <2>6. k \notin torn' => Keyed(ls, k) \subseteq db.entry
    <3>1. CASE ls = {}
      BY <3>1 DEF Keyed
    <3>2. CASE ls # {}
      <4>1. At(p, {k}, "done") \in Calls
        BY <2>3, AtTyped DEF Phase, Calls
      <4>2. k \notin torn' => k \notin torn
        BY <1>0, <2>5, <4>1, MoveApart
      <4>3. call[p].at[k] = "indexed"
        BY <2>1, <2>3, <3>2
      <4>. QED
        BY <2>3, <4>2, <4>3 DEF IndexInv, KeyInv, Ready, PutReady, EntriesOf
    <3>. QED
      BY <3>1, <3>2
  <2>7. StoreInv(d)
    <3>. HIDE DEF ls
    <3>. QED
      BY <1>0, <2>3, <2>4, WrittenStore
  <2>. QED
    BY <1>0, <2>1, <2>2, <2>4, <2>5, <2>6, <2>7, PutIndexed
<1>. QED
  BY <1>1, <1>2, <1>3

-----------------------------------------------------------------------------
(***************************************************************************)
(* Deletes keep the indexes.                                               *)
(***************************************************************************)
\* To the key j, the move of a call to c and of the engine to d is nothing.
Spared(p, d, c, j) ==
  AsIs(d, db, j) /\ c.at[j] = call[p].at[j] /\ SeenOf(c, j) = SeenOf(call[p], j)

LEMMA SparedKept ==
  ASSUME IndexInv, NEW p \in Caller, NEW d, NEW c \in Call, Move(p, d, c),
         call[p] \in Call, call[p].op \in Deletes, c.op = call[p].op, c.labels = call[p].labels,
         StoreInv(d), WriteInv(c)
  PROVE  /\ EngineInv' /\ FindInv' /\ TypeOK
         /\ db' = d /\ UNCHANGED <<engine, timed, sweep, cleaning>>
         /\ Deleting(p) /\ Deleting(p)' /\ call'[p] = c /\ \A q \in Caller \ {p} : Same(q)
         /\ \A k \in Key : Spared(p, d, c, k) /\ k \notin torn' => KeyInv(k)'
         /\ \A k \in Key \ torn' :
              KeyInv(k) /\ Apart(k)' /\ (PutAt(k)' => k \notin Rows(db) \ Rows(d))
<1>1. TypeOK /\ EngineInv /\ FindInv /\ \A j \in Key \ torn : KeyInv(j)
  BY DEF IndexInv
<1>2. /\ c # None /\ call[p] # None /\ c \in Calls /\ c.op \in Writes
      /\ Deleting(p) /\ Writing(p)
  BY NoneIsNoCall DEF Calls, Deleting, Writing, Writes, Deletes
<1>3. EngineInv' /\ FindInv'
  <2>1. c.op \notin Finds
    BY <1>2 DEF Writes, Finds
  <2>. QED
    BY <1>1, <1>2, <2>1, EngineMove
<1>4. db' = d /\ UNCHANGED <<engine, timed, sweep, cleaning>>
  BY DEF Move, Calm, Become
<1>5. call'[p] = c /\ \A q \in Caller \ {p} : Same(q)
  BY <1>1, <1>2, MoveCalls
<1>6. Deleting(p)'
  BY <1>2, <1>5 DEF Deleting
<1>7. ASSUME NEW k \in Key, Spared(p, d, c, k), k \notin torn'
      PROVE  KeyInv(k)'
  BY <1>1, <1>2, <1>7, OthersKept DEF Spared
<1>8. ASSUME NEW k \in Key \ torn'
      PROVE  KeyInv(k) /\ Apart(k)' /\ (PutAt(k)' => k \notin Rows(db) \ Rows(d))
  BY <1>1, <1>2, MoveApart
<1>. QED
  BY <1>1, <1>2, <1>3, <1>4, <1>5, <1>6, <1>7, <1>8

\* The rows of some keys go, and everything else of them unless it is read yet.
LEMMA DeleteDone ==
  ASSUME IndexInv, NEW p \in Caller, NEW d, NEW c \in Call, Move(p, d, c),
         call[p] \in Call, call[p].op \in Deletes, c.op = call[p].op, c.labels = call[p].labels,
         StoreInv(d), WriteInv(c), NEW keys \in SUBSET Key,
         \A j \in Key \ keys : Spared(p, d, c, j),
         \A k \in keys : k \notin Rows(d) /\ c.at[k] \in {"gone", "done"},
         \A k \in keys \ torn' :
           /\ EntriesOf(d, k) \subseteq EntriesOf(db, k) /\ BackOf(d, k) \subseteq BackOf(db, k)
           /\ \/ Bare(d, k) /\ engine # "dynamodb"
              \/ engine = "dynamodb" /\ EntriesOf(d, k) = EntriesOf(db, k) /\ c.at[k] = "gone"
  PROVE  IndexStep
<1>1. /\ EngineInv' /\ FindInv' /\ db' = d /\ UNCHANGED <<engine, timed, sweep, cleaning>>
      /\ Deleting(p) /\ Deleting(p)' /\ call'[p] = c /\ \A q \in Caller \ {p} : Same(q)
      /\ \A k \in Key : Spared(p, d, c, k) /\ k \notin torn' => KeyInv(k)'
      /\ \A k \in Key \ torn' :
           KeyInv(k) /\ Apart(k)' /\ (PutAt(k)' => k \notin Rows(db) \ Rows(d))
  BY SparedKept
<1>2. ASSUME NEW k \in keys, k \notin torn'
      PROVE  KeyInv(k)'
  <2>1. k \in Key /\ k \in keys \ torn'
    BY <1>2
  <2>2. KeyInv(k) /\ Apart(k)' /\ (PutAt(k)' => k \notin Rows(db) \ Rows(db'))
    BY <1>1, <2>1
  <2>3. /\ k \notin Rows(db')
        /\ EntriesOf(db', k) \subseteq EntriesOf(db, k) /\ BackOf(db', k) \subseteq BackOf(db, k)
        /\ \/ Bare(db', k) /\ engine # "dynamodb"
           \/ engine = "dynamodb" /\ EntriesOf(db', k) = EntriesOf(db, k) /\ c.at[k] = "gone"
    BY <1>1, <2>1
  <2>4. engine \in {"mem", "redis"} => EntriesOf(db', k) \subseteq BackOf(db', k)
    BY <2>3 DEF Bare
  <2>5. Leaving \/ Between(k)' \/ Bare(db', k)
    BY <1>1, <2>3 DEF Between
  <2>6. engine = "dynamodb" => EntriesOf(db', k) = EntriesOf(db, k)
    BY <2>3
  <2>7. \A q \in Caller :
          /\ Storing(q)' /\ call'[q].at[k] = "indexed" => engine = "dynamodb"
          /\ \/ Still(q, k)
             \/ Deleting(q)' /\ call'[q].at[k] \notin {"noted", "loose"}
    <3>1. \A q \in Caller : (Storing(q) => WriteInv(call[q]))'
      BY <1>1 DEF EngineInv, Storing, Writing, Writes
    <3>2. \A q \in Caller : Storing(q)' /\ call'[q].at[k] = "indexed" => engine = "dynamodb"
      BY <1>1, <2>1, <3>1 DEF WriteInv, Storing
    <3>. QED
      BY <1>1, <1>2, <2>1, <3>2, SameIsStill
  <2>. QED
    BY <1>1, <2>1, <2>2, <2>3, <2>4, <2>5, <2>6, <2>7, RemovedKept
<1>. QED
  BY <1>1, <1>2 DEF IndexStep

\* The same of one key.
LEMMA DeleteOne ==
  ASSUME IndexInv, NEW p \in Caller, NEW d, NEW c \in Call, Move(p, d, c),
         call[p] \in Call, call[p].op \in Deletes, c.op = call[p].op, c.labels = call[p].labels,
         StoreInv(d), WriteInv(c), NEW k \in Key, \A j \in Key \ {k} : Spared(p, d, c, j),
         k \notin Rows(d), c.at[k] \in {"gone", "done"},
         EntriesOf(d, k) \subseteq EntriesOf(db, k), BackOf(d, k) \subseteq BackOf(db, k),
         k \notin torn' =>
           \/ Bare(d, k) /\ engine # "dynamodb"
           \/ engine = "dynamodb" /\ EntriesOf(d, k) = EntriesOf(db, k) /\ c.at[k] = "gone"
  PROVE  IndexStep
<1>. DEFINE keys == {k}
<1>1. /\ keys \in SUBSET Key
      /\ \A j \in Key \ keys : Spared(p, d, c, j)
      /\ \A j \in keys : j \notin Rows(d) /\ c.at[j] \in {"gone", "done"}
      /\ \A j \in keys \ torn' :
           /\ EntriesOf(d, j) \subseteq EntriesOf(db, j) /\ BackOf(d, j) \subseteq BackOf(db, j)
           /\ \/ Bare(d, j) /\ engine # "dynamodb"
              \/ engine = "dynamodb" /\ EntriesOf(d, j) = EntriesOf(db, j) /\ c.at[j] = "gone"
  OBVIOUS
<1>. HIDE DEF keys
<1>. QED
  BY <1>1, DeleteDone

\* A request that leaves the row: it reads what goes with it, or removes that.
LEMMA DeleteGoes ==
  ASSUME IndexInv, NEW p \in Caller, NEW d, NEW c \in Call, Move(p, d, c),
         call[p] \in Call, call[p].op \in Deletes, c.op = call[p].op, c.labels = call[p].labels,
         StoreInv(d), WriteInv(c), NEW k \in Key, call[p].at[k] # "done",
         \A j \in Key \ {k} : Spared(p, d, c, j),
         d.row[k] = db.row[k],
         EntriesOf(d, k) \subseteq EntriesOf(db, k), BackOf(d, k) = BackOf(db, k),
         k \in d.listed <=> k \in db.listed,
         k \notin torn' =>
           /\ c.at[k] \in {"noted", "loose"} =>
                EntriesOf(d, k) \cup BackOf(d, k) \subseteq SeenOf(c, k)
           /\ c.at[k] \in {"gone", "loose"} => k \notin Rows(db)
           /\ k \in Rows(db) => \/ engine \in SQL /\ c.at[k] \in {"unmarked", "noted"}
                                \/ /\ EntriesOf(d, k) = EntriesOf(db, k) /\ engine \notin SQL
                                   /\ k \in db.marked => k \in d.marked
           /\ call[p].at[k] \in {"gone", "loose"} => c.at[k] \in {"gone", "loose"} \/ Bare(d, k)
  PROVE  IndexStep
<1>1. /\ EngineInv' /\ FindInv' /\ db' = d /\ UNCHANGED <<engine, timed, sweep, cleaning>>
      /\ Deleting(p) /\ Deleting(p)' /\ call'[p] = c /\ \A q \in Caller \ {p} : Same(q)
      /\ \A j \in Key : Spared(p, d, c, j) /\ j \notin torn' => KeyInv(j)'
      /\ \A j \in Key \ torn' :
           KeyInv(j) /\ Apart(j)' /\ (PutAt(j)' => j \notin Rows(db) \ Rows(d))
  BY SparedKept
<1>2. ASSUME k \notin torn'
      PROVE  KeyInv(k)'
  <2>1. KeyInv(k) /\ Apart(k)' /\ (k \in Rows(d) <=> k \in Rows(db))
    BY <1>1, <1>2 DEF Rows
  <2>2. DeleteReady(p, k)'
    BY <1>1, <1>2, <2>1 DEF DeleteReady
  <2>3. k \in Rows(db) => Harmed(k)' \/ /\ EntriesOf(db', k) = EntriesOf(db, k)
                                        /\ k \in db.marked => k \in db'.marked
                                        /\ ~Harmed(k)
    BY <1>1, <1>2 DEF Harmed
  <2>4. Between(k) => Between(k)' \/ Bare(db', k)
    <3>1. ASSUME NEW q \in Caller,
                 \/ Storing(q) /\ call[q].at[k] = "indexed"
                 \/ Deleting(q) /\ call[q].at[k] \in {"gone", "loose"}
          PROVE  Between(k)' \/ Bare(db', k)
      <4>1. CASE q = p
        BY <1>1, <1>2, <3>1, <4>1 DEF Between, Storing, Deleting, Deletes
      <4>2. CASE q # p
        BY <1>1, <3>1, <4>2 DEF Same, Between, Storing, Deleting, Writing, Writes, Deletes
      <4>. QED
        BY <4>1, <4>2
    <3>. QED
      BY <3>1 DEF Between
  <2>. QED
    BY <1>1, <2>1, <2>2, <2>3, <2>4, DeleteMoves
<1>. QED
  BY <1>1, <1>2 DEF IndexStep

\* What goes is of the keys: their rows, and perhaps entries, places and marks.
Takes(d, keys) ==
  /\ d.row = RowsWithout(db, keys)
  /\ d.entry \subseteq db.entry /\ \A e \in db.entry : e[2] \notin keys => e \in d.entry
  /\ d.back \subseteq db.back /\ \A e \in db.back : e[2] \notin keys => e \in d.back
  /\ d.listed \subseteq db.listed /\ db.listed \ keys \subseteq d.listed
  /\ d.marked \subseteq db.marked /\ db.marked \ keys \subseteq d.marked

LEMMA TakenView ==
  ASSUME TypeOK, EngineInv, NEW keys \in SUBSET Key, NEW d, Takes(d, keys),
         engine = "mem" => d.listed \cap keys = {},
         engine \in {"sql", "mongo"} => \A e \in d.entry : e[2] \notin keys
  PROVE  /\ StoreInv(d)
         /\ \A j \in Key \ keys : AsIs(d, db, j)
         /\ \A k \in keys : /\ k \notin Rows(d)
                            /\ EntriesOf(d, k) \subseteq EntriesOf(db, k)
                            /\ BackOf(d, k) \subseteq BackOf(db, k)
<1>1. /\ db.row \in [Key -> {None} \cup SUBSET Label]
      /\ db.entry \in SUBSET (Label \X Key) /\ db.back \in SUBSET (Label \X Key)
      /\ StoreInv(db)
  BY DEF TypeOK, Database, EngineInv
<1>2. Rows(d) = Rows(db) \ keys /\ \A j \in Key \ keys : d.row[j] = db.row[j]
  BY <1>1 DEF Takes, RowsWithout, Rows
<1>3. ASSUME NEW j \in Key \ keys
      PROVE  AsIs(d, db, j)
  <2>1. EntriesOf(d, j) = EntriesOf(db, j)
    BY DEF Takes, EntriesOf
  <2>2. BackOf(d, j) = BackOf(db, j)
    BY DEF Takes, BackOf
  <2>3. (j \in d.listed <=> j \in db.listed) /\ (j \in d.marked <=> j \in db.marked)
    BY DEF Takes
  <2>. QED
    BY <1>2, <2>1, <2>2, <2>3 DEF AsIs
<1>4. \A k \in keys : /\ EntriesOf(d, k) \subseteq EntriesOf(db, k)
                      /\ BackOf(d, k) \subseteq BackOf(db, k)
  BY DEF Takes, EntriesOf, BackOf
<1>5. StoreInv(d)
  <2>1. ~timed => d.marked = {}
    BY <1>1 DEF StoreInv, Takes
  <2>2. engine \notin {"mem", "redis"} => d.back = {} /\ d.listed = {}
    BY <1>1 DEF StoreInv, Takes
  <2>3. engine = "mem" => d.listed = Rows(d)
    BY <1>1, <1>2 DEF StoreInv, Takes
  <2>4. engine \in {"sql", "mongo"} => \A e \in d.entry : e[2] \in Rows(d)
    BY <1>1, <1>2 DEF StoreInv, Takes
  <2>. QED
    BY <2>1, <2>2, <2>3, <2>4 DEF StoreInv
<1>. QED
  BY <1>2, <1>3, <1>4, <1>5

WithSeen(c, seen) == [c EXCEPT !.seen = seen]

LEMMA AtSeen ==
  ASSUME NEW p \in Caller, call[p] \in Call, NEW keys, NEW phase \in Phase,
         NEW seen \in SUBSET (Label \X Key), NEW c,
         c = WithSeen(At(p, keys, phase), seen)
  PROVE  /\ c \in Call /\ c.op = call[p].op /\ c.labels = call[p].labels /\ c.seen = seen
         /\ \A k \in Key : k \in keys => c.at[k] = phase
         /\ \A k \in Key \ keys : c.at[k] = call[p].at[k]
<1>. DEFINE a == At(p, keys, phase)
<1>1. /\ a \in Call /\ a.op = call[p].op /\ a.labels = call[p].labels
      /\ \A k \in Key : k \in keys => a.at[k] = phase
      /\ \A k \in Key \ keys : a.at[k] = call[p].at[k]
  BY AtTyped
<1>2. c = [a EXCEPT !.seen = seen]
  BY DEF WithSeen
<1>. HIDE DEF a
<1>3. c \in Call /\ c.op = a.op /\ c.labels = a.labels /\ c.seen = seen /\ c.at = a.at
  BY <1>1, <1>2 DEF Call
<1>. QED
  BY <1>1, <1>3

LEMMA AtOnly ==
  ASSUME NEW p \in Caller, call[p] \in Call, NEW keys, NEW phase \in Phase, NEW c,
         c = At(p, keys, phase)
  PROVE  /\ c \in Call /\ c.op = call[p].op /\ c.labels = call[p].labels
         /\ c.seen = call[p].seen
         /\ \A k \in Key : k \in keys => c.at[k] = phase
         /\ \A k \in Key \ keys : c.at[k] = call[p].at[k]
BY AtTyped

\* A call moves on only at keys of which it has read nothing, or has it noted.
LEMMA DeletingAt ==
  ASSUME EngineInv, NEW p \in Caller, call[p] \in Call, call[p].op \in Deletes,
         NEW c \in Call, c.op = call[p].op,
         \A k \in Key : c.at[k] # "done" => call[p].at[k] # "done",
         \A e \in c.seen : \/ e \in call[p].seen /\ c.at[e[2]] = call[p].at[e[2]]
                          \/ c.at[e[2]] \in {"noted", "loose"}
  PROVE  WriteInv(c)
<1>1. \A e \in call[p].seen : call[p].at[e[2]] \in {"noted", "loose"}
  BY NoneIsNoCall DEF EngineInv, WriteInv, Writing, Writes, Deletes
<1>2. ASSUME NEW e \in c.seen
      PROVE  c.at[e[2]] \in {"noted", "loose"}
  BY <1>1
<1>3. c.op = "delete" => \A j, k \in Key : c.at[j] # "done" /\ c.at[k] # "done" => j = k
  <2>1. WriteInv(call[p])
    BY NoneIsNoCall DEF EngineInv, Writing, Writes, Deletes
  <2>2. call[p].op = "delete" =>
          \A j, k \in Key : call[p].at[j] # "done" /\ call[p].at[k] # "done" => j = k
    BY <2>1 DEF WriteInv
  <2>. QED
    BY <2>2
<1>4. c.op # "put"
  BY DEF Deletes
<1>. QED
  BY <1>2, <1>3, <1>4 DEF WriteInv

LEMMA MemRemoved ==
  ASSUME IndexInv, NEW k \in Key, engine = "mem", NEW d, d = MemRemove(db, k)
  PROVE  /\ Sound(d) /\ StoreInv(d) /\ k \notin Rows(d) /\ k \notin d.listed /\ BackOf(d, k) = {}
         /\ EntriesOf(d, k) \subseteq EntriesOf(db, k)
         /\ k \notin torn => EntriesOf(d, k) = {}
         /\ \A j \in Key \ {k} : AsIs(d, db, j)
<1>0. TypeOK /\ Sound(db)
  BY DEF IndexInv, TypeOK, Sound
<1>1. /\ Sound(d) /\ d.row = RowsWithout(db, {k}) /\ d.marked = db.marked \ {k}
      /\ d.entry = db.entry \ {e \in db.back : e[2] = k}
      /\ d.back = {e \in db.back : e[2] # k} /\ d.listed = db.listed \ {k}
  BY <1>0, MemRemoveRows
<1>2. Takes(d, {k})
  BY <1>1 DEF Takes
<1>3. StoreInv(d) /\ k \notin Rows(d) /\ EntriesOf(d, k) \subseteq EntriesOf(db, k)
      /\ \A j \in Key \ {k} : AsIs(d, db, j)
  BY <1>0, <1>1, <1>2, TakenView DEF IndexInv
<1>4. BackOf(d, k) = {} /\ k \notin d.listed
  BY <1>1 DEF BackOf
<1>5. k \notin torn => EntriesOf(d, k) = {}
  <2>1. k \notin torn => EntriesOf(db, k) \subseteq BackOf(db, k)
    BY DEF IndexInv, KeyInv, Backed
  <2>. QED
    BY <1>1, <2>1 DEF EntriesOf, BackOf
<1>. QED
  BY <1>1, <1>3, <1>4, <1>5

LEMMA MemDeleteKept ==
  ASSUME IndexInv, NEW p \in Caller, MemDelete(p)
  PROVE  IndexStep
<1>0. TypeOK /\ EngineInv /\ engine = "mem"
  BY DEF IndexInv, MemDelete, On
<1>1. PICK k \in Key : /\ In(p, Deletes, {k}, "new")
                       /\ Move(p, MemRemove(db, k), At(p, {k}, "done"))
  BY DEF MemDelete, Deletes
<1>2. call[p] \in Call /\ call[p].op \in Deletes /\ call[p].at[k] = "new"
  BY <1>0, <1>1, InCall
<1>. DEFINE d == MemRemove(db, k)
            c == At(p, {k}, "done")
<1>3. /\ Sound(d) /\ StoreInv(d) /\ k \notin Rows(d) /\ k \notin d.listed /\ BackOf(d, k) = {}
      /\ EntriesOf(d, k) \subseteq EntriesOf(db, k) /\ (k \notin torn => EntriesOf(d, k) = {})
      /\ \A j \in Key \ {k} : AsIs(d, db, j)
  BY <1>0, MemRemoved
<1>4. Move(p, d, c)
  BY <1>1
<1>. HIDE DEF d
<1>5. /\ c \in Call /\ c.op = call[p].op /\ c.labels = call[p].labels /\ c.seen = call[p].seen
      /\ c.at[k] = "done" /\ \A j \in Key \ {k} : c.at[j] = call[p].at[j]
  BY <1>2, AtOnly DEF Phase
<1>. HIDE DEF c
<1>6. WriteInv(c)
  <2>1. \A e \in call[p].seen : e[2] # k /\ e[2] \in Key
    BY <1>0, <1>2, NoneIsNoCall DEF EngineInv, WriteInv, Writing, Writes, Deletes, Call
  <2>2. \A e \in c.seen : e \in call[p].seen /\ c.at[e[2]] = call[p].at[e[2]]
    BY <1>5, <2>1
  <2>. QED
    BY <1>0, <1>2, <1>5, <2>2, DeletingAt
<1>7. \A j \in Key \ {k} : Spared(p, d, c, j)
  BY <1>3, <1>5 DEF Spared, SeenOf
<1>8. k \notin torn' => k \notin torn
  BY <1>0, <1>4, <1>5, MoveApart DEF Calls
<1>9. k \notin torn' => Bare(d, k) /\ BackOf(d, k) \subseteq BackOf(db, k)
  BY <1>3, <1>8 DEF Bare
<1>. QED
  BY <1>0, <1>2, <1>3, <1>4, <1>5, <1>6, <1>7, <1>9, DeleteOne

LEMMA SqlDeleteKept ==
  ASSUME IndexInv, NEW p \in Caller, SqlDelete(p)
  PROVE  IndexStep
<1>0. /\ TypeOK /\ EngineInv /\ engine \in SQL /\ Sound(db)
      /\ StoreInv(db) /\ engine \notin {"mem", "redis", "mongo", "dynamodb"}
  BY DEF IndexInv, SqlDelete, On, TypeOK, Sound, EngineInv, SQL
<1>1. PICK k \in Key :
        \/ /\ In(p, {"delete"}, {k}, "new")
           /\ Move(p, Unmark(db, {k}), At(p, {k}, "unmarked"))
        \/ /\ In(p, {"delete"}, {k}, "unmarked")
           /\ Move(p, db, [At(p, {k}, "noted") EXCEPT !.seen = EntriesOf(db, k)])
        \/ /\ In(p, {"delete"}, {k}, "noted")
           /\ \E e \in call[p].seen :
                Move(p, RemoveEntries(db, {e}), [call[p] EXCEPT !.seen = @ \ {e}])
        \/ \E phase \in {"unmarked", "noted"} :
             /\ phase = (IF engine = "sql" THEN "unmarked" ELSE "noted") /\ call[p].seen = {}
             /\ In(p, {"delete"}, {k}, phase)
             /\ Move(p, SqlRemove(db, {k}), At(p, {k}, "done"))
  BY DEF SqlDelete
<1>2. /\ call[p] \in Call /\ call[p].op = "delete" /\ call[p].op \in Deletes /\ Deleting(p)
      /\ call[p].at[k] \in {"new", "unmarked", "noted"}
  <2>1. call[p] \in Call /\ call[p].op = "delete" /\ call[p].at[k] \in {"new", "unmarked", "noted"}
    BY <1>0, <1>1, InCall
  <2>. QED
    BY <2>1, NoneIsNoCall DEF Deletes, Deleting
<1>3. /\ \A j \in Key \ {k} : call[p].at[j] = "done"
      /\ \A e \in call[p].seen : e[2] = k /\ call[p].at[k] = "noted"
  <2>1. WriteInv(call[p]) /\ \A e \in call[p].seen : e[2] \in Key
    BY <1>0, <1>2 DEF EngineInv, Writing, Deleting, Writes, Deletes, Call
  <2>. QED
    BY <1>2, <2>1 DEF WriteInv, Deletes
<1>4. ASSUME NEW j \in Key, BackOf(db, j) # {} \/ j \in db.listed
      PROVE  FALSE
  BY <1>0, <1>4 DEF StoreInv, BackOf
<1>5. CASE /\ In(p, {"delete"}, {k}, "new")
           /\ Move(p, Unmark(db, {k}), At(p, {k}, "unmarked"))
  <2>. DEFINE d == Unmark(db, {k})
              c == At(p, {k}, "unmarked")
  <2>1. /\ d.row = db.row /\ d.entry = db.entry /\ d.back = db.back /\ d.listed = db.listed
        /\ d.marked = db.marked \ {k}
    BY <1>0, UnmarkRows
  <2>2. Move(p, d, c) /\ call[p].at[k] = "new"
    BY <1>0, <1>5, InCall
  <2>. HIDE DEF d
  <2>3. /\ c \in Call /\ c.op = call[p].op /\ c.labels = call[p].labels /\ c.seen = call[p].seen
        /\ c.at[k] = "unmarked" /\ \A j \in Key \ {k} : c.at[j] = call[p].at[j]
    BY <1>2, AtOnly DEF Phase
  <2>. HIDE DEF c
  <2>4. WriteInv(c)
    BY <1>0, <1>2, <1>3, <2>2, <2>3, DeletingAt
  <2>5. /\ StoreInv(d) /\ \A j \in Key \ {k} : Spared(p, d, c, j)
        /\ EntriesOf(d, k) = EntriesOf(db, k) /\ BackOf(d, k) = BackOf(db, k)
    BY <1>0, <2>1, <2>3 DEF StoreInv, Spared, AsIs, SeenOf, EntriesOf, BackOf, Rows
  <2>. QED
    BY <1>0, <1>2, <2>1, <2>2, <2>3, <2>4, <2>5, DeleteGoes
<1>6. CASE /\ In(p, {"delete"}, {k}, "unmarked")
           /\ Move(p, db, [At(p, {k}, "noted") EXCEPT !.seen = EntriesOf(db, k)])
  <2>. DEFINE seen == EntriesOf(db, k)
              c == [At(p, {k}, "noted") EXCEPT !.seen = seen]
  <2>1. "noted" \in Phase /\ seen \in SUBSET (Label \X Key) /\ \A e \in seen : e[2] = k
    BY <1>0 DEF Phase, Sound, Database, EntriesOf
  <2>2. Move(p, db, c) /\ call[p].at[k] = "unmarked"
    BY <1>0, <1>6, InCall
  <2>3. /\ c \in Call /\ c.op = call[p].op /\ c.labels = call[p].labels /\ c.seen = seen
        /\ c.at[k] = "noted" /\ \A j \in Key \ {k} : c.at[j] = call[p].at[j]
    <3>1. c = WithSeen(At(p, {k}, "noted"), seen)
      BY DEF WithSeen
    <3>. HIDE DEF c, seen
    <3>. QED
      BY <1>2, <2>1, <3>1, AtSeen
  <2>. HIDE DEF c
  <2>4. WriteInv(c)
    BY <1>0, <1>2, <2>1, <2>2, <2>3, DeletingAt
  <2>5. \A j \in Key \ {k} : Spared(p, db, c, j)
    BY <1>3, <2>1, <2>3 DEF Spared, AsIs, SeenOf
  <2>6. EntriesOf(db, k) \cup BackOf(db, k) \subseteq SeenOf(c, k)
    BY <1>4, <2>1, <2>3 DEF SeenOf
  <2>. QED
    BY <1>0, <1>2, <2>2, <2>3, <2>4, <2>5, <2>6, DeleteGoes
<1>7. ASSUME NEW e \in call[p].seen, In(p, {"delete"}, {k}, "noted"),
             Move(p, RemoveEntries(db, {e}), [call[p] EXCEPT !.seen = @ \ {e}])
      PROVE  IndexStep
  <2>. DEFINE d == RemoveEntries(db, {e})
              seen == call[p].seen \ {e}
              c == [call[p] EXCEPT !.seen = seen]
  <2>1. /\ d.row = db.row /\ d.entry = db.entry \ {e} /\ d.back = db.back
        /\ d.listed = db.listed /\ d.marked = db.marked
    BY <1>0, RemoveEntriesRows
  <2>2. seen \in SUBSET (Label \X Key) /\ call[p].at[k] = "noted" /\ e[2] = k
    BY <1>2, <1>3 DEF Call
  <2>3. Move(p, d, c)
    BY <1>7
  <2>. HIDE DEF d
  <2>4. /\ c \in Call /\ c.op = call[p].op /\ c.labels = call[p].labels /\ c.seen = seen
        /\ c.at = call[p].at
    BY <1>2, <2>2, SeenTyped
  <2>. HIDE DEF c
  <2>5. WriteInv(c)
    BY <1>0, <1>2, <2>4, DeletingAt
  <2>6. /\ StoreInv(d) /\ \A j \in Key \ {k} : Spared(p, d, c, j)
        /\ EntriesOf(d, k) = EntriesOf(db, k) \ {e} /\ BackOf(d, k) = BackOf(db, k)
    BY <1>0, <2>1, <2>2, <2>4 DEF StoreInv, Spared, AsIs, SeenOf, EntriesOf, BackOf, Rows
  <2>7. k \notin torn' => EntriesOf(d, k) \cup BackOf(d, k) \subseteq SeenOf(c, k)
    <3>1. k \notin torn' => k \notin torn
      BY <1>0, <2>3, <2>4, MoveApart DEF Calls
    <3>2. k \notin torn => EntriesOf(db, k) \subseteq SeenOf(call[p], k)
      BY <1>2, <2>2 DEF IndexInv, KeyInv, Ready, DeleteReady
    <3>. QED
      BY <1>4, <2>4, <2>6, <3>1, <3>2 DEF SeenOf
  <2>. QED
    BY <1>0, <1>2, <2>1, <2>2, <2>3, <2>4, <2>5, <2>6, <2>7, DeleteGoes
<1>8. ASSUME NEW phase \in {"unmarked", "noted"}, call[p].seen = {},
             phase = (IF engine = "sql" THEN "unmarked" ELSE "noted"),
             In(p, {"delete"}, {k}, phase), Move(p, SqlRemove(db, {k}), At(p, {k}, "done"))
      PROVE  IndexStep
  <2>. DEFINE keys == {k}
              d == SqlRemove(db, keys)
              c == At(p, {k}, "done")
  <2>1. /\ d.row = RowsWithout(db, keys) /\ d.back = db.back /\ d.listed = db.listed
        /\ d.marked = db.marked
        /\ engine # "sql" => d.entry = db.entry
        /\ engine = "sql" => d.entry = {e \in db.entry : e[2] \notin keys}
    BY <1>0, SqlRemoveRows
  <2>2. Move(p, d, c) /\ call[p].at[k] = phase
    BY <1>0, <1>8, InCall
  <2>. HIDE DEF d
  <2>3. /\ c \in Call /\ c.op = call[p].op /\ c.labels = call[p].labels /\ c.seen = call[p].seen
        /\ c.at[k] = "done" /\ \A j \in Key \ {k} : c.at[j] = call[p].at[j]
    BY <1>2, AtOnly DEF Phase
  <2>. HIDE DEF c
  <2>4. WriteInv(c)
    BY <1>0, <1>2, <1>8, <2>3, DeletingAt
  <2>5. Takes(d, keys) /\ (engine \in {"sql", "mongo"} => \A e \in d.entry : e[2] \notin keys)
    BY <1>0, <2>1 DEF Takes
  <2>6. /\ StoreInv(d)
        /\ \A j \in Key \ keys : AsIs(d, db, j)
        /\ \A j \in keys : /\ j \notin Rows(d)
                           /\ EntriesOf(d, j) \subseteq EntriesOf(db, j)
                           /\ BackOf(d, j) \subseteq BackOf(db, j)
    <3>1. keys \in SUBSET Key
      OBVIOUS
    <3>. HIDE DEF keys
    <3>. QED
      BY <1>0, <2>5, <3>1, TakenView
  <2>7. \A j \in Key \ {k} : Spared(p, d, c, j)
    BY <2>3, <2>6 DEF Spared, SeenOf
  <2>8. k \notin torn' => EntriesOf(d, k) = {}
    <3>1. CASE engine = "sql"
      BY <2>5, <3>1 DEF EntriesOf
    <3>2. CASE engine # "sql"
      <4>1. k \notin torn' => k \notin torn
        BY <1>0, <2>2, <2>3, MoveApart DEF Calls
      <4>2. k \notin torn => EntriesOf(db, k) \subseteq SeenOf(call[p], k)
        BY <1>2, <1>8, <2>2, <3>2 DEF IndexInv, KeyInv, Ready, DeleteReady
      <4>. QED
        BY <1>8, <2>6, <4>1, <4>2 DEF SeenOf
    <3>. QED
      BY <3>1, <3>2
  <2>9. k \notin torn' => Bare(d, k)
    BY <1>4, <2>6, <2>8, <2>1 DEF Bare
  <2>. QED
    BY <1>0, <1>2, <2>2, <2>3, <2>4, <2>6, <2>7, <2>9, DeleteOne
<1>. QED
  BY <1>1, <1>5, <1>6, <1>7, <1>8

\* A cascade takes the keys and leaves nothing of them where there is no list.
LEMMA CascadeTakes ==
  ASSUME TypeOK, EngineInv, NEW keys \in SUBSET Key, NEW d, d.row = RowsWithout(db, keys),
         d.entry = {e \in db.entry : e[2] \notin keys}, engine \notin {"mem", "redis"},
         d.back = db.back, d.listed = db.listed, d.marked \subseteq db.marked,
         db.marked \ keys \subseteq d.marked
  PROVE  /\ StoreInv(d)
         /\ \A j \in Key \ keys : AsIs(d, db, j)
         /\ \A k \in keys : /\ k \notin Rows(d) /\ Bare(d, k)
                            /\ EntriesOf(d, k) \subseteq EntriesOf(db, k)
                            /\ BackOf(d, k) \subseteq BackOf(db, k)
<1>1. Takes(d, keys)
  BY DEF Takes
<1>2. \A e \in d.entry : e[2] \notin keys
  OBVIOUS
<1>3. /\ StoreInv(d) /\ \A j \in Key \ keys : AsIs(d, db, j)
      /\ \A k \in keys : /\ k \notin Rows(d)
                         /\ EntriesOf(d, k) \subseteq EntriesOf(db, k)
                         /\ BackOf(d, k) \subseteq BackOf(db, k)
  BY <1>1, <1>2, TakenView
<1>4. \A k \in keys : Bare(d, k)
  <2>1. d.back = {} /\ d.listed = {}
    BY DEF EngineInv, StoreInv
  <2>2. \A k \in keys : EntriesOf(d, k) = {}
    BY <1>2 DEF EntriesOf
  <2>. QED
    BY <2>1, <2>2 DEF Bare, BackOf
<1>. QED
  BY <1>3, <1>4

LEMMA ManyKept ==
  ASSUME IndexInv, NEW p \in Caller, SqlDeleteMany(p) \/ MongoDelete(p)
  PROVE  IndexStep
<1>0. TypeOK /\ EngineInv /\ Sound(db) /\ engine \notin {"mem", "redis", "dynamodb"}
  BY DEF IndexInv, SqlDeleteMany, MongoDelete, On, TypeOK, Sound, SQL
<1>. DEFINE keys == Left(call[p])
            u == Unmark(db, keys)
            d == Cascade(u, keys)
            c == At(p, keys, "done")
<1>1. In(p, Deletes, keys, "new") /\ Move(p, d, c)
  BY DEF SqlDeleteMany, MongoDelete, In, Deletes
<1>2. /\ call[p] \in Call /\ call[p].op \in Deletes
      /\ keys \in SUBSET Key /\ \A k \in keys : call[p].at[k] = "new"
  BY <1>0, <1>1, InCall
<1>. HIDE DEF keys
<1>3. /\ Sound(u) /\ u.row = db.row /\ u.entry = db.entry /\ u.back = db.back
      /\ u.listed = db.listed /\ u.marked = db.marked \ keys
  BY <1>0, <1>2, UnmarkRows
<1>. HIDE DEF u
<1>4. /\ d.row = RowsWithout(db, keys) /\ d.entry = {e \in db.entry : e[2] \notin keys}
      /\ d.back = db.back /\ d.listed = db.listed /\ d.marked = db.marked \ keys
  <2>1. RowsWithout(u, keys) = RowsWithout(db, keys)
    BY <1>3 DEF RowsWithout
  <2>. QED
    BY <1>3, <2>1, CascadeRows
<1>. HIDE DEF d
<1>5. /\ StoreInv(d) /\ \A j \in Key \ keys : AsIs(d, db, j)
      /\ \A k \in keys : /\ k \notin Rows(d) /\ Bare(d, k)
                         /\ EntriesOf(d, k) \subseteq EntriesOf(db, k)
                         /\ BackOf(d, k) \subseteq BackOf(db, k)
  BY <1>0, <1>2, <1>4, CascadeTakes
<1>6. /\ c \in Call /\ c.op = call[p].op /\ c.labels = call[p].labels /\ c.seen = call[p].seen
      /\ \A k \in Key : k \in keys => c.at[k] = "done"
      /\ \A j \in Key \ keys : c.at[j] = call[p].at[j]
  BY <1>2, AtOnly DEF Phase
<1>. HIDE DEF c
<1>7. WriteInv(c)
  <2>1. \A e \in call[p].seen : e[2] \in Key /\ call[p].at[e[2]] \in {"noted", "loose"}
    BY <1>0, <1>2, NoneIsNoCall DEF EngineInv, WriteInv, Writing, Writes, Deletes, Call
  <2>2. \A e \in c.seen : e \in call[p].seen /\ c.at[e[2]] = call[p].at[e[2]]
    BY <1>2, <1>6, <2>1
  <2>3. \A k \in Key : c.at[k] # "done" => call[p].at[k] # "done"
    BY <1>6
  <2>. QED
    BY <1>0, <1>2, <1>6, <2>2, <2>3, DeletingAt
<1>8. \A j \in Key \ keys : Spared(p, d, c, j)
  BY <1>5, <1>6 DEF Spared, SeenOf
<1>9. /\ \A k \in keys : k \notin Rows(d) /\ c.at[k] \in {"gone", "done"}
      /\ \A k \in keys \ torn' :
           /\ EntriesOf(d, k) \subseteq EntriesOf(db, k) /\ BackOf(d, k) \subseteq BackOf(db, k)
           /\ Bare(d, k) /\ engine # "dynamodb"
  BY <1>0, <1>2, <1>5, <1>6
<1>. QED
  BY <1>1, <1>2, <1>5, <1>6, <1>7, <1>8, <1>9, DeleteDone

LEMMA RedisDeleteKept ==
  ASSUME IndexInv, NEW p \in Caller, RedisDelete(p)
  PROVE  IndexStep
<1>0. TypeOK /\ EngineInv /\ Sound(db) /\ StoreInv(db) /\ engine = "redis" /\ engine \notin SQL
  BY DEF IndexInv, RedisDelete, On, TypeOK, Sound, SQL, EngineInv
<1>1. CASE \E k \in Key :
             /\ In(p, Deletes, {k}, "new")
             /\ Move(p, db, [At(p, {k}, "noted") EXCEPT
                               !.seen = @ \cup {e \in db.back : e[2] = k}])
  <2>1. PICK k \in Key :
             /\ In(p, Deletes, {k}, "new")
             /\ Move(p, db, [At(p, {k}, "noted") EXCEPT
                               !.seen = @ \cup {e \in db.back : e[2] = k}])
    BY <1>1
  <2>2. call[p] \in Call /\ call[p].op \in Deletes /\ call[p].at[k] = "new"
    BY <1>0, <2>1, InCall
  <2>. DEFINE a == At(p, {k}, "noted")
              seen == call[p].seen \cup BackOf(db, k)
              c == [a EXCEPT !.seen = @ \cup {e \in db.back : e[2] = k}]
  <2>3. "noted" \in Phase
    BY DEF Phase
  <2>4. a.seen = call[p].seen
    BY <2>2, <2>3, AtTyped
  <2>5. c = WithSeen(At(p, {k}, "noted"), seen)
    BY <2>4 DEF WithSeen, BackOf
  <2>6. seen \in SUBSET (Label \X Key)
    BY <1>0, <2>2 DEF Call, Sound, Database, BackOf
  <2>7. Move(p, db, c)
    BY <2>1
  <2>. HIDE DEF c, seen
  <2>8. /\ c \in Call /\ c.op = call[p].op /\ c.labels = call[p].labels /\ c.seen = seen
        /\ c.at[k] = "noted" /\ \A j \in Key \ {k} : c.at[j] = call[p].at[j]
    BY <2>2, <2>3, <2>5, <2>6, AtSeen
  <2>9. \A e \in seen : e[2] \in Key /\ (e \in call[p].seen \/ e[2] = k)
    BY <2>6 DEF seen, BackOf
  <2>10. WriteInv(c)
    BY <1>0, <2>2, <2>8, <2>9, DeletingAt
  <2>11. \A j \in Key \ {k} : Spared(p, db, c, j)
    BY <2>8 DEF Spared, AsIs, SeenOf, seen, BackOf
  <2>12. k \notin torn' => EntriesOf(db, k) \cup BackOf(db, k) \subseteq SeenOf(c, k)
    <3>1. k \notin torn' => k \notin torn
      BY <1>0, <2>7, <2>8, MoveApart DEF Calls
    <3>2. k \notin torn => EntriesOf(db, k) \subseteq BackOf(db, k)
      BY <1>0 DEF IndexInv, KeyInv, Backed
    <3>3. BackOf(db, k) \subseteq SeenOf(c, k)
      BY <2>8 DEF SeenOf, seen, BackOf
    <3>. QED
      BY <3>1, <3>2, <3>3
  <2>. QED
    BY <1>0, <2>2, <2>7, <2>8, <2>10, <2>11, <2>12, DeleteGoes
<1>2. ASSUME NEW keys, keys = Left(call[p]), In(p, Deletes, keys, "noted"),
             Move(p, [Unmark(Remove(RemoveEntries(db, call[p].seen), keys), keys) EXCEPT
                        !.back = {e \in @ : e[2] \notin keys}, !.listed = @ \ keys],
                  [At(p, keys, "done") EXCEPT !.seen = {}])
      PROVE  IndexStep
  <2>1. /\ call[p] \in Call /\ call[p].op \in Deletes /\ Deleting(p)
        /\ keys \in SUBSET Key /\ \A k \in keys : call[p].at[k] = "noted"
    BY <1>0, <1>2, InCall, NoneIsNoCall DEF Deleting
  <2>. DEFINE r == RemoveEntries(db, call[p].seen)
              w == Remove(r, keys)
              u == Unmark(w, keys)
              d == [u EXCEPT !.back = {e \in @ : e[2] \notin keys}, !.listed = @ \ keys]
              c == [At(p, keys, "done") EXCEPT !.seen = {}]
  <2>2. Move(p, d, c)
    BY <1>2
  <2>3. /\ Sound(r) /\ r.row = db.row /\ r.entry = db.entry \ call[p].seen /\ r.back = db.back
        /\ r.listed = db.listed /\ r.marked = db.marked
    BY <1>0, RemoveEntriesRows
  <2>. HIDE DEF r
  <2>4. /\ Sound(w) /\ w.row = RowsWithout(db, keys) /\ w.entry = r.entry /\ w.back = db.back
        /\ w.listed = db.listed /\ w.marked = db.marked
    <3>1. RowsWithout(r, keys) = RowsWithout(db, keys)
      BY <2>3 DEF RowsWithout
    <3>. QED
      BY <2>3, <3>1, RemoveRows
  <2>. HIDE DEF w
  <2>5. /\ Sound(u) /\ u.row = RowsWithout(db, keys) /\ u.entry = r.entry /\ u.back = db.back
        /\ u.listed = db.listed /\ u.marked = db.marked \ keys
    BY <2>1, <2>4, UnmarkRows
  <2>. HIDE DEF u
  <2>6. /\ d.row = RowsWithout(db, keys) /\ d.entry = db.entry \ call[p].seen
        /\ d.back = {e \in db.back : e[2] \notin keys} /\ d.listed = db.listed \ keys
        /\ d.marked = db.marked \ keys
    BY <2>3, <2>5 DEF Sound, Database
  <2>. HIDE DEF d
  <2>7. /\ c \in Call /\ c.op = call[p].op /\ c.labels = call[p].labels /\ c.seen = {}
        /\ \A k \in Key : k \in keys => c.at[k] = "done"
        /\ \A j \in Key \ keys : c.at[j] = call[p].at[j]
    <3>1. c = WithSeen(At(p, keys, "done"), {}) /\ "done" \in Phase
      BY DEF WithSeen, Phase
    <3>2. {} \in SUBSET (Label \X Key)
      OBVIOUS
    <3>. HIDE DEF c
    <3>. QED
      BY <2>1, <3>1, <3>2, AtSeen
  <2>. HIDE DEF c
  <2>8. \A e \in call[p].seen : e[2] \in keys
    <3>1. \A e \in call[p].seen : e[2] \in Key /\ call[p].at[e[2]] \in {"noted", "loose"}
      BY <1>0, <2>1 DEF EngineInv, WriteInv, Writing, Deleting, Writes, Deletes, Call
    <3>. QED
      BY <1>2, <3>1 DEF Left
  <2>9. WriteInv(c)
    <3>1. \A k \in Key : c.at[k] # "done" => call[p].at[k] # "done"
      BY <2>7
    <3>. QED
      BY <1>0, <2>1, <2>7, <3>1, DeletingAt
  <2>10. Takes(d, keys)
    BY <2>6, <2>8 DEF Takes
  <2>11. /\ StoreInv(d) /\ \A j \in Key \ keys : AsIs(d, db, j)
         /\ \A k \in keys : /\ k \notin Rows(d)
                            /\ EntriesOf(d, k) \subseteq EntriesOf(db, k)
                            /\ BackOf(d, k) \subseteq BackOf(db, k)
    BY <1>0, <2>1, <2>10, TakenView
  <2>12. \A j \in Key \ keys : Spared(p, d, c, j)
    BY <2>7, <2>8, <2>11 DEF Spared, SeenOf
  <2>13. ASSUME NEW k \in keys \ torn'
         PROVE  Bare(d, k)
    <3>1. k \notin torn
      BY <1>0, <2>1, <2>2, <2>7, MoveApart DEF Calls
    <3>2. EntriesOf(db, k) \subseteq SeenOf(call[p], k)
      BY <2>1, <3>1 DEF IndexInv, KeyInv, Ready, DeleteReady
    <3>3. EntriesOf(d, k) = {} /\ BackOf(d, k) = {} /\ k \notin d.listed
      BY <2>6, <3>2 DEF EntriesOf, BackOf, SeenOf
    <3>. QED
      BY <3>3 DEF Bare
  <2>14. /\ \A k \in keys : k \notin Rows(d) /\ c.at[k] \in {"gone", "done"}
         /\ \A k \in keys \ torn' :
              /\ EntriesOf(d, k) \subseteq EntriesOf(db, k) /\ BackOf(d, k) \subseteq BackOf(db, k)
              /\ Bare(d, k) /\ engine # "dynamodb"
    BY <1>0, <2>1, <2>7, <2>11, <2>13
  <2>. QED
    BY <2>1, <2>2, <2>7, <2>9, <2>11, <2>12, <2>14, DeleteDone
<1>. QED
  BY <1>1, <1>2 DEF RedisDelete, Deletes

LEMMA DynamoDeleteKept ==
  ASSUME IndexInv, NEW p \in Caller, DynamoDelete(p)
  PROVE  IndexStep
<1>0. /\ TypeOK /\ EngineInv /\ Sound(db) /\ StoreInv(db)
      /\ engine = "dynamodb" /\ engine \notin SQL
  BY DEF IndexInv, DynamoDelete, On, TypeOK, Sound, SQL, EngineInv
<1>1. PICK k \in Key :
        \/ /\ In(p, Deletes, {k}, "new")
           /\ Move(p, Unmark(Remove(db, {k}), {k}), At(p, {k}, "gone"))
        \/ /\ In(p, Deletes, {k}, "gone")
           /\ \E phase \in {"done", "loose"} :
                /\ phase = (IF EntriesOf(db, k) = {} THEN "done" ELSE "loose")
                /\ Move(p, db, [At(p, {k}, phase) EXCEPT !.seen = @ \cup EntriesOf(db, k)])
        \/ /\ In(p, Deletes, {k}, "loose")
           /\ \E e \in SeenOf(call[p], k), keys \in {{k}, {}} :
                /\ keys = (IF SeenOf(call[p], k) = {e} THEN {k} ELSE {})
                /\ Move(p, RemoveEntries(db, {e}),
                        [At(p, keys, "done") EXCEPT !.seen = @ \ {e}])
  BY DEF DynamoDelete, Deletes, SeenOf
<1>2. /\ call[p] \in Call /\ call[p].op \in Deletes /\ Deleting(p)
      /\ call[p].at[k] \in {"new", "gone", "loose"}
  BY <1>0, <1>1, InCall, NoneIsNoCall DEF Deleting
<1>3. \A e \in call[p].seen : e[2] \in Key /\ call[p].at[e[2]] \in {"noted", "loose"}
  BY <1>0, <1>2 DEF EngineInv, WriteInv, Writing, Deleting, Writes, Deletes, Call
<1>4. ASSUME NEW j \in Key, BackOf(db, j) # {} \/ j \in db.listed
      PROVE  FALSE
  BY <1>0, <1>4 DEF StoreInv, BackOf
<1>5. CASE /\ In(p, Deletes, {k}, "new")
           /\ Move(p, Unmark(Remove(db, {k}), {k}), At(p, {k}, "gone"))
  <2>. DEFINE keys == {k}
              w == Remove(db, keys)
              d == Unmark(w, keys)
              c == At(p, {k}, "gone")
  <2>1. /\ Sound(w) /\ w.row = RowsWithout(db, keys) /\ w.entry = db.entry /\ w.back = db.back
        /\ w.listed = db.listed /\ w.marked = db.marked
    BY <1>0, RemoveRows
  <2>2. Move(p, d, c) /\ call[p].at[k] = "new"
    BY <1>0, <1>5, InCall
  <2>. HIDE DEF w
  <2>3. /\ d.row = RowsWithout(db, keys) /\ d.entry = db.entry /\ d.back = db.back
        /\ d.listed = db.listed /\ d.marked = db.marked \ keys
    BY <2>1, UnmarkRows
  <2>. HIDE DEF d
  <2>4. /\ c \in Call /\ c.op = call[p].op /\ c.labels = call[p].labels /\ c.seen = call[p].seen
        /\ c.at[k] = "gone" /\ \A j \in Key \ {k} : c.at[j] = call[p].at[j]
    BY <1>2, AtOnly DEF Phase
  <2>. HIDE DEF c
  <2>5. WriteInv(c)
    <3>1. \A e \in c.seen : e \in call[p].seen /\ c.at[e[2]] = call[p].at[e[2]]
      BY <1>3, <2>2, <2>4
    <3>. QED
      BY <1>0, <1>2, <2>2, <2>4, <3>1, DeletingAt
  <2>6. Takes(d, keys)
    BY <2>3 DEF Takes
  <2>7. /\ StoreInv(d) /\ \A j \in Key \ keys : AsIs(d, db, j)
        /\ \A j \in keys : /\ j \notin Rows(d)
                           /\ EntriesOf(d, j) \subseteq EntriesOf(db, j)
                           /\ BackOf(d, j) \subseteq BackOf(db, j)
    <3>1. keys \in SUBSET Key
      OBVIOUS
    <3>. HIDE DEF keys
    <3>. QED
      BY <1>0, <2>6, <3>1, TakenView
  <2>8. \A j \in Key \ {k} : Spared(p, d, c, j)
    BY <2>4, <2>7 DEF Spared, SeenOf
  <2>9. EntriesOf(d, k) = EntriesOf(db, k)
    BY <2>3 DEF EntriesOf
  <2>. QED
    BY <1>0, <1>2, <2>2, <2>4, <2>5, <2>7, <2>8, <2>9, DeleteOne
<1>6. ASSUME In(p, Deletes, {k}, "gone"), NEW phase \in {"done", "loose"},
             phase = (IF EntriesOf(db, k) = {} THEN "done" ELSE "loose"),
             Move(p, db, [At(p, {k}, phase) EXCEPT !.seen = @ \cup EntriesOf(db, k)])
      PROVE  IndexStep
  <2>. DEFINE a == At(p, {k}, phase)
              seen == call[p].seen \cup EntriesOf(db, k)
              c == [a EXCEPT !.seen = @ \cup EntriesOf(db, k)]
  <2>1. phase \in Phase /\ call[p].at[k] = "gone"
    BY <1>0, <1>6, InCall DEF Phase
  <2>2. a.seen = call[p].seen
    BY <1>2, <2>1, AtTyped
  <2>3. c = WithSeen(At(p, {k}, phase), seen)
    BY <2>2 DEF WithSeen
  <2>4. seen \in SUBSET (Label \X Key)
    BY <1>0, <1>2 DEF Call, Sound, Database, EntriesOf
  <2>5. Move(p, db, c)
    BY <1>6
  <2>. HIDE DEF c, seen
  <2>6. /\ c \in Call /\ c.op = call[p].op /\ c.labels = call[p].labels /\ c.seen = seen
        /\ c.at[k] = phase /\ \A j \in Key \ {k} : c.at[j] = call[p].at[j]
    BY <1>2, <2>1, <2>3, <2>4, AtSeen
  <2>7. WriteInv(c)
    <3>1. \A e \in seen : e[2] \in Key /\
            ((e \in call[p].seen /\ e[2] # k) \/ (e[2] = k /\ phase = "loose"))
      BY <1>3, <1>6, <2>1, <2>4 DEF seen, EntriesOf
    <3>2. \A e \in c.seen : \/ e \in call[p].seen /\ c.at[e[2]] = call[p].at[e[2]]
                            \/ c.at[e[2]] \in {"noted", "loose"}
      BY <2>6, <3>1
    <3>3. \A j \in Key : c.at[j] # "done" => call[p].at[j] # "done"
      BY <2>1, <2>6
    <3>. QED
      BY <1>0, <1>2, <2>6, <3>2, <3>3, DeletingAt
  <2>8. \A j \in Key \ {k} : Spared(p, db, c, j)
    BY <2>6 DEF Spared, AsIs, SeenOf, seen, EntriesOf
  <2>9. EntriesOf(db, k) \cup BackOf(db, k) \subseteq SeenOf(c, k)
    BY <1>4, <2>6 DEF SeenOf, seen, EntriesOf
  <2>10. phase = "done" => Bare(db, k)
    BY <1>4, <1>6 DEF Bare
  <2>11. k \notin torn' => k \notin Rows(db)
    <3>1. k \notin torn' => k \notin torn
      BY <1>0, <2>5, <2>6, MoveApart DEF Calls
    <3>. QED
      BY <1>2, <2>1, <3>1 DEF IndexInv, KeyInv, Ready, DeleteReady
  <2>. QED
    BY <1>0, <1>2, <2>1, <2>5, <2>6, <2>7, <2>8, <2>9, <2>10, <2>11, DeleteGoes
<1>7. ASSUME In(p, Deletes, {k}, "loose"), NEW e \in SeenOf(call[p], k), NEW keys \in {{k}, {}},
             keys = (IF SeenOf(call[p], k) = {e} THEN {k} ELSE {}),
             Move(p, RemoveEntries(db, {e}), [At(p, keys, "done") EXCEPT !.seen = @ \ {e}])
      PROVE  IndexStep
  <2>. DEFINE d == RemoveEntries(db, {e})
              a == At(p, keys, "done")
              seen == call[p].seen \ {e}
              c == [a EXCEPT !.seen = @ \ {e}]
  <2>1. "done" \in Phase /\ call[p].at[k] = "loose" /\ keys \in SUBSET Key /\ e[2] = k
    BY <1>0, <1>7, InCall DEF Phase, SeenOf
  <2>2. a.seen = call[p].seen
    BY <1>2, <2>1, AtTyped
  <2>3. c = WithSeen(At(p, keys, "done"), seen)
    BY <2>2 DEF WithSeen
  <2>4. seen \in SUBSET (Label \X Key)
    BY <1>2 DEF Call
  <2>5. /\ d.row = db.row /\ d.entry = db.entry \ {e} /\ d.back = db.back
        /\ d.listed = db.listed /\ d.marked = db.marked
    BY <1>0, RemoveEntriesRows
  <2>6. Move(p, d, c)
    BY <1>7
  <2>. HIDE DEF c, seen, d
  <2>7. /\ c \in Call /\ c.op = call[p].op /\ c.labels = call[p].labels /\ c.seen = seen
        /\ \A j \in Key : j \in keys => c.at[j] = "done"
        /\ \A j \in Key \ keys : c.at[j] = call[p].at[j]
    BY <1>2, <2>1, <2>3, <2>4, AtSeen
  <2>8. /\ \A j \in Key \ {k} : c.at[j] = call[p].at[j]
        /\ c.at[k] \in {"loose", "done"} /\ (c.at[k] = "done" <=> SeenOf(call[p], k) = {e})
    BY <1>7, <2>1, <2>7
  <2>9. SeenOf(c, k) = SeenOf(call[p], k) \ {e}
        /\ \A j \in Key \ {k} : SeenOf(c, j) = SeenOf(call[p], j)
    BY <2>1, <2>7 DEF SeenOf, seen
  <2>10. WriteInv(c)
    <3>1. \A x \in c.seen : x \in call[p].seen /\ (x[2] = k => c.at[k] = "loose")
      <4>1. ASSUME NEW x \in c.seen, x[2] = k
            PROVE  SeenOf(call[p], k) # {e}
        BY <2>7, <4>1 DEF SeenOf, seen
      <4>. QED
        BY <2>7, <2>8, <4>1 DEF seen
    <3>2. \A x \in c.seen : \/ x \in call[p].seen /\ c.at[x[2]] = call[p].at[x[2]]
                            \/ c.at[x[2]] \in {"noted", "loose"}
      BY <1>3, <2>8, <3>1
    <3>3. \A j \in Key : c.at[j] # "done" => call[p].at[j] # "done"
      BY <2>1, <2>8
    <3>. QED
      BY <1>0, <1>2, <2>7, <3>2, <3>3, DeletingAt
  <2>11. /\ StoreInv(d) /\ \A j \in Key \ {k} : Spared(p, d, c, j)
         /\ EntriesOf(d, k) = EntriesOf(db, k) \ {e} /\ BackOf(d, k) = BackOf(db, k)
    BY <1>0, <2>1, <2>5, <2>8, <2>9 DEF StoreInv, Spared, AsIs, EntriesOf, BackOf, Rows
  <2>12. k \notin torn' => /\ k \notin Rows(db)
                           /\ EntriesOf(d, k) \cup BackOf(d, k) \subseteq SeenOf(c, k)
                           /\ c.at[k] = "loose" \/ Bare(d, k)
    <3>1. k \notin torn' => k \notin torn
      BY <1>0, <2>6, <2>7, MoveApart DEF Calls
    <3>2. k \notin torn => /\ k \notin Rows(db)
                           /\ EntriesOf(db, k) \cup BackOf(db, k) \subseteq SeenOf(call[p], k)
      BY <1>2, <2>1 DEF IndexInv, KeyInv, Ready, DeleteReady
    <3>3. BackOf(d, k) = {} /\ k \notin d.listed
      BY <1>4, <2>5, <2>11
    <3>. QED
      BY <2>8, <2>9, <2>11, <3>1, <3>2, <3>3 DEF Bare
  <2>. QED
    BY <1>0, <1>2, <2>1, <2>5, <2>6, <2>7, <2>8, <2>10, <2>11, <2>12, DeleteGoes
<1>. QED
  BY <1>1, <1>5, <1>6, <1>7

-----------------------------------------------------------------------------
(***************************************************************************)
(* Finds are honest, and the indexes do not know of them.                  *)
(***************************************************************************)
LEMMA FindMoved ==
  ASSUME IndexInv, NEW p \in Caller, NEW c \in Calls, Move(p, db, c),
         call[p] \in Call, call[p].op \in Finds, c = None \/ (c.op \in Finds /\ Honest(db, c))
  PROVE  IndexStep
<1>1. TypeOK /\ EngineInv /\ FindInv /\ \A j \in Key \ torn : KeyInv(j)
  BY DEF IndexInv
<1>2. ~Writing(p) /\ (c = None \/ c.op \notin Writes) /\ StoreInv(db)
  BY <1>1 DEF Writing, Writes, Finds, EngineInv
<1>3. EngineInv' /\ FindInv'
  BY <1>1, <1>2, EngineMove
<1>4. ASSUME NEW k \in Key, k \notin torn'
      PROVE  KeyInv(k)'
  BY <1>1, <1>2, <1>4, OthersKept DEF AsIs
<1>. QED
  BY <1>3, <1>4 DEF IndexStep

\* What a find has is honest, and on Redis it has nothing before the end.
LEMMA FoundSoFar ==
  ASSUME IndexInv, NEW p \in Caller, NEW op \in Finds, NEW keys, NEW phase,
         In(p, {op}, keys, phase)
  PROVE  /\ call[p] \in Call /\ call[p].op = op /\ call[p].op \in Finds
         /\ call[p].got \in SUBSET Key /\ call[p].always \in SUBSET Key
         /\ call[p].got \subseteq call[p].ever
         /\ \A k \in call[p].always : call[p].at[k] # "done" \/ k \in call[p].got
         /\ op = "find" => call[p].labels # {}
         /\ engine = "redis" => call[p].got = {}
         /\ \A k \in Key \ torn : Shown(k)
         /\ TypeOK /\ StoreInv(db)
<1>1. TypeOK /\ StoreInv(db) /\ \A k \in Key \ torn : Shown(k)
  BY DEF IndexInv, EngineInv, KeyInv
<1>2. call[p] \in Call /\ call[p].op = op
  BY <1>1, InCall
<1>3. call[p] # None /\ Left(call[p]) # {}
  BY DEF In
<1>. QED
  BY <1>1, <1>2, <1>3 DEF IndexInv, FindInv, Call

LEMMA GivesKept ==
  ASSUME IndexInv, NEW p \in Caller, NEW op \in Finds, NEW keys, NEW phase,
         In(p, {op}, keys, phase), NEW got, got \subseteq Rows(db),
         \A k \in call[p].always \cap (Visible(db, call[p]) \ torn) : k \in got,
         Gives(p, got)
  PROVE  IndexStep
<1>. DEFINE a == At(p, Key, "done")
            c == [a EXCEPT !.got = got]
<1>1. /\ call[p] \in Call /\ call[p].op = op /\ call[p].got \subseteq call[p].ever
      /\ op = "find" => call[p].labels # {}
  BY FoundSoFar
<1>2. /\ a \in Call /\ a.op = op /\ a.labels = call[p].labels /\ a.always = call[p].always
      /\ a.ever = call[p].ever /\ \A k \in Key : a.at[k] = "done"
  BY <1>1, AtTyped DEF Phase
<1>3. Move(p, db, c)
  BY DEF Gives
<1>4. got \in SUBSET Key
  BY DEF Rows
<1>. HIDE DEF a
<1>5. /\ c \in Call /\ c.op = op /\ c.labels = call[p].labels /\ c.got = got
      /\ c.always = call[p].always /\ c.ever = call[p].ever
      /\ \A k \in Key : c.at[k] = "done"
  BY <1>2, <1>4, GotTyped
<1>. HIDE DEF c
<1>6. Left(c) = {} /\ Visible(db, c) = Visible(db, call[p])
  BY <1>1, <1>5 DEF Left, Visible
<1>7. Honest(db, c)
  BY <1>1, <1>5, <1>6 DEF Honest
<1>. QED
  BY <1>1, <1>3, <1>5, <1>7, FindMoved DEF Calls

LEMMA WantsKept ==
  ASSUME IndexInv, NEW p \in Caller, NEW op \in Finds, NEW keys, NEW at,
         In(p, {op}, keys, at), NEW wanted, NEW phase \in Phase \ {"done"},
         \A k \in call[p].always \cap (Visible(db, call[p]) \ torn) : k \in wanted,
         Move(p, db, Wants(p, wanted, phase))
  PROVE  IndexStep
<1>. DEFINE now == [k \in Key |-> IF k \in wanted THEN phase ELSE "done"]
            c == Wants(p, wanted, phase)
<1>1. /\ call[p] \in Call /\ call[p].op = op /\ call[p].got \subseteq call[p].ever
      /\ op = "find" => call[p].labels # {}
      /\ engine = "redis" => call[p].got = {}
  BY FoundSoFar
<1>2. now \in [Key -> Phase] /\ \A k \in Key \cap wanted : now[k] = phase
  BY DEF Phase
<1>3. c = [call[p] EXCEPT !.at = now]
  BY DEF Wants
<1>4. Move(p, db, c)
  OBVIOUS
<1>. HIDE DEF now, c
<1>5. /\ c \in Call /\ c.op = op /\ c.labels = call[p].labels /\ c.at = now
      /\ c.got = call[p].got /\ c.always = call[p].always /\ c.ever = call[p].ever
  BY <1>1, <1>2, <1>3 DEF Call
<1>6. Visible(db, c) = Visible(db, call[p])
  BY <1>1, <1>5 DEF Visible
<1>7. Honest(db, c)
  <2>1. \A k \in c.always \cap (Visible(db, c) \ torn) : c.at[k] # "done"
    BY <1>2, <1>5, <1>6 DEF Visible, Rows
  <2>. QED
    BY <1>1, <1>5, <2>1 DEF Honest
<1>. QED
  BY <1>1, <1>4, <1>5, <1>7, FindMoved DEF Calls

LEMMA ReadsKept ==
  ASSUME IndexInv, NEW p \in Caller, NEW k \in Key, NEW found, Reads(p, k, found),
         engine # "redis", found => k \in Rows(db), ~found => k \notin Visible(db, call[p])
  PROVE  IndexStep
<1>. DEFINE a == At(p, {k}, "done")
            got == IF found THEN a.got \cup {k} ELSE a.got
            c == [a EXCEPT !.got = got]
<1>1. /\ call[p] \in Call /\ call[p].op = "find" /\ call[p].got \subseteq call[p].ever
      /\ call[p].labels # {}
      /\ \A j \in call[p].always : call[p].at[j] # "done" \/ j \in call[p].got
  BY FoundSoFar DEF Reads, Finds
<1>2. /\ a \in Call /\ a.op = "find" /\ a.labels = call[p].labels /\ a.always = call[p].always
      /\ a.ever = call[p].ever /\ a.got = call[p].got
      /\ \A j \in Key : j # k => a.at[j] = call[p].at[j]
  BY <1>1, AtTyped DEF Phase
<1>3. Move(p, db, c)
  BY DEF Reads
<1>. HIDE DEF a
<1>4. /\ got \in SUBSET Key /\ call[p].got \subseteq got /\ got \subseteq call[p].got \cup Rows(db)
      /\ k \in Visible(db, call[p]) => k \in got
  BY <1>2 DEF Call
<1>. HIDE DEF got
<1>5. /\ c \in Call /\ c.op = "find" /\ c.labels = call[p].labels /\ c.got = got
      /\ c.always = call[p].always /\ c.ever = call[p].ever
      /\ \A j \in Key : j # k => c.at[j] = call[p].at[j]
  BY <1>2, <1>4, GotTyped
<1>. HIDE DEF c
<1>6. Visible(db, c) = Visible(db, call[p])
  BY <1>1, <1>5 DEF Visible
<1>7. Honest(db, c)
  <2>1. \A j \in c.always \cap (Visible(db, c) \ torn) : c.at[j] # "done" \/ j \in c.got
    BY <1>1, <1>4, <1>5, <1>6 DEF Call
  <2>. QED
    BY <1>1, <1>4, <1>5, <2>1 DEF Honest
<1>. QED
  BY <1>1, <1>3, <1>5, <1>7, FindMoved DEF Calls, Finds

LEMMA ThrowsKept ==
  ASSUME IndexInv, NEW p \in Caller, NEW k \in Key, Throws(p, k)
  PROVE  IndexStep
<1>1. call[p] \in Call /\ call[p].op \in Finds /\ Move(p, db, None)
  BY FoundSoFar DEF Throws, Finds
<1>. QED
  BY <1>1, FindMoved DEF Calls

LEMMA FindsKept ==
  ASSUME IndexInv, NEW p \in Caller,
         \/ MemGetByIndex(p) \/ MemGetAll(p) \/ SqlGetByIndex(p) \/ SqlGetAll(p)
         \/ RedisGetByIndex(p) \/ MongoGetByIndex(p) \/ MongoGetAll(p)
         \/ DynamoGetByIndex(p) \/ DynamoGetAll(p)
  PROVE  IndexStep
<1>0. /\ {"wanted", "indexed"} \subseteq Phase \ {"done"} /\ {"find", "list"} \subseteq Finds
      /\ StoreInv(db) /\ TypeOK /\ db.entry \subseteq Label \X Key
  BY DEF Phase, Finds, IndexInv, EngineInv, TypeOK, Database
<1>1. ASSUME In(p, {"find"}, Key, "new"), NEW phase \in {"wanted", "indexed"},
             Move(p, db, Wants(p, Indexed(call[p]), phase))
      PROVE  IndexStep
  <2>1. call[p].op = "find"
    BY <1>0, <1>1, FoundSoFar
  <2>2. \A k \in call[p].always \cap (Visible(db, call[p]) \ torn) : k \in Indexed(call[p])
    BY <2>1 DEF Visible, Indexed, Rows
  <2>. QED
    BY <1>0, <1>1, <2>2, WantsKept
<1>2. ASSUME In(p, {"find"}, Key, "new"), engine \in {"sql", "mongo"},
             Gives(p, Indexed(call[p]))
      PROVE  IndexStep
  <2>1. call[p].op = "find" /\ call[p].labels # {}
    BY <1>0, <1>2, FoundSoFar
  <2>2. \A k \in call[p].always \cap (Visible(db, call[p]) \ torn) : k \in Indexed(call[p])
    BY <2>1 DEF Visible, Indexed, Rows
  <2>3. Indexed(call[p]) \subseteq Rows(db)
    <3>1. ASSUME NEW k \in Indexed(call[p])
          PROVE  k \in Rows(db)
      <4>1. PICK l \in call[p].labels : <<l, k>> \in db.entry
        BY <2>1 DEF Indexed
      <4>. QED
        BY <1>0, <1>2, <4>1 DEF StoreInv
    <3>. QED
      BY <3>1
  <2>. QED
    BY <1>0, <1>2, <2>2, <2>3, GivesKept
<1>3. ASSUME In(p, {"list"}, Key, "new"), NEW got, got = Rows(db), Gives(p, got)
      PROVE  IndexStep
  <2>1. \A k \in call[p].always \cap (Visible(db, call[p]) \ torn) : k \in got
    BY <1>3 DEF Visible
  <2>. QED
    BY <1>0, <1>3, <2>1, GivesKept
<1>4. ASSUME NEW k \in Rows(db), Reads(p, k, TRUE), engine # "redis"
      PROVE  IndexStep
  BY <1>4, ReadsKept DEF Rows
<1>5. CASE MemGetByIndex(p) \/ MemGetAll(p)
  <2>1. engine = "mem" /\ db.listed = Rows(db)
    BY <1>0, <1>5 DEF MemGetByIndex, MemGetAll, On, StoreInv
  <2>. QED
    BY <1>1, <1>3, <1>4, <1>5, <2>1, ThrowsKept DEF MemGetByIndex, MemGetAll
<1>6. CASE SqlGetByIndex(p) \/ SqlGetAll(p)
  <2>1. engine # "redis"
    BY <1>6 DEF SqlGetByIndex, SqlGetAll, On, SQL
  <2>. QED
    BY <1>1, <1>2, <1>3, <1>4, <1>6, <2>1, ThrowsKept DEF SqlGetByIndex, SqlGetAll, On
<1>7. CASE RedisGetByIndex(p)
  <2>0. engine = "redis"
    BY <1>7 DEF RedisGetByIndex, On
  <2>1. CASE In(p, {"find"}, Key, "new") /\ Move(p, db, Wants(p, Indexed(call[p]), "indexed"))
    BY <1>1, <2>1
  <2>2. ASSUME NEW phase, In(p, {"find"}, Left(call[p]), phase)
        PROVE  \A k \in call[p].always \cap (Visible(db, call[p]) \ torn) :
                 k \in Left(call[p]) \cap Rows(db) \cap db.listed
    <3>1. /\ \A k \in call[p].always : call[p].at[k] # "done"
          /\ \A k \in Key \ torn : Shown(k)
      BY <1>0, <2>0, <2>2, FoundSoFar
    <3>. QED
      BY <2>0, <3>1 DEF Visible, Left, Rows, Shown
  <2>3. CASE /\ In(p, {"find"}, Left(call[p]), "indexed")
             /\ Move(p, db, Wants(p, Left(call[p]) \cap db.listed, "wanted"))
    <3>1. \A k \in call[p].always \cap (Visible(db, call[p]) \ torn) :
            k \in Left(call[p]) \cap db.listed
      BY <2>2, <2>3
    <3>. QED
      BY <1>0, <2>3, <3>1, WantsKept
  <2>4. CASE /\ In(p, {"find"}, Left(call[p]), "wanted")
             /\ Gives(p, Left(call[p]) \cap Rows(db))
    <3>1. \A k \in call[p].always \cap (Visible(db, call[p]) \ torn) :
            k \in Left(call[p]) \cap Rows(db)
      BY <2>2, <2>4
    <3>. QED
      BY <1>0, <2>4, <3>1, GivesKept
  <2>. QED
    BY <1>7, <2>1, <2>3, <2>4 DEF RedisGetByIndex
<1>8. CASE MongoGetByIndex(p) \/ MongoGetAll(p)
  BY <1>2, <1>3, <1>8 DEF MongoGetByIndex, MongoGetAll, On
<1>9. CASE DynamoGetByIndex(p) \/ DynamoGetAll(p)
  <2>0. engine # "redis"
    BY <1>9 DEF DynamoGetByIndex, DynamoGetAll, On
  <2>1. ASSUME NEW k \in Key, NEW found, found = (k \in Rows(db) \ db.due), Reads(p, k, found)
        PROVE  IndexStep
    <3>1. ~found => k \notin Visible(db, call[p])
      BY <2>1 DEF Visible
    <3>. QED
      BY <2>0, <2>1, <3>1, ReadsKept
  <2>. QED
    BY <1>1, <1>3, <1>9, <2>1 DEF DynamoGetByIndex, DynamoGetAll
<1>. QED
  BY <1>5, <1>6, <1>7, <1>8, <1>9

-----------------------------------------------------------------------------
(***************************************************************************)
(* Calls begin, end and fail, and the engine changes by itself.            *)
(***************************************************************************)
\* A call that is at no key begins, ends or finds, and the engine is as it was.
LEMMA CallsTurn ==
  ASSUME IndexInv, NEW p \in Caller, NEW c \in Calls, Become(db, [call EXCEPT ![p] = c]),
         UNCHANGED sweep, cleaning' # cleaning => engine = "redis",
         \A k \in cleaning' : k \in cleaning \/ k \notin Rows(db),
         Writing(p) => \A k \in Key : call[p].at[k] = "done",
         c # None /\ c.op \in Writes =>
           WriteInv(c) /\ \A k \in Key : c.at[k] \in {"new", "done"},
         c = None \/ c.op \notin Finds \/ Honest(db, c)
  PROVE  IndexStep
<1>. DEFINE cc == [call EXCEPT ![p] = c]
<1>1. TypeOK /\ EngineInv /\ FindInv /\ \A k \in Key \ torn : KeyInv(k)
  BY DEF IndexInv
<1>2. cc \in [Caller -> Calls] /\ \A q \in Caller : cc[q] = IF q = p THEN c ELSE call[q]
  BY <1>1 DEF TypeOK, Calls
<1>3. Become(db, cc)
  OBVIOUS
<1>4. db' = db /\ UNCHANGED <<engine, timed>>
  BY DEF Become
<1>. HIDE DEF cc
<1>5. /\ \A q \in Caller \ {p} : Same(q)
      /\ c # None /\ c.op \in Writes => Writing(p)' /\ call'[p] = c
      /\ c = None \/ c.op \notin Writes => ~Writing(p)'
  <2>1. ASSUME NEW q \in Caller \ {p}
        PROVE  Same(q)
    <3>1. cc[q] = call[q]
      BY <1>2
    <3>. QED
      BY <1>2, <1>3, <3>1, BecomeCalls DEF Same, Writing
  <2>2. cc[p] = c
    BY <1>2
  <2>. QED
    BY <1>2, <1>3, <2>1, <2>2, BecomeCalls
<1>6. FindInv'
  BY <1>1, <1>2, <1>3, BecomeFinds
<1>7. EngineInv'
  <2>1. \A q \in Caller : Writing(q)' => WriteInv(call'[q])
    BY <1>1, <1>5 DEF EngineInv, Same
  <2>2. \A q \in Caller : Writing(q)' => WriteInv(call[q])'
    BY <1>4, <2>1 DEF WriteInv
  <2>3. StoreInv(db)'
    BY <1>1, <1>4 DEF EngineInv, StoreInv, Rows
  <2>. QED
    BY <1>1, <1>4, <2>2, <2>3 DEF EngineInv
<1>8. ASSUME NEW k \in Key, k \notin torn'
      PROVE  KeyInv(k)'
  <2>1. Apart(k)' /\ KeyInv(k)
    BY <1>1, <1>2, <1>3, <1>8, BecomeApart
  <2>2. \A q \in Caller \ {p} : Still(q, k)
    BY <1>5, SameIsStill
  <2>3. Still(p, k)
    BY <1>5 DEF Still, Idle
  <2>4. SweptFirst(k)'
    BY <1>4, <2>1 DEF KeyInv, SweptFirst, Rows
  <2>. QED
    BY <1>4, <2>1, <2>2, <2>3, <2>4, Untouched
<1>. QED
  BY <1>6, <1>7, <1>8 DEF IndexStep

LEMMA StartKept ==
  ASSUME IndexInv, NEW p \in Caller, NEW op \in Writes \cup Finds, NEW keys \in SUBSET Key,
         NEW labels \in SUBSET Label, Start(p, op, keys, labels),
         op = "delete" => \A j, k \in keys : j = k,
         op \in Finds => keys = Key, op = "find" => labels # {}
  PROVE  IndexStep
<1>. DEFINE at == [k \in Key |-> IF k \in keys THEN "new" ELSE "done"]
            c == [op |-> op, labels |-> labels, at |-> at, seen |-> {}, got |-> {},
                  always |-> Key, ever |-> {}]
<1>1. call[p] = None /\ UNCHANGED <<sweep, cleaning>> /\ Become(db, [call EXCEPT ![p] = c])
  BY DEF Start
<1>2. /\ at \in [Key -> Phase]
      /\ \A k \in Key : k \in keys => at[k] = "new"
      /\ \A k \in Key : k \notin keys => at[k] = "done"
  BY DEF Phase
<1>. HIDE DEF at
<1>3. /\ c \in Call /\ c.op = op /\ c.labels = labels /\ c.at = at
      /\ c.seen = {} /\ c.got = {}
  BY <1>2 DEF Call
<1>. HIDE DEF c
<1>4. \A k \in Key : c.at[k] \in {"new", "done"}
  BY <1>2, <1>3
<1>5. WriteInv(c)
  BY <1>2, <1>3, <1>4 DEF WriteInv, Deletes
<1>6. op \in Finds => Honest(db, c)
  BY <1>2, <1>3 DEF Honest, Visible, Rows
<1>7. c \in Calls /\ ~Writing(p)
  BY <1>1, <1>3 DEF Calls, Writing
<1>. QED
  BY <1>1, <1>3, <1>4, <1>5, <1>6, <1>7, CallsTurn

LEMMA AskKept ==
  ASSUME IndexInv, NEW p \in Caller, Ask(p)
  PROVE  IndexStep
<1>1. /\ {"put", "delete", "deleteMany", "find", "list"} \subseteq Writes \cup Finds
      /\ \A k \in Key : {k} \in SUBSET Key
      /\ \A l \in Label : {l} \in SUBSET Label /\ {l} # {}
      /\ {} \in SUBSET Label /\ Key \in SUBSET Key
  BY DEF Writes, Finds
<1>2. {"put", "delete", "deleteMany"} \cap Finds = {}
  BY DEF Finds
<1>3. ASSUME NEW k \in Key, NEW labels \in SUBSET Label, NEW op \in {"put", "delete"},
             Start(p, op, {k}, labels)
      PROVE  IndexStep
  <2>1. \A i, j \in {k} : i = j
    OBVIOUS
  <2>. QED
    BY <1>1, <1>2, <1>3, <2>1, StartKept
<1>4. CASE \E keys \in SUBSET Key \ {{}} : Start(p, "deleteMany", keys, {})
  BY <1>1, <1>2, <1>4, StartKept
<1>5. CASE (\E l \in Label : Start(p, "find", Key, {l})) \/ Start(p, "list", Key, {})
  BY <1>1, <1>5, StartKept
<1>6. CASE \E k \in Key : Start(p, "delete", {k}, {})
  BY <1>1, <1>3, <1>6
<1>. QED
  BY <1>3, <1>4, <1>5, <1>6 DEF Ask

LEMMA AnswerKept ==
  ASSUME IndexInv, NEW p \in Caller, Answer(p)
  PROVE  IndexStep
<1>1. UNCHANGED <<sweep, cleaning>> /\ Become(db, [call EXCEPT ![p] = None])
  BY DEF Answer, Move, Calm
<1>2. \A k \in Key : call[p].at[k] = "done"
  BY DEF Answer, Left
<1>. QED
  BY <1>1, <1>2, CallsTurn DEF Calls

LEMMA RedisGetAllKept ==
  ASSUME IndexInv, NEW p \in Caller, RedisGetAll(p)
  PROVE  IndexStep
<1>0. engine = "redis" /\ "list" \in Finds /\ "wanted" \in Phase \ {"done"}
  BY DEF RedisGetAll, On, Finds, Phase
<1>1. CASE In(p, {"list"}, Key, "new") /\ Move(p, db, Wants(p, db.listed, "wanted"))
  <2>1. \A k \in Key \ torn : Shown(k)
    BY <1>0, <1>1, FoundSoFar
  <2>2. \A k \in call[p].always \cap (Visible(db, call[p]) \ torn) : k \in db.listed
    BY <1>0, <2>1 DEF Visible, Rows, Shown
  <2>. QED
    BY <1>0, <1>1, <2>2, WantsKept
<1>2. CASE /\ In(p, {"list"}, Left(call[p]), "wanted")
           /\ cleaning' = cleaning \cup (Left(call[p]) \ Rows(db))
           /\ UNCHANGED <<sweep, started>>
           /\ Become(db, [call EXCEPT ![p] =
                [At(p, Key, "done") EXCEPT !.got = Left(call[p]) \cap Rows(db)]])
  <2>. DEFINE a == At(p, Key, "done")
              got == Left(call[p]) \cap Rows(db)
              c == [a EXCEPT !.got = got]
  <2>1. /\ call[p] \in Call /\ call[p].op = "list" /\ call[p].got = {}
        /\ \A k \in call[p].always : call[p].at[k] # "done" \/ k \in call[p].got
    BY <1>0, <1>2, FoundSoFar
  <2>2. "done" \in Phase /\ got \in SUBSET Key
    BY DEF Phase, Rows
  <2>3. /\ a \in Call /\ a.op = "list" /\ a.labels = call[p].labels
        /\ a.always = call[p].always /\ a.ever = call[p].ever
        /\ \A k \in Key : a.at[k] = "done"
    BY <2>1, <2>2, AtTyped
  <2>4. Become(db, [call EXCEPT ![p] = c])
    BY <1>2
  <2>5. \A k \in call[p].always \cap (Visible(db, call[p]) \ torn) : k \in got
    BY <2>1 DEF Visible, Left, Rows
  <2>6. got \subseteq Rows(db)
    OBVIOUS
  <2>. HIDE DEF a, got
  <2>7. /\ c \in Call /\ c.op = "list" /\ c.labels = call[p].labels /\ c.got = got
        /\ c.always = call[p].always /\ c.ever = call[p].ever
        /\ \A k \in Key : c.at[k] = "done"
    BY <2>2, <2>3, GotTyped
  <2>. HIDE DEF c
  <2>8. Honest(db, c)
    <3>1. Left(c) = {} /\ Visible(db, c) = Visible(db, call[p])
      BY <2>1, <2>7 DEF Left, Visible
    <3>. QED
      BY <2>5, <2>6, <2>7, <3>1 DEF Honest
  <2>9. ~Writing(p) /\ c \in Calls /\ c.op \notin Writes
    BY <2>1, <2>7 DEF Writing, Writes, Calls
  <2>10. \A k \in cleaning' : k \in cleaning \/ k \notin Rows(db)
    BY <1>2
  <2>. QED
    BY <1>0, <1>2, <2>4, <2>8, <2>9, <2>10, CallsTurn
<1>. QED
  BY <1>1, <1>2 DEF RedisGetAll

\* A call that fails leaves its keys torn.
LEMMA FailKept ==
  ASSUME IndexInv, NEW p \in Caller, Fail(p)
  PROVE  IndexStep
<1>1. TypeOK /\ EngineInv /\ FindInv /\ \A k \in Key \ torn : KeyInv(k)
  BY DEF IndexInv
<1>2. /\ db' = db /\ UNCHANGED <<engine, timed, sweep, cleaning>>
      /\ call'[p] \in {Failed, None} /\ \A q \in Caller \ {p} : call'[q] = call[q]
      /\ torn' = IF call[p].op \in Writes THEN torn \cup Left(call[p]) ELSE torn
  BY <1>1 DEF Fail, Calm, TypeOK
<1>3. /\ ~Writing(p)' /\ \A q \in Caller \ {p} : Same(q)
      /\ call'[p] = None \/ call'[p].op \notin Finds
  BY <1>2 DEF Writing, Same, Failed, Writes, Finds
<1>4. EngineInv'
  <2>1. \A q \in Caller : Writing(q)' => WriteInv(call[q])'
    BY <1>1, <1>2, <1>3 DEF EngineInv, Same, WriteInv
  <2>. QED
    BY <1>1, <1>2, <2>1 DEF EngineInv, StoreInv, Rows
<1>5. FindInv'
  BY <1>1, <1>2, <1>3 DEF FindInv, Left
<1>6. ASSUME NEW k \in Key, k \notin torn'
      PROVE  KeyInv(k)'
  <2>1. KeyInv(k) /\ (Writing(p) => call[p].at[k] = "done")
    BY <1>1, <1>2, <1>6 DEF Writing, Left
  <2>2. \A q \in Caller : Still(q, k)
    BY <1>3, <2>1, SameIsStill DEF Still, Idle
  <2>3. (PutAt(k)' => PutAt(k)) /\ (DeleteAt(k)' => DeleteAt(k))
    BY <1>3 DEF PutAt, DeleteAt, Storing, Deleting, Writing, Same, Writes, Deletes
  <2>4. Apart(k)' /\ SweptFirst(k)'
    BY <1>2, <2>1, <2>3 DEF KeyInv, Apart, SweptFirst, Rows
  <2>. QED
    BY <1>2, <2>1, <2>2, <2>4, Untouched
<1>. QED
  BY <1>4, <1>5, <1>6 DEF IndexStep

\* To the key j nothing, or it has no row and loses its mark or its place.
Faded(d, j) ==
  /\ d.row[j] = db.row[j] /\ EntriesOf(d, j) = EntriesOf(db, j) /\ BackOf(d, j) = BackOf(db, j)
  /\ j \in d.listed => j \in db.listed
  /\ j \in Rows(db) => (j \in db.listed => j \in d.listed) /\ (j \in db.marked => j \in d.marked)

\* The row of k goes without a call, with its entries or on an engine that leaves them.
Taken(d, k) ==
  /\ k \notin Rows(d)
  /\ EntriesOf(d, k) \subseteq EntriesOf(db, k) /\ BackOf(d, k) \subseteq BackOf(db, k)
  /\ engine = "dynamodb" => EntriesOf(d, k) = EntriesOf(db, k)
  /\ engine \in {"mem", "redis"} => EntriesOf(d, k) \subseteq BackOf(d, k)
  /\ Leaving \/ Bare(d, k)

LEMMA AloneKept ==
  ASSUME IndexInv, NEW d, Become(d, call), StoreInv(d), NEW keys \in SUBSET Key,
         sweep'.keys # {} => timed /\ engine \in SQL, cleaning' \subseteq cleaning,
         sweep'.at = "marks" => sweep' = sweep \/ sweep'.keys \subseteq keys,
         \A j \in Key \ keys : j \notin torn => Faded(d, j),
         \A k \in keys : k \notin torn => Taken(d, k)
  PROVE  IndexStep
<1>1. TypeOK /\ EngineInv /\ FindInv /\ (\A k \in Key \ torn : KeyInv(k))
      /\ call \in [Caller -> Calls]
  BY DEF IndexInv, TypeOK, Calls
<1>2. db' = d /\ UNCHANGED <<engine, timed>> /\ \A p \in Caller : Same(p)
  BY <1>1, AloneCalls DEF Become
<1>3. FindInv'
  BY <1>1, BecomeFinds
<1>4. EngineInv'
  <2>1. \A p \in Caller : Writing(p)' => WriteInv(call[p])'
    BY <1>1, <1>2 DEF EngineInv, Same, WriteInv
  <2>2. StoreInv(db)'
    BY <1>2 DEF StoreInv, Rows
  <2>. QED
    BY <1>1, <1>2, <2>1, <2>2 DEF EngineInv
<1>5. ASSUME NEW k \in Key, k \notin torn'
      PROVE  KeyInv(k)'
  <2>1. /\ Apart(k)' /\ (PutAt(k)' => k \notin Rows(db) \ Rows(db')) /\ KeyInv(k)
        /\ k \notin torn /\ \A p \in Caller : Still(p, k)
    BY <1>1, <1>2, <1>5, BecomeApart, SameIsStill
  <2>2. CASE k \notin keys
    <3>1. Faded(db', k)
      BY <1>2, <2>1, <2>2
    <3>2. SweptFirst(k)'
      <4>1. k \in cleaning \/ (sweep.at = "marks" /\ k \in sweep.keys) => k \notin Rows(db)
        BY <2>1 DEF KeyInv, SweptFirst
      <4>2. k \in Rows(db') <=> k \in Rows(db)
        BY <3>1 DEF Faded, Rows
      <4>. QED
        BY <2>2, <4>1, <4>2 DEF SweptFirst
    <3>. QED
      BY <1>2, <2>1, <3>1, <3>2, Untouched DEF Faded
  <2>3. CASE k \in keys
    <3>1. Taken(db', k)
      BY <1>2, <2>1, <2>3
    <3>2. \A p \in Caller : Storing(p)' /\ call'[p].at[k] = "indexed" => engine = "dynamodb"
      BY <1>2, <1>4 DEF EngineInv, WriteInv, Storing, Writing, Writes
    <3>. QED
      BY <1>2, <2>1, <3>1, <3>2, RemovedKept DEF Taken
  <2>. QED
    BY <2>2, <2>3
<1>. QED
  BY <1>3, <1>4, <1>5 DEF IndexStep

LEMMA MemSweepKept ==
  ASSUME IndexInv, MemSweep
  PROVE  IndexStep
<1>1. PICK k \in db.due : Become(MemRemove(db, k), call)
  BY DEF MemSweep
<1>2. k \in Key /\ engine = "mem" /\ UNCHANGED <<sweep, cleaning>>
  BY DEF IndexInv, TypeOK, Database, MemSweep, On, Calm
<1>. DEFINE d == MemRemove(db, k)
            keys == {k}
<1>3. /\ StoreInv(d) /\ k \notin Rows(d) /\ k \notin d.listed /\ BackOf(d, k) = {}
      /\ EntriesOf(d, k) \subseteq EntriesOf(db, k) /\ (k \notin torn => EntriesOf(d, k) = {})
      /\ \A j \in Key \ {k} : AsIs(d, db, j)
  BY <1>2, MemRemoved
<1>4. Become(d, call)
  BY <1>1
<1>. HIDE DEF d
<1>5. \A j \in Key \ keys : j \notin torn => Faded(d, j)
  BY <1>3 DEF AsIs, Faded
<1>6. \A j \in keys : j \notin torn => Taken(d, j)
  BY <1>2, <1>3 DEF Taken, Bare
<1>7. keys \in SUBSET Key /\ (sweep'.keys # {} => timed /\ engine \in SQL)
  BY <1>2 DEF IndexInv, EngineInv
<1>. HIDE DEF keys
<1>. QED
  BY <1>2, <1>3, <1>4, <1>5, <1>6, <1>7, AloneKept

LEMMA ExpireKept ==
  ASSUME IndexInv, RedisExpire \/ DynamoExpire \/ MongoExpire
  PROVE  IndexStep
<1>0. /\ TypeOK /\ EngineInv /\ Sound(db) /\ StoreInv(db) /\ UNCHANGED <<sweep, cleaning>>
      /\ sweep'.keys # {} => timed /\ engine \in SQL
  BY DEF IndexInv, TypeOK, Sound, EngineInv, RedisExpire, DynamoExpire, MongoExpire, Calm
<1>1. CASE RedisExpire \/ DynamoExpire
  <2>1. PICK k \in db.due : Become(Unmark(Remove(db, {k}), {k}), call)
    BY <1>1 DEF RedisExpire, DynamoExpire
  <2>2. engine \in {"redis", "dynamodb"} /\ k \in Key /\ timed
    BY <1>0, <1>1 DEF RedisExpire, DynamoExpire, On, StoreInv, Sound, Database
  <2>. DEFINE keys == {k}
              r == Remove(db, keys)
              d == Unmark(r, keys)
  <2>3. Become(d, call) /\ keys \in SUBSET Key
    BY <2>1, <2>2
  <2>. HIDE DEF keys
  <2>4. /\ Sound(r) /\ r.row = RowsWithout(db, keys) /\ r.entry = db.entry /\ r.back = db.back
        /\ r.listed = db.listed /\ r.marked = db.marked
    BY <1>0, RemoveRows
  <2>. HIDE DEF r
  <2>5. /\ d.row = RowsWithout(db, keys) /\ d.entry = db.entry /\ d.back = db.back
        /\ d.listed = db.listed /\ d.marked = db.marked \ keys
    BY <2>3, <2>4, UnmarkRows
  <2>. HIDE DEF d
  <2>6. Takes(d, keys)
    BY <2>5 DEF Takes
  <2>7. /\ StoreInv(d) /\ \A j \in Key \ keys : AsIs(d, db, j)
        /\ \A j \in keys : j \notin Rows(d)
    BY <1>0, <2>2, <2>3, <2>6, TakenView
  <2>8. \A j \in Key \ keys : j \notin torn => Faded(d, j)
    BY <2>7 DEF AsIs, Faded
  <2>9. \A j \in Key : EntriesOf(d, j) = EntriesOf(db, j) /\ BackOf(d, j) = BackOf(db, j)
    BY <2>5 DEF EntriesOf, BackOf
  <2>10. \A j \in Key \ torn : Backed(j)
    BY DEF IndexInv, KeyInv
  <2>11. \A j \in keys : j \notin torn => Taken(d, j)
    BY <2>2, <2>3, <2>7, <2>9, <2>10 DEF Taken, Backed, Leaving
  <2>. QED
    BY <1>0, <2>3, <2>7, <2>8, <2>11, AloneKept
<1>2. CASE MongoExpire
  <2>1. PICK k \in db.due : Become(Cascade(Unmark(db, {k}), {k}), call)
    BY <1>2 DEF MongoExpire
  <2>2. engine = "mongo" /\ k \in Key
    BY <1>0, <1>2 DEF MongoExpire, On, Sound, Database
  <2>. DEFINE keys == {k}
              u == Unmark(db, keys)
              d == Cascade(u, keys)
  <2>3. Become(d, call) /\ keys \in SUBSET Key
    BY <2>1, <2>2
  <2>. HIDE DEF keys
  <2>4. /\ Sound(u) /\ u.row = db.row /\ u.entry = db.entry /\ u.back = db.back
        /\ u.listed = db.listed /\ u.marked = db.marked \ keys
    BY <1>0, <2>3, UnmarkRows
  <2>. HIDE DEF u
  <2>5. /\ d.row = RowsWithout(db, keys) /\ d.entry = {e \in db.entry : e[2] \notin keys}
        /\ d.back = db.back /\ d.listed = db.listed /\ d.marked = db.marked \ keys
    <3>1. RowsWithout(u, keys) = RowsWithout(db, keys)
      BY <2>4 DEF RowsWithout
    <3>. QED
      BY <2>4, <3>1, CascadeRows
  <2>. HIDE DEF d
  <2>6. /\ StoreInv(d) /\ \A j \in Key \ keys : AsIs(d, db, j)
        /\ \A j \in keys : /\ j \notin Rows(d) /\ Bare(d, j)
                           /\ EntriesOf(d, j) \subseteq EntriesOf(db, j)
                           /\ BackOf(d, j) \subseteq BackOf(db, j)
    BY <1>0, <2>2, <2>3, <2>5, CascadeTakes
  <2>7. \A j \in Key \ keys : j \notin torn => Faded(d, j)
    BY <2>6 DEF AsIs, Faded
  <2>8. \A j \in keys : j \notin torn => Taken(d, j)
    BY <2>2, <2>6 DEF Taken
  <2>. QED
    BY <1>0, <2>3, <2>6, <2>7, <2>8, AloneKept
<1>. QED
  BY <1>1, <1>2

LEMMA AsItIs == \A j : Faded(db, j)
BY DEF Faded

LEMMA SqlSweepKept ==
  ASSUME IndexInv, SqlSweep
  PROVE  IndexStep
<1>0. /\ TypeOK /\ EngineInv /\ Sound(db) /\ StoreInv(db) /\ engine \in SQL
      /\ engine \notin {"mem", "redis", "mongo", "dynamodb"} /\ cleaning' = cleaning
      /\ sweep.keys \in SUBSET Key /\ {} \in SUBSET Key
      /\ sweep.keys # {} => timed
  BY DEF IndexInv, TypeOK, Sound, EngineInv, SqlSweep, On, SQL
<1>1. ASSUME NEW keys \in SUBSET db.due, keys # {}, sweep' = [at |-> "rows", keys |-> keys],
             Become(db, call)
      PROVE  IndexStep
  <2>1. timed
    BY <1>0, <1>1 DEF StoreInv, Sound
  <2>2. sweep'.at # "marks"
    BY <1>1
  <2>. QED
    BY <1>0, <1>1, <2>1, <2>2, AsItIs, AloneKept
<1>2. CASE sweep' = [at |-> "stopped", keys |-> {}] /\ Become(db, call)
  <2>1. sweep'.at # "marks" /\ sweep'.keys = {}
    BY <1>2
  <2>. QED
    BY <1>0, <1>2, <2>1, AsItIs, AloneKept
<1>3. CASE /\ sweep.at = "rows" /\ sweep' = [sweep EXCEPT !.at = "marks"]
           /\ Become(SqlRemove(db, sweep.keys), call)
  <2>. DEFINE keys == sweep.keys
              d == SqlRemove(db, keys)
  <2>1. /\ d.row = RowsWithout(db, keys) /\ d.marked = db.marked
        /\ engine = "sql" => d.entry = {e \in db.entry : e[2] \notin keys}
        /\ engine # "sql" => d.entry = db.entry
        /\ d.back = db.back /\ d.listed = db.listed
    BY <1>0, SqlRemoveRows
  <2>2. Become(d, call) /\ sweep'.keys = keys
    BY <1>0, <1>3 DEF TypeOK
  <2>. HIDE DEF d
  <2>3. Takes(d, keys) /\ (engine \in {"sql", "mongo"} => \A e \in d.entry : e[2] \notin keys)
    BY <1>0, <2>1 DEF Takes
  <2>4. /\ StoreInv(d) /\ \A j \in Key \ keys : AsIs(d, db, j)
        /\ \A j \in keys : /\ j \notin Rows(d)
                           /\ EntriesOf(d, j) \subseteq EntriesOf(db, j)
                           /\ BackOf(d, j) \subseteq BackOf(db, j)
    BY <1>0, <2>3, TakenView
  <2>5. \A j \in Key \ keys : j \notin torn => Faded(d, j)
    BY <2>4 DEF AsIs, Faded
  <2>6. \A j \in keys : Leaving \/ Bare(d, j)
    <3>1. CASE engine = "sql"
      <4>1. d.back = {} /\ d.listed = {}
        BY <1>0, <2>1 DEF StoreInv
      <4>. QED
        BY <2>3, <3>1, <4>1 DEF Bare, EntriesOf, BackOf
    <3>2. CASE engine = "planetscale"
      BY <1>0, <3>2 DEF Leaving
    <3>. QED
      BY <1>0, <3>1, <3>2 DEF SQL
  <2>7. \A j \in keys : j \notin torn => Taken(d, j)
    BY <1>0, <2>4, <2>6 DEF Taken
  <2>. QED
    BY <1>0, <2>2, <2>4, <2>5, <2>7, AloneKept
<1>4. CASE /\ sweep.at = "marks" /\ sweep' = [at |-> "idle", keys |-> {}]
           /\ Become(Unmark(db, sweep.keys), call)
  <2>. DEFINE d == Unmark(db, sweep.keys)
  <2>1. /\ d.row = db.row /\ d.entry = db.entry /\ d.back = db.back /\ d.listed = db.listed
        /\ d.marked = db.marked \ sweep.keys
    BY <1>0, UnmarkRows
  <2>2. Become(d, call) /\ sweep'.at # "marks" /\ sweep'.keys = {}
    BY <1>4
  <2>. HIDE DEF d
  <2>3. \A j \in Key \ torn : j \in sweep.keys => j \notin Rows(db)
    BY <1>4 DEF IndexInv, KeyInv, SweptFirst
  <2>4. \A j \in Key : j \notin torn => Faded(d, j)
    BY <2>1, <2>3 DEF Faded, EntriesOf, BackOf
  <2>5. StoreInv(d)
    BY <1>0, <2>1 DEF StoreInv, Rows
  <2>. QED
    BY <1>0, <2>2, <2>4, <2>5, AloneKept
<1>. QED
  BY <1>1, <1>2, <1>3, <1>4 DEF SqlSweep

LEMMA AroundKept ==
  ASSUME IndexInv, RedisUnlist \/ ComeDue
  PROVE  IndexStep
<1>0. /\ TypeOK /\ EngineInv /\ StoreInv(db) /\ db \in Database /\ {} \in SUBSET Key
      /\ UNCHANGED sweep /\ (sweep'.keys # {} => timed /\ engine \in SQL)
  BY DEF IndexInv, TypeOK, EngineInv, RedisUnlist, ComeDue, Calm
<1>1. CASE RedisUnlist
  <2>1. PICK k \in cleaning : /\ cleaning' = cleaning \ {k}
                              /\ Become([db EXCEPT !.listed = @ \ {k}], call)
    BY <1>1 DEF RedisUnlist
  <2>. DEFINE d == [db EXCEPT !.listed = @ \ {k}]
  <2>2. /\ d.row = db.row /\ d.entry = db.entry /\ d.back = db.back /\ d.marked = db.marked
        /\ d.listed = db.listed \ {k}
    BY <1>0 DEF Database
  <2>3. Become(d, call) /\ engine = "redis"
    BY <1>0, <2>1 DEF EngineInv
  <2>. HIDE DEF d
  <2>4. k \notin torn => k \notin Rows(db)
    BY DEF IndexInv, KeyInv, SweptFirst, Rows
  <2>5. \A j \in Key : j \notin torn => Faded(d, j)
    BY <2>2, <2>4 DEF Faded, EntriesOf, BackOf
  <2>6. StoreInv(d)
    BY <1>0, <2>2, <2>3 DEF StoreInv
  <2>. QED
    BY <1>0, <2>1, <2>3, <2>5, <2>6, AloneKept
<1>2. CASE ComeDue
  <2>1. PICK k \in db.marked \ db.due : Become([db EXCEPT !.due = @ \cup {k}], call)
    BY <1>2 DEF ComeDue
  <2>. DEFINE d == [db EXCEPT !.due = @ \cup {k}]
  <2>2. /\ d.row = db.row /\ d.entry = db.entry /\ d.back = db.back /\ d.marked = db.marked
        /\ d.listed = db.listed
    BY <1>0 DEF Database
  <2>3. Become(d, call) /\ cleaning' = cleaning
    BY <1>2, <2>1 DEF ComeDue, Calm
  <2>. HIDE DEF d
  <2>4. \A j \in Key : j \notin torn => Faded(d, j)
    BY <2>2 DEF Faded, EntriesOf, BackOf
  <2>5. StoreInv(d)
    BY <1>0, <2>2 DEF StoreInv, Rows
  <2>. QED
    BY <1>0, <2>3, <2>4, <2>5, AloneKept
<1>. QED
  BY <1>1, <1>2

-----------------------------------------------------------------------------
LEMMA IndexesStart ==
  ASSUME Init
  PROVE  IndexInv
<1>1. TypeOK
  BY StartsAsMap
<1>2. /\ \A p \in Caller : call[p] = None
      /\ \A k \in Key : db.row[k] = None
      /\ db.entry = {} /\ db.back = {} /\ db.listed = {} /\ db.marked = {}
      /\ sweep.keys = {} /\ cleaning = {}
  BY DEF Init
<1>3. Rows(db) = {}
  BY <1>2 DEF Rows
<1>4. EngineInv /\ FindInv
  BY <1>2, <1>3 DEF EngineInv, StoreInv, Writing, FindInv
<1>5. ASSUME NEW k \in Key
      PROVE  KeyInv(k)
  BY <1>2, <1>3 DEF KeyInv, Apart, PutAt, Storing, Shown, Swept, Bare, EntriesOf, BackOf,
                    Ready, PutReady, DeleteReady, Deleting, Backed, SweptFirst
<1>. QED
  BY <1>1, <1>4, <1>5 DEF IndexInv

LEMMA IndexesKept ==
  ASSUME IndexInv, [Next]_vars
  PROVE  IndexInv'
<1>1. TypeOK'
  BY EveryStepMaps DEF IndexInv, MapStep
<1>. SUFFICES IndexStep
  BY <1>1 DEF IndexInv, IndexStep
<1>2. ASSUME NEW p \in Caller, Step(p)
      PROVE  IndexStep
  BY <1>2, PutsKept, MongoPutKept, DynamoPutKept, MemDeleteKept, SqlDeleteKept, ManyKept,
     RedisDeleteKept, DynamoDeleteKept, FindsKept, RedisGetAllKept DEF Step
<1>3. ASSUME NEW p \in Caller, Ask(p) \/ Answer(p) \/ Fail(p)
      PROVE  IndexStep
  BY <1>3, AskKept, AnswerKept, FailKept
<1>4. CASE Cleanup \/ ComeDue
  BY <1>4, MemSweepKept, SqlSweepKept, ExpireKept, AroundKept DEF Cleanup
<1>5. CASE UNCHANGED vars
  <2>1. EngineInv /\ FindInv /\ \A k \in Key \ torn : KeyInv(k)
    BY DEF IndexInv
  <2>2. EngineInv'
    BY <1>5, <2>1 DEF vars, EngineInv, StoreInv, Rows, Writing, WriteInv
  <2>3. FindInv'
    BY <1>5, <2>1 DEF vars, FindInv, Left
  <2>4. ASSUME NEW k \in Key \ torn
        PROVE  KeyInv(k)'
    <3>1. KeyInv(k) /\ \A p \in Caller : Still(p, k)
      BY <1>5, <2>1 DEF vars, Still, Idle, Writing
    <3>2. Apart(k)' /\ SweptFirst(k)'
      BY <1>5, <3>1
         DEF vars, KeyInv, Apart, SweptFirst, PutAt, DeleteAt, Storing, Deleting, Rows
    <3>. QED
      BY <1>5, <3>1, <3>2, Untouched DEF vars
  <2>. QED
    BY <1>5, <2>2, <2>3, <2>4 DEF IndexStep, vars
<1>. QED
  BY <1>2, <1>3, <1>4, <1>5 DEF Next

LEMMA IndexesHold == Spec => []IndexInv
<1>1. Init => IndexInv
  BY IndexesStart
<1>2. IndexInv /\ [Next]_vars => IndexInv'
  BY IndexesKept
<1>. QED
  BY <1>1, <1>2, PTL DEF Spec

(***************************************************************************)
(* On every engine the indexes, the marks of the times to live and the     *)
(* records agree on each key that no put of was met by a removal, whenever *)
(* no call, sweep or cleaning is at it (db/mem.ts, db/sql/sql.ts,          *)
(* db/redis.ts, db/mongo.ts, db/dynamoDb.ts).                              *)
(***************************************************************************)
THEOREM IndexesStay == Spec => []IndexesAgree
<1>1. ASSUME IndexInv, NEW k \in Key \ torn, Quiet(k)
      PROVE  Shown(k) /\ Swept(k) /\ ~Harmed(k) /\ ~Between(k)
  <2>1. Shown(k) /\ Swept(k)
    BY <1>1 DEF IndexInv, KeyInv
  <2>2. ~Harmed(k) /\ ~Between(k)
    BY <1>1 DEF Quiet, Harmed, Between, Storing, Deleting, Writes, Deletes
  <2>. QED
    BY <2>1, <2>2
<1>2. IndexInv => IndexesAgree
  <2>. SUFFICES ASSUME IndexInv
                PROVE  IndexesAgree
    OBVIOUS
  <2>1. Rows(db) \subseteq Key
    BY DEF Rows
  <2>2. NoneHidden
    BY <1>1, <2>1 DEF NoneHidden, Shown, EntriesOf
  <2>3. MarkKept
    BY <1>1, <2>1 DEF MarkKept, Shown
  <2>4. NothingDangles
    BY <1>1 DEF NothingDangles, Swept, Leaving, Bare, BackOf
  <2>. QED
    BY <2>2, <2>3, <2>4 DEF IndexesAgree, IndexInv
<1>. QED
  BY <1>2, IndexesHold, PTL

(***************************************************************************)
(* A find of several requests gives each record that was there under its   *)
(* label from its start to its end, and none that never was meanwhile, on  *)
(* every engine (getByIndex and getAll of db/mem.ts, db/sql/sql.ts,        *)
(* db/redis.ts, db/mongo.ts, db/dynamoDb.ts).                              *)
(***************************************************************************)
THEOREM FindsStayHonest == Spec => []FindIsHonest
<1>1. IndexInv => FindIsHonest
  <2>. SUFFICES ASSUME IndexInv, NEW p \in Caller,
                       call[p] # None, call[p].op \in Finds, Left(call[p]) = {}
                PROVE  call[p].always \subseteq call[p].got /\ call[p].got \subseteq call[p].ever
    BY DEF FindIsHonest
  <2>1. call[p].always \subseteq Key
    BY DEF IndexInv, TypeOK, Call
  <2>2. /\ call[p].got \subseteq call[p].ever
        /\ \A k \in call[p].always : call[p].at[k] # "done" \/ k \in call[p].got
    BY DEF IndexInv, FindInv
  <2>. QED
    BY <2>1, <2>2 DEF Left
<1>. QED
  BY <1>1, IndexesHold, PTL
=============================================================================
