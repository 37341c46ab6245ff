------------------------------ MODULE RecordMap ------------------------------
(***************************************************************************)
(* What every database engine promises the controllers: a map from keys to *)
(* records.  A call takes effect on each of its keys at one moment between *)
(* its start and its answer, whatever calls overlap it, and a record goes  *)
(* by itself only when its time to live has passed.  A record is told from *)
(* others by the labels it is stored under.                                *)
(***************************************************************************)
EXTENDS Absence

CONSTANTS Key, Label, Caller

VARIABLES
  row,     \* row[k]: the record under key k, or None
  task,    \* task[p]: what caller p has asked to write or delete, or None
  due,     \* keys whose time to live has passed
  doomed   \* keys that a sweep has found due and is about to remove

vars == <<row, task, due, doomed>>

Task == [op : {"put", "delete", "failed"}, labels : SUBSET Label, left : SUBSET Key]

\* A record stored without labels stays under those of the record it replaces.
Replace(old, labels) == IF labels = {} /\ old # None THEN old ELSE labels

Init ==
  /\ row = [k \in Key |-> None]
  /\ task = [p \in Caller |-> None]
  /\ due = {} /\ doomed = {}

\* Only caller p's task changes.
Own(p) == task' = [task EXCEPT ![p] = task'[p]]

Ask(p) ==
  /\ task[p] = None /\ task'[p] # None /\ task'[p] \in Task /\ task'[p].op # "failed" /\ Own(p)
  /\ UNCHANGED <<row, due, doomed>>

\* The call takes effect on some of the keys that it has left.
Effect(p) ==
  LET done == IF task'[p] = None THEN {} ELSE task[p].left \ task'[p].left
  IN /\ task'[p] # None /\ task'[p] = [task[p] EXCEPT !.left = @ \ done] /\ Own(p)
     /\ row' = [k \in Key |-> IF k \notin done THEN row[k]
                              ELSE IF task[p].op = "delete" THEN None
                              ELSE Replace(row[k], task[p].labels)]
     /\ due' \subseteq due /\ due \ due' \subseteq done
     /\ UNCHANGED doomed

\* A call is answered without an error when it has taken effect on all of its
\* keys; one that fails may have taken effect on some of them.
Answer(p) ==
  /\ task[p].left = {}
  /\ task' = [task EXCEPT ![p] = None]
  /\ UNCHANGED <<row, due, doomed>>

Fail(p) ==
  /\ task'[p] = [op |-> "failed", labels |-> {}, left |-> {}] /\ Own(p)
  /\ UNCHANGED <<row, due, doomed>>

\* Time passes for a key, or a sweep notes keys that are due.
Age == due \subseteq due' /\ UNCHANGED <<row, task, doomed>>
Doom == doomed' \subseteq due \cup doomed /\ UNCHANGED <<row, task, due>>

\* A record whose time has passed is removed, or only the mark of its time.
Expire ==
  /\ \A k \in Key : row'[k] # row[k] => row'[k] = None /\ k \in due \cup doomed
  /\ due' \subseteq due /\ doomed' \subseteq doomed
  /\ UNCHANGED task

Next ==
  \/ \E p \in Caller :
       \/ Ask(p)
       \/ task[p] # None /\ (Effect(p) \/ Answer(p) \/ Fail(p))
  \/ Age \/ Doom \/ Expire

Spec == Init /\ [][Next]_vars
=============================================================================
