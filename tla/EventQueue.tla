----------------------------- MODULE EventQueue -----------------------------
(***************************************************************************)
(* The queue of directory-sync events and the workers that deliver it in   *)
(* batches to the webhooks of the directories                              *)
(* (npm/src/directory-sync/batch-events/queue.ts, class EventProcessor).   *)
(*                                                                         *)
(* Every request to the store is a step of its own, and requests sent      *)
(* together (Promise.allSettled) land in any order.  process does not wait *)
(* for the worker it starts, so one process may run several; the lock that *)
(* process asks for is the record of CronLock, and may be lost at any time *)
(* while a worker runs (CronLock says when).                               *)
(***************************************************************************)
EXTENDS Absence, Naturals, FiniteSets, Sequences, Functions

CONSTANTS
  Event, Directory, DirOf,    \* DirOf[e]: the directory event e belongs to
  Instance, Worker, HostOf,   \* HostOf[w]: the process worker w runs in
  BatchSize,                  \* the largest batch an operator asks for (a bound)
  Stamp,                      \* what a store may sort its records by (a bound)
  Retry,                      \* attempts of one send beyond the first
  RetryCap,                   \* retry counts saturate here (a bound)
  StoreErrors,                \* may a store request fail?
  Changes,                    \* states a directory may change to (a bound)
  Broken                      \* directories whose webhook never answers 200

ASSUME QueueAssumption ==
  /\ DirOf \in [Event -> Directory]
  /\ HostOf \in [Worker -> Instance]
  /\ None \notin Instance
  /\ BatchSize \in Nat \ {0} /\ Retry \in Nat /\ RetryCap \in Nat
  /\ Stamp \subseteq Nat /\ 0 \in Stamp
  /\ StoreErrors \in BOOLEAN
  /\ Changes \subseteq {"ready", "unready", "gone"}

VARIABLES
  pushed,    \* history: the events pushed, oldest first
  stamp,     \* history: the stamp each event got when it was pushed
  stored,    \* ids in the event store
  born,      \* the stamp of each stored record
  retry,     \* retry_count of each stored event
  dir,       \* what directories.get would say of each directory
  lock,      \* the process named in the event lock, or None
  alive,     \* which processes run
  batchSize, \* opts.dsync.webhookBatchSize
  pc,        \* where each worker is
  left,      \* its batch, by place: the events not handled yet
  snap,      \* retry counts as fetched with the batch
  view,      \* directories as fetched for the batch
  todo,      \* events whose put or delete has not landed yet
  tries,     \* failed attempts of the send under way
  received,  \* history: events a webhook has seen
  acked,     \* history: events a webhook answered 200 for
  dropped,   \* history: events given up for their directory's sake
  failures,  \* history: failed sends of each event, saturating
  unlogged   \* history: handlings of it whose log failed, saturating

storeVars  == <<stored, born, retry>>
envVars    == <<dir, lock, alive, batchSize>>
workerVars == <<pc, left, snap, view, todo, tries>>
history    == <<received, acked, dropped, failures, unlogged>>
vars == <<pushed, stamp, storeVars, envVars, workerVars, history>>

\* ready: active with a webhook; unready: inactive or without a webhook.
DirState == {"ready", "unready", "gone"}

TypeOK ==
  /\ pushed \in Seq(Event)
  /\ stored \subseteq Range(pushed)
  /\ stamp \in [Event -> Stamp] /\ born \in [Event -> Stamp]
  /\ retry \in [Event -> 0 .. RetryCap]
  /\ \A e \in Event \ stored : retry[e] = 0 /\ born[e] = 0
  /\ dir \in [Directory -> DirState]
  /\ lock \in Instance \cup {None}
  /\ alive \in [Instance -> BOOLEAN]
  /\ batchSize \in 1 .. BatchSize
  /\ pc \in [Worker -> {"off", "fetch", "mark", "send", "delete", "drop",
                        "fail", "throw"}]
  /\ left \in [Worker -> UNION {[S -> Event] : S \in SUBSET (1 .. BatchSize)}]
  /\ snap \in [Worker -> [Event -> 0 .. RetryCap]]
  /\ view \in [Worker -> [Directory -> DirState \cup {"error"}]]
  /\ todo \in [Worker -> SUBSET Event]
  /\ tries \in [Worker -> 0 .. Retry]
  /\ received \subseteq Event /\ acked \subseteq Event /\ dropped \subseteq Event
  /\ failures \in [Event -> 0 .. RetryCap] /\ unlogged \in [Event -> 0 .. RetryCap]
  /\ \A w \in Worker : todo[w] \subseteq Range(left[w]) \cap Range(pushed)

Init ==
  /\ pushed = <<>> /\ stamp = [e \in Event |-> 0]
  /\ stored = {} /\ born = [e \in Event |-> 0] /\ retry = [e \in Event |-> 0]
  /\ dir = [d \in Directory |-> "ready"]
  /\ lock = None
  /\ alive = [i \in Instance |-> TRUE]
  /\ batchSize \in 1 .. BatchSize
  /\ pc = [w \in Worker |-> "off"]
  /\ left = [w \in Worker |-> <<>>]
  /\ snap = [w \in Worker |-> [e \in Event |-> 0]]
  /\ view = [w \in Worker |-> [d \in Directory |-> "ready"]]
  /\ todo = [w \in Worker |-> {}]
  /\ tries = [w \in Worker |-> 0]
  /\ received = {} /\ acked = {} /\ dropped = {}
  /\ failures = [e \in Event |-> 0] /\ unlogged = [e \in Event |-> 0]

-----------------------------------------------------------------------------
CapAt(n, bound) == IF n < bound THEN n ELSE bound

(***************************************************************************)
(* eventStore.put of the record with count n.  A record that is in the     *)
(* store keeps its place; a new one gets the stamp the engine sorts by.    *)
(* That is the time in SQL, Redis and MongoDB: records may tie, and clocks *)
(* of processes differ.  DynamoDB sorts by the key, a digest of a random   *)
(* id, whatever order is asked for.  So any stamp may come, at any time.   *)
(* The status is left out: it is only reported.                            *)
(***************************************************************************)
PutEvent(e, n) ==
  /\ stored' = stored \cup {e}
  /\ IF e \in stored THEN UNCHANGED born
     ELSE \E k \in Stamp : born' = [born EXCEPT ![e] = k]
  /\ retry' = [retry EXCEPT ![e] = n]

DeleteEvent(e) ==
  /\ stored' = stored \ {e}
  /\ born' = [born EXCEPT ![e] = 0]
  /\ retry' = [retry EXCEPT ![e] = 0]

\* What getAll with a limit may give of the records in S: as many as there
\* are up to the limit, those with lower stamps first.
Batches(S) ==
  {b \in UNION {[1 .. k -> S] : k \in 1 .. batchSize} :
     /\ IsInjective(b)
     /\ DOMAIN b = 1 .. batchSize \/ Range(b) = S
     /\ \A i \in DOMAIN b, e \in S :
          born[e] < born[b[i]] => \E j \in DOMAIN b : j < i /\ b[j] = e}

\* groupBy keeps the directories in the order of their first events.
First(w) == left[w][CHOOSE i \in DOMAIN left[w] : \A j \in DOMAIN left[w] : i <= j]

\* The events of the first directory of the batch that is not handled yet.
Group(w) == {e \in Range(left[w]) : DirOf[e] = DirOf[First(w)]}

Goto(w, label) == pc' = [pc EXCEPT ![w] = label]

-----------------------------------------------------------------------------
(***************************************************************************)
(* push, as the internal callback calls it for a directory that it finds   *)
(* and that has a webhook.  Whether it is active is not asked, so events   *)
(* of an unready one may come.  Event ids are fresh (randomUUID).          *)
(***************************************************************************)
Push(e) ==
  /\ e \notin Range(pushed)
  /\ dir[DirOf[e]] # "gone"
  /\ pushed' = Append(pushed, e)
  /\ PutEvent(e, 0)
  /\ stamp' = [stamp EXCEPT ![e] = born'[e]]
  /\ UNCHANGED <<envVars, workerVars, history>>

Granted_Free(i) == lock = None

\* The lock is granted when it is free or already this process's.
Granted(i) == lock \in {None, i}

\* process: isJobRunning is set and cleared in one synchronous turn around
\* the call of _process, which is not awaited, so it stops nothing.
Start(w) ==
  /\ pc[w] = "off" /\ alive[HostOf[w]]
  /\ Granted(HostOf[w])
  /\ lock' = HostOf[w]
  /\ Goto(w, "fetch")
  /\ UNCHANGED <<pushed, stamp, storeVars, dir, alive, batchSize, left, snap,
                 view, todo, tries, history>>

\* The worker takes the batch b.
Take(w, b) ==
  /\ pc[w] = "fetch"
  /\ left' = [left EXCEPT ![w] = b]
  /\ snap' = [snap EXCEPT ![w] = [e \in Event |->
                 IF e \in Range(b) THEN retry[e] ELSE 0]]
  /\ todo' = [todo EXCEPT ![w] = Range(b)]
  /\ Goto(w, "mark")
  /\ UNCHANGED <<pushed, stamp, storeVars, envVars, view, tries, history>>

Fetch_SkipFailed(w) == \E b \in Batches({e \in stored : retry[e] = 0}) : Take(w, b)

\* fetchNextBatch: the first events of the store, whatever their status.
Fetch(w) == \E b \in Batches(stored) : Take(w, b)

\* Nothing to do: release the lock if it is this process's, and stop.
FetchNone(w) ==
  /\ pc[w] = "fetch"
  /\ stored = {}
  /\ lock' = IF lock = HostOf[w] THEN None ELSE lock
  /\ Goto(w, "off")
  /\ UNCHANGED <<pushed, stamp, storeVars, dir, alive, batchSize, left, snap,
                 view, todo, tries, history>>

\* One of the requests under way lands.
Landed(w, e) ==
  /\ e \in todo[w]
  /\ todo' = [todo EXCEPT ![w] = @ \ {e}]

MarkLands_Counts(w, e) ==
  /\ pc[w] = "mark" /\ Landed(w, e)
  /\ PutEvent(e, CapAt(snap[w][e] + 1, RetryCap))
  /\ UNCHANGED <<pushed, stamp, envVars, pc, left, snap, view, tries, history>>

\* A fetched event is put back as PROCESSING.  The put carries the record as
\* fetched: an event deleted meanwhile comes back, wherever the store sorts it.
MarkLands(w, e) ==
  /\ pc[w] = "mark" /\ Landed(w, e)
  /\ PutEvent(e, snap[w][e])
  /\ UNCHANGED <<pushed, stamp, envVars, pc, left, snap, view, tries, history>>

\* All directories of the batch are fetched at once.  directories.get turns
\* every error into an answer without a directory.
Resolved(w, failed) ==
  /\ pc[w] = "mark" /\ todo[w] = {}
  /\ view' = [view EXCEPT ![w] =
                [d \in Directory |-> IF d \in failed THEN "error" ELSE dir[d]]]
  /\ Goto(w, "send")
  /\ UNCHANGED <<pushed, stamp, storeVars, envVars, left, snap, todo, tries,
                 history>>

Resolve(w) == Resolved(w, {})
ResolveFails(w) == \E failed \in SUBSET Directory \ {{}} : Resolved(w, failed)

-----------------------------------------------------------------------------
\* The group of the batch whose turn it is; d is its directory.
Turn(w, d) == pc[w] = "send" /\ left[w] # <<>> /\ d = DirOf[First(w)]

\* Directory not found, not active or without a webhook: delete its events.
Drop(w, d) ==
  /\ Turn(w, d) /\ view[w][d] # "ready"
  /\ todo' = [todo EXCEPT ![w] = Group(w)]
  /\ dropped' = dropped \cup Group(w)
  /\ Goto(w, "drop")
  /\ UNCHANGED <<pushed, stamp, storeVars, envVars, left, snap, view, tries,
                 received, acked, failures, unlogged>>

\* The webhook answers 200.
SendOk(w, d) ==
  /\ Turn(w, d) /\ view[w][d] = "ready" /\ d \notin Broken
  /\ received' = received \cup Group(w)
  /\ acked' = acked \cup Group(w)
  /\ todo' = [todo EXCEPT ![w] = Group(w)]
  /\ tries' = [tries EXCEPT ![w] = 0]
  /\ Goto(w, "delete")
  /\ UNCHANGED <<pushed, stamp, storeVars, envVars, left, snap, view, dropped,
                 failures, unlogged>>

\* markAsFailed: the events of the group go back to the store as failed.
MarkAsFailed(w, label) ==
  /\ todo' = [todo EXCEPT ![w] = Group(w)]
  /\ tries' = [tries EXCEPT ![w] = 0]
  /\ Goto(w, label)

\* A history of events, with one more for each event of the group.
Raised(count, w) ==
  [e \in Event |->
     IF e \in Group(w) THEN CapAt(count[e] + 1, RetryCap) ELSE count[e]]

\* The group was not delivered.
Fail(w, label) ==
  /\ MarkAsFailed(w, label)
  /\ failures' = Raised(failures, w)

\* The webhook answers with a success other than 200.
SendOther(w, d) ==
  /\ Turn(w, d) /\ view[w][d] = "ready"
  /\ received' = received \cup Group(w)
  /\ Fail(w, "fail")
  /\ UNCHANGED <<pushed, stamp, storeVars, envVars, left, snap, view, acked,
                 dropped, unlogged>>

\* An attempt fails or its answer is lost.  The interceptor tries again; the
\* last failure reaches the worker, which marks the events and throws.
SendError(w, d) ==
  /\ Turn(w, d) /\ view[w][d] = "ready"
  /\ received' \in {received, received \cup Group(w)}
  /\ \/ /\ tries[w] < Retry
        /\ tries' = [tries EXCEPT ![w] = @ + 1]
        /\ UNCHANGED <<todo, failures, pc>>
     \/ /\ tries[w] = Retry
        /\ Fail(w, "throw")
  /\ UNCHANGED <<pushed, stamp, storeVars, envVars, left, snap, view, acked,
                 dropped, unlogged>>

DeleteLands(w, e) ==
  /\ pc[w] \in {"delete", "drop"} /\ Landed(w, e)
  /\ DeleteEvent(e)
  /\ UNCHANGED <<pushed, stamp, envVars, pc, left, snap, view, tries, history>>

FailLands_Deletes(w, e) ==
  /\ pc[w] \in {"fail", "throw"} /\ Landed(w, e)
  /\ DeleteEvent(e)
  /\ UNCHANGED <<pushed, stamp, envVars, pc, left, snap, view, tries, history>>

FailLands(w, e) ==
  /\ pc[w] \in {"fail", "throw"} /\ Landed(w, e)
  /\ PutEvent(e, CapAt(snap[w][e] + 1, RetryCap))
  /\ UNCHANGED <<pushed, stamp, envVars, pc, left, snap, view, tries, history>>

\* A request of any of these fails, unnoticed (Promise.allSettled).
LandFails(w, e) ==
  /\ pc[w] \in {"mark", "delete", "drop", "fail", "throw"} /\ Landed(w, e)
  /\ UNCHANGED <<pushed, stamp, storeVars, envVars, pc, left, snap, view, tries,
                 history>>

-----------------------------------------------------------------------------
\* The places of the batch that other directories' events keep.
Others(w) ==
  Restrict(left[w], {i \in DOMAIN left[w] : DirOf[left[w][i]] # DirOf[First(w)]})

\* The group is done and the webhook call, if any, is logged: next group.
GroupDone(w) ==
  /\ pc[w] \in {"delete", "drop", "fail"} /\ todo[w] = {}
  /\ left' = [left EXCEPT ![w] = Others(w)]
  /\ Goto(w, "send")
  /\ UNCHANGED <<pushed, stamp, storeVars, envVars, snap, view, todo, tries,
                 history>>

\* Logging the call fails, still inside the try: the events just handled,
\* delivered ones too, are marked as failed and the worker throws.
LogThrows(w) ==
  /\ pc[w] \in {"delete", "fail"} /\ todo[w] = {}
  /\ MarkAsFailed(w, "throw")
  /\ unlogged' = Raised(unlogged, w)
  /\ UNCHANGED <<pushed, stamp, storeVars, envVars, left, snap, view, received,
                 acked, dropped, failures>>

\* What a worker knew of its batch is forgotten with the batch.
Forget(w) ==
  /\ left' = [left EXCEPT ![w] = <<>>]
  /\ snap' = [snap EXCEPT ![w] = [e \in Event |-> 0]]
  /\ view' = [view EXCEPT ![w] = [d \in Directory |-> "ready"]]

\* The worker ends with an exception: no release, no further group.
Thrown(w) ==
  /\ pc[w] = "throw" /\ todo[w] = {}
  /\ Forget(w)
  /\ Goto(w, "off")
  /\ UNCHANGED <<pushed, stamp, storeVars, envVars, todo, tries, history>>

\* The batch is done: fetch the next one.
BatchDone(w) ==
  /\ pc[w] = "send" /\ left[w] = <<>>
  /\ Forget(w)
  /\ Goto(w, "fetch")
  /\ UNCHANGED <<pushed, stamp, storeVars, envVars, todo, tries, history>>

-----------------------------------------------------------------------------
\* The environment: a directory is switched on or off, or deleted for good.
DirectoryChanges(d) ==
  /\ dir[d] # "gone"
  /\ dir' \in {[dir EXCEPT ![d] = s] : s \in Changes \ {dir[d]}}
  /\ UNCHANGED <<pushed, stamp, storeVars, lock, alive, batchSize, workerVars,
                 history>>

\* The lock's record expires, is swept, or is lost to another process.
LockLost ==
  /\ lock # None
  /\ lock' = None
  /\ UNCHANGED <<pushed, stamp, storeVars, dir, alive, batchSize, workerVars,
                 history>>

\* A process dies with its workers; one stays up.
Crash(i) ==
  /\ alive[i] /\ \E k \in Instance \ {i} : alive[k]
  /\ alive' = [alive EXCEPT ![i] = FALSE]
  /\ pc' = [w \in Worker |-> IF HostOf[w] = i THEN "off" ELSE pc[w]]
  /\ left' = [w \in Worker |-> IF HostOf[w] = i THEN <<>> ELSE left[w]]
  /\ snap' = [w \in Worker |-> IF HostOf[w] = i THEN [e \in Event |-> 0]
                                ELSE snap[w]]
  /\ view' = [w \in Worker |-> IF HostOf[w] = i
                THEN [d \in Directory |-> "ready"] ELSE view[w]]
  /\ todo' = [w \in Worker |-> IF HostOf[w] = i THEN {} ELSE todo[w]]
  /\ tries' = [w \in Worker |-> IF HostOf[w] = i THEN 0 ELSE tries[w]]
  /\ UNCHANGED <<pushed, stamp, storeVars, dir, lock, batchSize, history>>

Deliver(w, d) ==
  Drop(w, d) \/ SendOk(w, d) \/ SendOther(w, d) \/ SendError(w, d)

Land(w, e) == MarkLands(w, e) \/ DeleteLands(w, e) \/ FailLands(w, e)

WorkerStep(w) ==
  \/ Fetch(w) \/ FetchNone(w) \/ Resolve(w)
  \/ \E d \in Directory : Deliver(w, d)
  \/ \E e \in Event : Land(w, e)
  \/ GroupDone(w) \/ Thrown(w) \/ BatchDone(w)

\* A request of the worker to the store fails.
StoreFails(w) ==
  /\ StoreErrors
  /\ ResolveFails(w) \/ LogThrows(w) \/ \E e \in Event : LandFails(w, e)

\* The store answers.
Served ==
  \/ \E e \in Event : Push(e)
  \/ \E w \in Worker : Start(w) \/ WorkerStep(w)
  \/ \E d \in Directory : DirectoryChanges(d)
  \/ LockLost
  \/ \E i \in Instance : Crash(i)

Next == Served \/ \E w \in Worker : StoreFails(w)

Spec == Init /\ [][Next]_vars

\* What a process that died left in the lock.
LockExpires == LockLost /\ ~alive[lock]

(***************************************************************************)
(* The cron starts workers, their requests are answered, the lock of a     *)
(* process that died expires, and a webhook that is called for ever        *)
(* answers 200 at last, unless it is broken.                               *)
(***************************************************************************)
Fairness ==
  /\ WF_vars(LockExpires)
  /\ \A w \in Worker :
       /\ WF_vars(Start(w)) /\ WF_vars(WorkerStep(w))
       /\ \A d \in Directory : SF_vars(SendOk(w, d))

FairSpec == Spec /\ Fairness

-----------------------------------------------------------------------------
(***************************************************************************)
(* No event vanishes: one that left the store was answered with 200 or     *)
(* given up because of its directory, whatever failed, crashed, or ran at  *)
(* the same time (queue.ts:127-156).                                       *)
(***************************************************************************)
NothingVanishes ==
  \A e \in Range(pushed) : e \in stored \cup acked \cup dropped

(***************************************************************************)
(* The stored retry_count never exceeds the failed deliveries of the event *)
(* and the calls that could not be logged, which count although the        *)
(* webhook may have answered 200 (queue.ts:157-164, 209, 243-250 write     *)
(* counts read long before).                                               *)
(***************************************************************************)
RetryCountHonest == \A e \in Event : retry[e] <= failures[e] + unlogged[e]

(***************************************************************************)
(* The events of a directory first reach its webhook in the order they     *)
(* were pushed as far as the store keeps that order, with any number of    *)
(* workers, retries and failures: an event pushed later and sorted later   *)
(* overtakes only one that was given up (queue.ts:200-222).  Nothing is    *)
(* said of events that tie or that the store sorts the other way, as       *)
(* DynamoDB often does: they are delivered in any order.                   *)
(***************************************************************************)
FirstDeliveryInOrder ==
  \A m, n \in DOMAIN pushed :
    /\ m < n /\ stamp[pushed[m]] < stamp[pushed[n]]
    /\ DirOf[pushed[m]] = DirOf[pushed[n]]
    /\ pushed[n] \in received
    => pushed[m] \in received \cup dropped

(***************************************************************************)
(* The comment of queue.ts:112-113, "Iterate over the directories and send *)
(* the events to the webhooks.  For each directory, we will send the       *)
(* events in a batch": a directory whose webhook works is served, whatever *)
(* happens to the webhook of another one.                                  *)
(***************************************************************************)
HealthyDirectoryServed ==
  \A e \in Event :
    DirOf[e] \notin Broken =>
      ((e \in Range(pushed)) ~> (e \in acked \cup dropped))
=============================================================================
