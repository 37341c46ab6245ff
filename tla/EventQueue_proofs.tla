-------------------------- MODULE EventQueue_proofs --------------------------
(***************************************************************************)
(* What the event queue guarantees for any number of events, directories,  *)
(* processes and workers, whatever requests fail and whenever the lock is  *)
(* lost.                                                                   *)
(***************************************************************************)
EXTENDS EventQueue, TLAPS

\* As much typing as the invariants below need.
Shape ==
  /\ pushed \in Seq(Event)
  /\ retry \in [Event -> 0 .. RetryCap]
  /\ failures \in [Event -> 0 .. RetryCap] /\ unlogged \in [Event -> 0 .. RetryCap]
  /\ snap \in [Worker -> [Event -> 0 .. RetryCap]]
  /\ DOMAIN pc = Worker
  /\ DOMAIN todo = Worker

\* What a worker is about to delete is acknowledged or given up.
DeletesJustified ==
  \A w \in Worker : /\ pc[w] = "delete" => todo[w] \subseteq acked
                    /\ pc[w] = "drop" => todo[w] \subseteq dropped

VanishInv == Shape /\ DeletesJustified /\ NothingVanishes

\* Every count a worker holds or is about to write is accounted for.
CountsHonest ==
  \A w \in Worker, e \in Event :
    /\ snap[w][e] <= failures[e] + unlogged[e]
    /\ pc[w] \in {"fail", "throw"} /\ e \in todo[w]
         => CapAt(snap[w][e] + 1, RetryCap) <= failures[e] + unlogged[e]

CountInv == Shape /\ CountsHonest /\ RetryCountHonest

-----------------------------------------------------------------------------
LEMMA CapNat == RetryCap \in Nat /\ 0 \in 0 .. RetryCap
<1>1. RetryCap \in Nat
  BY QueueAssumption
<1>. QED
  BY <1>1

LEMMA CapBound ==
  ASSUME NEW n \in 0 .. RetryCap
  PROVE  /\ CapAt(n + 1, RetryCap) \in 0 .. RetryCap
         /\ n <= CapAt(n + 1, RetryCap)
         /\ \A m \in 0 .. RetryCap :
              m <= n => CapAt(m + 1, RetryCap) <= CapAt(n + 1, RetryCap)
BY CapNat DEF CapAt

LEMMA RangeAppend ==
  ASSUME NEW S, NEW s \in Seq(S), NEW x \in S
  PROVE  Range(Append(s, x)) = Range(s) \cup {x}
<1>1. DOMAIN Append(s, x) = 1 .. Len(s) + 1 /\ DOMAIN s = 1 .. Len(s)
  OBVIOUS
<1>2. Append(s, x)[Len(s) + 1] = x
  OBVIOUS
<1>3. \A i \in 1 .. Len(s) : Append(s, x)[i] = s[i]
  OBVIOUS
<1>4. Len(s) \in Nat
  OBVIOUS
<1>. QED
  BY <1>1, <1>2, <1>3, <1>4 DEF Range

LEMMA PutShape ==
  ASSUME Shape, NEW e, NEW n \in 0 .. RetryCap, PutEvent(e, n)
  PROVE  retry' \in [Event -> 0 .. RetryCap]
BY DEF Shape, PutEvent

LEMMA DeleteShape ==
  ASSUME Shape, NEW e, DeleteEvent(e)
  PROVE  retry' \in [Event -> 0 .. RetryCap]
BY CapNat DEF Shape, DeleteEvent

LEMMA RaisedShape ==
  ASSUME NEW count \in [Event -> 0 .. RetryCap], NEW w
  PROVE  /\ Raised(count, w) \in [Event -> 0 .. RetryCap]
         /\ \A e \in Event : count[e] <= Raised(count, w)[e]
         /\ \A e \in Group(w) \cap Event :
              Raised(count, w)[e] = CapAt(count[e] + 1, RetryCap)
<1>1. \A e \in Event : CapAt(count[e] + 1, RetryCap) \in 0 .. RetryCap
                       /\ count[e] <= CapAt(count[e] + 1, RetryCap)
  BY CapBound
<1>. QED
  BY <1>1, CapNat DEF Raised

LEMMA FailShape ==
  ASSUME Shape, NEW w, NEW label, MarkAsFailed(w, label),
         failures' \in {failures, Raised(failures, w)},
         unlogged' \in {unlogged, Raised(unlogged, w)}
  PROVE  /\ failures' \in [Event -> 0 .. RetryCap]
         /\ unlogged' \in [Event -> 0 .. RetryCap]
         /\ DOMAIN pc' = Worker
         /\ DOMAIN todo' = Worker
         /\ \A e \in Event : /\ failures[e] <= failures'[e]
                              /\ unlogged[e] <= unlogged'[e]
<1>1. \A e \in Event : /\ failures[e] \in 0 .. RetryCap /\ failures[e] <= failures[e]
                       /\ unlogged[e] \in 0 .. RetryCap /\ unlogged[e] <= unlogged[e]
  BY CapNat DEF Shape
<1>2. /\ failures' \in [Event -> 0 .. RetryCap]
      /\ \A e \in Event : failures[e] <= failures'[e]
  <2>1. CASE failures' = failures
    BY <1>1, <2>1 DEF Shape
  <2>2. CASE failures' = Raised(failures, w)
    <3>1. failures \in [Event -> 0 .. RetryCap]
      BY DEF Shape
    <3>. HIDE DEF Shape
    <3>. QED
      BY <2>2, <3>1, RaisedShape
  <2>. QED
    BY <2>1, <2>2
<1>3. /\ unlogged' \in [Event -> 0 .. RetryCap]
      /\ \A e \in Event : unlogged[e] <= unlogged'[e]
  <2>1. CASE unlogged' = unlogged
    BY <1>1, <2>1 DEF Shape
  <2>2. CASE unlogged' = Raised(unlogged, w)
    <3>1. unlogged \in [Event -> 0 .. RetryCap]
      BY DEF Shape
    <3>. HIDE DEF Shape
    <3>. QED
      BY <2>2, <3>1, RaisedShape
  <2>. QED
    BY <2>1, <2>2
<1>. QED
  BY <1>2, <1>3 DEF Shape, MarkAsFailed, Goto

-----------------------------------------------------------------------------
\* The shape is preserved by every step.
LEMMA ShapeStep == Shape /\ [Next]_vars => Shape'
<1> SUFFICES ASSUME Shape, [Next]_vars
             PROVE  Shape'
  OBVIOUS
<1>1. ASSUME NEW e \in Event, Push(e) PROVE Shape'
  <2>1. retry' \in [Event -> 0 .. RetryCap]
    BY <1>1, PutShape, CapNat DEF Push
  <2>. QED
    BY <1>1, <2>1 DEF Push, Shape, workerVars, history
<1>2. ASSUME NEW w \in Worker, Start(w) \/ FetchNone(w) PROVE Shape'
  BY <1>2 DEF Start, FetchNone, Goto, Shape, storeVars, history
<1>3. ASSUME NEW w \in Worker, Fetch(w) PROVE Shape'
  <2>. PICK batch \in Batches(stored) : Take(w, batch)
    BY <1>3 DEF Fetch
  <2>. DEFINE counts == [e \in Event |->
                           IF e \in Range(batch) THEN retry[e] ELSE 0]
  <2>1. counts \in [Event -> 0 .. RetryCap]
    BY CapNat DEF Shape
  <2>2. snap' = [snap EXCEPT ![w] = counts]
    BY DEF Take
  <2>. HIDE DEF counts
  <2>3. snap' \in [Worker -> [Event -> 0 .. RetryCap]]
    BY <2>1, <2>2 DEF Shape
  <2>. QED
    BY <2>3 DEF Take, Goto, Shape, storeVars, history
<1>4. ASSUME NEW w \in Worker, Resolve(w) \/ ResolveFails(w) PROVE Shape'
  BY <1>4 DEF Resolve, ResolveFails, Resolved, Goto, Shape, storeVars, history
<1>5. ASSUME NEW w \in Worker, NEW d \in Directory, Drop(w, d) \/ SendOk(w, d)
      PROVE  Shape'
  BY <1>5 DEF Drop, SendOk, Goto, Shape, storeVars
<1>6. ASSUME NEW w \in Worker, NEW d \in Directory,
             SendOther(w, d) \/ SendError(w, d)
      PROVE  Shape'
  <2>1. CASE Fail(w, "fail") \/ Fail(w, "throw")
    BY <1>6, <2>1, FailShape DEF SendOther, SendError, Fail, Shape, storeVars
  <2>2. CASE UNCHANGED <<todo, failures, pc>>
    BY <1>6, <2>2 DEF SendOther, SendError, Shape, storeVars
  <2>. QED
    BY <1>6, <2>1, <2>2 DEF SendOther, SendError
<1>7. ASSUME NEW w \in Worker, NEW e \in Event, Land(w, e) \/ LandFails(w, e) PROVE Shape'
  <2>1. snap[w][e] \in 0 .. RetryCap
        /\ CapAt(snap[w][e] + 1, RetryCap) \in 0 .. RetryCap
    BY CapBound DEF Shape
  <2>2. retry' \in [Event -> 0 .. RetryCap]
    BY <1>7, <2>1, PutShape, DeleteShape
       DEF Land, LandFails, MarkLands, DeleteLands, FailLands, Shape, storeVars
  <2>3. DOMAIN todo' = Worker
    BY <1>7 DEF Land, LandFails, MarkLands, DeleteLands, FailLands, Landed, Shape
  <2>. QED
    BY <1>7, <2>2, <2>3
       DEF Land, LandFails, MarkLands, DeleteLands, FailLands, Shape, history
<1>8. ASSUME NEW w \in Worker,
             GroupDone(w) \/ Thrown(w) \/ BatchDone(w)
      PROVE  Shape'
  <2>1. [e \in Event |-> 0] \in [Event -> 0 .. RetryCap]
    BY CapNat
  <2>2. snap' \in [Worker -> [Event -> 0 .. RetryCap]]
    BY <1>8, <2>1 DEF GroupDone, Thrown, BatchDone, Forget, Shape
  <2>. QED
    BY <1>8, <2>2 DEF GroupDone, Thrown, BatchDone, Forget, Goto, Shape,
                      storeVars, history
<1>9. ASSUME NEW w \in Worker, LogThrows(w) PROVE Shape'
  BY <1>9, FailShape DEF LogThrows, Shape, storeVars
<1>10. ASSUME NEW d \in Directory, DirectoryChanges(d) PROVE Shape'
  BY <1>10 DEF DirectoryChanges, Shape, storeVars, workerVars, history
<1>11. CASE LockLost
  BY <1>11 DEF LockLost, Shape, storeVars, workerVars, history
<1>12. ASSUME NEW i \in Instance, Crash(i) PROVE Shape'
  <2>1. [e \in Event |-> 0] \in [Event -> 0 .. RetryCap]
    BY CapNat
  <2>2. snap' \in [Worker -> [Event -> 0 .. RetryCap]]
    BY <1>12, <2>1 DEF Crash, Shape
  <2>. QED
    BY <1>12, <2>2 DEF Crash, Shape, storeVars, history
<1>13. CASE UNCHANGED vars
  BY <1>13 DEF vars, Shape, storeVars, workerVars, history
<1>. QED
  BY <1>1, <1>2, <1>3, <1>4, <1>5, <1>6, <1>7, <1>8, <1>9, <1>10, <1>11,
     <1>12, <1>13 DEF Next, Served, StoreFails, WorkerStep, Deliver

LEMMA ShapeInit == Init => Shape
<1>1. [e \in Event |-> 0] \in [Event -> 0 .. RetryCap]
  BY CapNat
<1>. QED
  BY <1>1 DEF Init, Shape

-----------------------------------------------------------------------------
(***************************************************************************)
(* Events leave the store only through deletes, and a delete is asked for  *)
(* only after the webhook's answer or the verdict on the directory.        *)
(***************************************************************************)
LEMMA JustifiedStep ==
  ASSUME Shape, DeletesJustified, [Next]_vars
  PROVE  DeletesJustified'
<1>1. ASSUME NEW e \in Event, Push(e) PROVE DeletesJustified'
  BY <1>1 DEF Push, DeletesJustified, workerVars, history
<1>2. ASSUME NEW w \in Worker, Start(w) \/ FetchNone(w) \/ Fetch(w) \/ Resolve(w) \/ ResolveFails(w)
      PROVE  DeletesJustified'
  BY <1>2 DEF Start, FetchNone, Fetch, Take, Resolve, ResolveFails, Resolved, Goto,
              Shape, DeletesJustified, history
<1>3. ASSUME NEW w \in Worker, NEW d \in Directory, Drop(w, d)
      PROVE  DeletesJustified'
  BY <1>3 DEF Drop, Goto, Shape, DeletesJustified
<1>4. ASSUME NEW w \in Worker, NEW d \in Directory, SendOk(w, d)
      PROVE  DeletesJustified'
  BY <1>4 DEF SendOk, Goto, Shape, DeletesJustified
<1>5. ASSUME NEW w \in Worker, MarkAsFailed(w, "fail") \/ MarkAsFailed(w, "throw"),
             UNCHANGED <<acked, dropped>>
      PROVE  DeletesJustified'
  BY <1>5 DEF MarkAsFailed, Goto, Shape, DeletesJustified
<1>6. ASSUME NEW w \in Worker, NEW d \in Directory,
             SendOther(w, d) \/ SendError(w, d)
      PROVE  DeletesJustified'
  <2>1. CASE Fail(w, "fail") \/ Fail(w, "throw")
    BY <1>5, <1>6, <2>1 DEF SendOther, SendError, Fail
  <2>2. CASE UNCHANGED <<todo, failures, pc>>
    BY <1>6, <2>2 DEF SendOther, SendError, DeletesJustified
  <2>. QED
    BY <1>6, <2>1, <2>2 DEF SendOther, SendError
<1>7. ASSUME NEW w \in Worker, NEW e \in Event, Land(w, e) \/ LandFails(w, e)
      PROVE  DeletesJustified'
  <2>1. UNCHANGED <<pc, acked, dropped>> /\ todo' = [todo EXCEPT ![w] = @ \ {e}]
    BY <1>7 DEF Land, LandFails, MarkLands, DeleteLands, FailLands, Landed, history
  <2>. QED
    BY <2>1 DEF Shape, DeletesJustified
<1>8. ASSUME NEW w \in Worker, GroupDone(w) \/ Thrown(w) \/ BatchDone(w)
      PROVE  DeletesJustified'
  BY <1>8 DEF GroupDone, Thrown, BatchDone, Goto, Shape, DeletesJustified,
              history
<1>9. ASSUME NEW w \in Worker, LogThrows(w) PROVE DeletesJustified'
  BY <1>5, <1>9 DEF LogThrows
<1>10. ASSUME (\E d \in Directory : DirectoryChanges(d)) \/ LockLost
       PROVE  DeletesJustified'
  BY <1>10 DEF DirectoryChanges, LockLost, DeletesJustified, workerVars, history
<1>11. ASSUME NEW i \in Instance, Crash(i) PROVE DeletesJustified'
  BY <1>11 DEF Crash, DeletesJustified, history
<1>12. CASE UNCHANGED vars
  BY <1>12 DEF vars, DeletesJustified, workerVars, history
<1>. QED
  BY <1>1, <1>2, <1>3, <1>4, <1>6, <1>7, <1>8, <1>9, <1>10, <1>11, <1>12
     DEF Next, Served, StoreFails, WorkerStep, Deliver

\* A step that keeps the store and forgets no verdict loses nothing.
LEMMA StoreKept ==
  ASSUME NothingVanishes, pushed' = pushed, stored \subseteq stored',
         acked \subseteq acked', dropped \subseteq dropped'
  PROVE  NothingVanishes'
BY DEF NothingVanishes

LEMMA VanishStep ==
  ASSUME VanishInv, [Next]_vars
  PROVE  NothingVanishes'
<1>. USE DEF VanishInv
<1>1. ASSUME NEW e \in Event, Push(e) PROVE NothingVanishes'
  <2>1. Range(pushed') = Range(pushed) \cup {e}
    BY <1>1, RangeAppend DEF Push, Shape
  <2>. QED
    BY <1>1, <2>1 DEF Push, PutEvent, NothingVanishes, history
<1>2. ASSUME NEW w \in Worker,
             \/ Start(w) \/ FetchNone(w) \/ Fetch(w) \/ Resolve(w) \/ ResolveFails(w)
             \/ GroupDone(w) \/ LogThrows(w) \/ Thrown(w) \/ BatchDone(w)
      PROVE  NothingVanishes'
  BY <1>2, StoreKept DEF Start, FetchNone, Fetch, Take, Resolve, ResolveFails, Resolved, GroupDone,
     LogThrows, Thrown, BatchDone, storeVars, history
<1>3. ASSUME NEW w \in Worker, NEW d \in Directory, Deliver(w, d)
      PROVE  NothingVanishes'
  BY <1>3, StoreKept DEF Deliver, Drop, SendOk, SendOther, SendError, storeVars
<1>4. ASSUME NEW w \in Worker, NEW e \in Event, Land(w, e) \/ LandFails(w, e)
      PROVE  NothingVanishes'
  <2>1. CASE DeleteLands(w, e) /\ DeleteEvent(e)
    <3>1. e \in acked \cup dropped
      BY <2>1 DEF DeleteLands, Landed, DeletesJustified
    <3>. QED
      BY <2>1, <3>1 DEF DeleteLands, DeleteEvent, NothingVanishes, history
  <2>2. CASE stored \subseteq stored'
    BY <1>4, <2>2, StoreKept DEF Land, LandFails, MarkLands, DeleteLands, FailLands, history
  <2>. QED
    BY <1>4, <2>1, <2>2
       DEF Land, LandFails, MarkLands, DeleteLands, FailLands, PutEvent, storeVars
<1>5. ASSUME \/ \E d \in Directory : DirectoryChanges(d)
             \/ LockLost
             \/ \E i \in Instance : Crash(i)
             \/ UNCHANGED vars
      PROVE  NothingVanishes'
  BY <1>5, StoreKept
     DEF DirectoryChanges, LockLost, Crash, vars, storeVars, history
<1>. QED
  BY <1>1, <1>2, <1>3, <1>4, <1>5 DEF Next, Served, StoreFails, WorkerStep

(***************************************************************************)
(* No event vanishes, whatever requests fail, processes crash and workers  *)
(* run side by side: what left the store was answered with 200 or given up *)
(* because of its directory (queue.ts:127-156).                            *)
(***************************************************************************)
THEOREM NothingIsLost == Spec => []NothingVanishes
<1>1. Init => VanishInv
  BY ShapeInit DEF Init, VanishInv, DeletesJustified, NothingVanishes, Range
<1>2. VanishInv /\ [Next]_vars => VanishInv'
  BY ShapeStep, JustifiedStep, VanishStep DEF VanishInv
<1>3. VanishInv => NothingVanishes
  BY DEF VanishInv
<1>. QED
  BY <1>1, <1>2, <1>3, PTL DEF Spec

-----------------------------------------------------------------------------
(***************************************************************************)
(* A count is written only from a count that was accounted for when it was *)
(* read, and what it is compared with never goes down.                     *)
(***************************************************************************)
\* A step that touches neither counts nor the workers' errands is harmless.
LEMMA CountsKept ==
  ASSUME CountInv, UNCHANGED <<retry, failures, unlogged>>,
         \A w \in Worker, e \in Event :
           /\ snap'[w][e] <= failures[e] + unlogged[e]
           /\ pc'[w] \in {"fail", "throw"} /\ e \in todo'[w] =>
                /\ pc[w] \in {"fail", "throw"} /\ e \in todo[w]
                /\ snap'[w] = snap[w]
  PROVE  CountsHonest' /\ RetryCountHonest'
BY DEF CountInv, CountsHonest, RetryCountHonest

\* Marking a group as failed pays for the count that is going to be written:
\* with a failed delivery or with a log that failed.
LEMMA FailCounts ==
  ASSUME CountInv, NEW w \in Worker, NEW label, MarkAsFailed(w, label),
         \/ failures' = Raised(failures, w) /\ unlogged' = unlogged
         \/ unlogged' = Raised(unlogged, w) /\ failures' = failures,
         UNCHANGED <<retry, snap>>
  PROVE  CountsHonest' /\ RetryCountHonest'
<1>. USE DEF CountInv
<1>. DEFINE Sum(e) == failures[e] + unlogged[e]
            NewSum(e) == failures'[e] + unlogged'[e]
<1>1. \A e \in Event :
        /\ retry[e] \in 0 .. RetryCap
        /\ failures[e] \in 0 .. RetryCap /\ unlogged[e] \in 0 .. RetryCap
        /\ failures'[e] \in 0 .. RetryCap /\ unlogged'[e] \in 0 .. RetryCap
        /\ failures[e] <= failures'[e] /\ unlogged[e] <= unlogged'[e]
  BY FailShape DEF Shape
<1>2. \A e \in Event : Sum(e) \in Nat /\ NewSum(e) \in Nat /\ Sum(e) <= NewSum(e)
  BY <1>1, CapNat
<1>3. RetryCountHonest'
  BY <1>1, <1>2, CapNat DEF RetryCountHonest
<1>4. ASSUME NEW v \in Worker, NEW e \in Event
      PROVE  /\ snap'[v][e] <= NewSum(e)
             /\ pc'[v] \in {"fail", "throw"} /\ e \in todo'[v]
                  => CapAt(snap'[v][e] + 1, RetryCap) <= NewSum(e)
  <2>1. snap[v][e] \in 0 .. RetryCap /\ snap'[v][e] = snap[v][e] /\ snap[v][e] <= Sum(e)
    BY DEF Shape, CountsHonest
  <2>2. CapAt(snap[v][e] + 1, RetryCap) \in 0 .. RetryCap
    BY <2>1, CapBound
  <2>3. snap'[v][e] <= NewSum(e)
    BY <1>2, <2>1, CapNat
  <2>4. ASSUME pc'[v] \in {"fail", "throw"}, e \in todo'[v]
        PROVE  CapAt(snap[v][e] + 1, RetryCap) <= NewSum(e)
    <3>1. CASE v = w
      <4>1. e \in Group(w)
        BY <2>4, <3>1 DEF MarkAsFailed, Shape
      <4>2. \/ failures'[e] = CapAt(failures[e] + 1, RetryCap) /\ unlogged'[e] = unlogged[e]
            \/ unlogged'[e] = CapAt(unlogged[e] + 1, RetryCap) /\ failures'[e] = failures[e]
        BY <4>1, RaisedShape DEF Shape
      <4>. QED
        BY <1>1, <2>1, <4>2, CapNat DEF CapAt
    <3>2. CASE v # w
      <4>1. pc[v] \in {"fail", "throw"} /\ e \in todo[v]
        BY <2>4, <3>2 DEF MarkAsFailed, Goto, Shape
      <4>2. CapAt(snap[v][e] + 1, RetryCap) <= Sum(e)
        BY <4>1 DEF CountsHonest
      <4>. QED
        BY <1>2, <2>2, <4>2, CapNat
    <3>. QED
      BY <3>1, <3>2
  <2>. QED
    BY <2>1, <2>3, <2>4
<1>. QED
  BY <1>3, <1>4 DEF CountsHonest

LEMMA CountStep ==
  ASSUME CountInv, [Next]_vars
  PROVE  CountsHonest' /\ RetryCountHonest'
<1>. DEFINE Goal == CountsHonest' /\ RetryCountHonest'
<1>0. /\ 0 \in 0 .. RetryCap
      /\ \A e \in Event : 0 <= failures[e] + unlogged[e]
      /\ \A w \in Worker, e \in Event : snap[w][e] <= failures[e] + unlogged[e]
  BY CapNat DEF CountInv, CountsHonest, Shape
<1>1. ASSUME NEW e \in Event, Push(e) PROVE Goal
  <2>1. retry' = [retry EXCEPT ![e] = 0] /\ UNCHANGED <<failures, unlogged, snap, pc, todo>>
    BY <1>1 DEF Push, PutEvent, workerVars, history
  <2>. QED
    BY <1>0, <2>1 DEF CountInv, CountsHonest, RetryCountHonest, Shape
<1>2. ASSUME NEW w \in Worker,
             Start(w) \/ FetchNone(w) \/ Resolve(w) \/ ResolveFails(w) \/ GroupDone(w)
      PROVE  Goal
  <2>1. UNCHANGED <<retry, failures, unlogged, snap>>
    BY <1>2 DEF Start, FetchNone, Resolve, ResolveFails, Resolved, GroupDone, storeVars, history
  <2>2. pc' = [pc EXCEPT ![w] = pc'[w]] /\ pc'[w] \notin {"fail", "throw"}
    BY <1>2 DEF Start, FetchNone, Resolve, ResolveFails, Resolved, GroupDone, Goto, CountInv, Shape
  <2>3. todo' = todo
    BY <1>2 DEF Start, FetchNone, Resolve, ResolveFails, Resolved, GroupDone
  <2>. QED
    BY <1>0, <2>1, <2>2, <2>3, CountsKept DEF CountInv, Shape
<1>3. ASSUME NEW w \in Worker, Fetch(w) PROVE Goal
  <2>. PICK batch \in Batches(stored) : Take(w, batch)
    BY <1>3 DEF Fetch
  <2>. DEFINE counts == [e \in Event |->
                           IF e \in Range(batch) THEN retry[e] ELSE 0]
  <2>1. \A e \in Event : counts[e] <= failures[e] + unlogged[e]
    BY <1>0 DEF CountInv, RetryCountHonest
  <2>2. snap' = [snap EXCEPT ![w] = counts]
    BY DEF Take
  <2>. HIDE DEF counts
  <2>3. /\ UNCHANGED <<retry, failures, unlogged>>
        /\ pc' = [pc EXCEPT ![w] = "mark"]
        /\ \A v \in Worker \ {w} : todo'[v] = todo[v]
    BY DEF Take, Goto, storeVars, history, CountInv, Shape
  <2>4. \A v \in Worker, e \in Event : snap'[v][e] <= failures[e] + unlogged[e]
    BY <1>0, <2>1, <2>2 DEF CountInv, Shape
  <2>5. \A v \in Worker : pc'[v] \in {"fail", "throw"} =>
          pc[v] \in {"fail", "throw"} /\ todo'[v] = todo[v] /\ snap'[v] = snap[v]
    BY <2>2, <2>3 DEF CountInv, Shape
  <2>. QED
    BY <2>3, <2>4, <2>5, CountsKept
<1>4. ASSUME NEW w \in Worker, NEW d \in Directory, Drop(w, d) \/ SendOk(w, d)
      PROVE  Goal
  <2>1. UNCHANGED <<retry, failures, unlogged, snap>>
    BY <1>4 DEF Drop, SendOk, storeVars
  <2>2. \A v \in Worker : pc'[v] \in {"fail", "throw"} =>
          pc[v] \in {"fail", "throw"} /\ todo'[v] = todo[v]
    BY <1>4 DEF Drop, SendOk, Goto, CountInv, Shape
  <2>. QED
    BY <1>0, <2>1, <2>2, CountsKept
<1>5. ASSUME NEW w \in Worker, NEW d \in Directory,
             SendOther(w, d) \/ SendError(w, d)
      PROVE  Goal
  <2>1. UNCHANGED <<retry, snap>>
    BY <1>5 DEF SendOther, SendError, storeVars
  <2>2. CASE Fail(w, "fail") \/ Fail(w, "throw")
    BY <1>5, <2>1, <2>2, FailCounts DEF SendOther, SendError, Fail
  <2>3. CASE UNCHANGED <<todo, failures, pc>>
    BY <1>0, <1>5, <2>1, <2>3, CountsKept DEF SendOther, SendError
  <2>. QED
    BY <1>5, <2>2, <2>3 DEF SendOther, SendError
<1>6. ASSUME NEW w \in Worker, NEW e \in Event, Land(w, e) \/ LandFails(w, e) PROVE Goal
  <2>1. /\ UNCHANGED <<failures, unlogged, snap, pc>>
        /\ e \in todo[w]
        /\ \A v \in Worker : todo'[v] \subseteq todo[v]
    BY <1>6 DEF Land, LandFails, MarkLands, DeleteLands, FailLands, Landed, history,
                CountInv, Shape
  <2>2. CountsHonest'
    BY <2>1 DEF CountInv, CountsHonest
  <2>3. \/ retry' = retry
        \/ \E n : n <= failures[e] + unlogged[e] /\ retry' = [retry EXCEPT ![e] = n]
    BY <1>0, <1>6, <2>1 DEF Land, LandFails, MarkLands, DeleteLands, FailLands, PutEvent,
       DeleteEvent, storeVars, CountInv, CountsHonest
  <2>4. RetryCountHonest'
    BY <2>1, <2>3 DEF CountInv, RetryCountHonest, Shape
  <2>. QED
    BY <2>2, <2>4
<1>7. ASSUME NEW w \in Worker, LogThrows(w) PROVE Goal
  BY <1>7, FailCounts DEF LogThrows, storeVars
<1>8. ASSUME NEW w \in Worker, Thrown(w) \/ BatchDone(w) PROVE Goal
  <2>1. UNCHANGED <<retry, failures, unlogged, todo>>
    BY <1>8 DEF Thrown, BatchDone, storeVars, history
  <2>2. snap' = [snap EXCEPT ![w] = [e \in Event |-> 0]]
    BY <1>8 DEF Thrown, BatchDone, Forget
  <2>3. \A v \in Worker : pc'[v] \in {"fail", "throw"} =>
          v # w /\ pc[v] \in {"fail", "throw"}
    BY <1>8 DEF Thrown, BatchDone, Goto, CountInv, Shape
  <2>4. \A v \in Worker, e \in Event : snap'[v][e] <= failures[e] + unlogged[e]
    BY <1>0, <2>2 DEF CountInv, Shape
  <2>. QED
    BY <2>1, <2>2, <2>3, <2>4, CountsKept DEF CountInv, Shape
<1>9. ASSUME (\E d \in Directory : DirectoryChanges(d)) \/ LockLost
             \/ UNCHANGED vars
      PROVE  Goal
  <2>1. UNCHANGED <<retry, failures, unlogged, snap, pc, todo>>
    BY <1>9 DEF DirectoryChanges, LockLost, vars, storeVars, workerVars, history
  <2>. QED
    BY <1>0, <2>1, CountsKept
<1>10. ASSUME NEW i \in Instance, Crash(i) PROVE Goal
  <2>1. UNCHANGED <<retry, failures, unlogged>>
    BY <1>10 DEF Crash, storeVars, history
  <2>2. \A v \in Worker, e \in Event : snap'[v][e] <= failures[e] + unlogged[e]
    BY <1>0, <1>10 DEF Crash
  <2>3. \A v \in Worker : pc'[v] \in {"fail", "throw"} =>
          pc'[v] = pc[v] /\ todo'[v] = todo[v] /\ snap'[v] = snap[v]
    BY <1>10 DEF Crash
  <2>. QED
    BY <2>1, <2>2, <2>3, CountsKept
<1>. QED
  BY <1>1, <1>2, <1>3, <1>4, <1>5, <1>6, <1>7, <1>8, <1>9, <1>10
     DEF Next, Served, StoreFails, WorkerStep, Deliver

(***************************************************************************)
(* The stored retry count of an event never exceeds its failed deliveries  *)
(* and the calls that could not be logged, though workers write counts     *)
(* they read long before (queue.ts:157-164, 209, 243-250).                 *)
(***************************************************************************)
THEOREM CountsAreHonest == Spec => []RetryCountHonest
<1>1. Init => CountInv
  <2>1. ASSUME Init PROVE CountsHonest /\ RetryCountHonest
    BY <2>1 DEF Init, CountsHonest, RetryCountHonest
  <2>. QED
    BY <2>1, ShapeInit DEF CountInv
<1>2. CountInv /\ [Next]_vars => CountInv'
  BY ShapeStep, CountStep DEF CountInv
<1>3. CountInv => RetryCountHonest
  BY DEF CountInv
<1>. QED
  BY <1>1, <1>2, <1>3, PTL DEF Spec
-----------------------------------------------------------------------------
(***************************************************************************)
(* The order of deliveries.  An event that is neither received nor given   *)
(* up never left the store (NothingVanishes), so its record has the stamp  *)
(* it was pushed with; a batch takes records with lower stamps first, and  *)
(* it is handled by whole directories.                                     *)
(***************************************************************************)
\* What is known of the events in the hands of the store and the workers.
Known ==
  /\ stamp \in [Event -> Stamp] /\ born \in [Event -> Stamp]
  /\ \A e \in Event \ stored : born[e] = 0
  /\ stored \subseteq Range(pushed) /\ received \subseteq Range(pushed)
  /\ acked \subseteq received /\ dropped \subseteq Range(pushed)
  /\ DOMAIN left = Worker
  /\ \A w \in Worker : /\ todo[w] \subseteq Range(pushed)
                       /\ Range(left[w]) \subseteq Range(pushed)

Settled(e) == e \in received \cup dropped

StampsKept == \A e \in Range(pushed) : ~Settled(e) => born[e] = stamp[e]

\* Events m and n are of one directory, and every order puts m first.
Before(m, n) == /\ m < n /\ stamp[pushed[m]] < stamp[pushed[n]]
                /\ DirOf[pushed[m]] = DirOf[pushed[n]]

SettledInOrder ==
  \A m, n \in DOMAIN pushed :
    Before(m, n) /\ Settled(pushed[n]) => Settled(pushed[m])

\* A batch with an event has the earlier ones of its directory too.
BatchesWhole ==
  \A w \in Worker : \A m, n \in DOMAIN pushed :
    /\ Before(m, n) /\ ~Settled(pushed[m]) /\ ~Settled(pushed[n])
    /\ pushed[n] \in Range(left[w])
    => pushed[m] \in Range(left[w])

OrderInv == VanishInv /\ Known /\ StampsKept /\ SettledInOrder /\ BatchesWhole

\* What a step does to the store is a put, a delete or nothing.
LEMMA PutKeepsStamps ==
  ASSUME OrderInv, NEW e \in Range(pushed), NEW n, PutEvent(e, n),
         UNCHANGED <<pushed, stamp, received, dropped>>
  PROVE  /\ born' \in [Event -> Stamp] /\ \A x \in Event \ stored' : born'[x] = 0
         /\ stored' \subseteq Range(pushed)
         /\ StampsKept'
<1>. USE DEF OrderInv
<1>1. CASE e \in stored
  BY <1>1 DEF PutEvent, Known, StampsKept, Settled
<1>2. CASE e \notin stored
  <2>1. PICK k \in Stamp : born' = [born EXCEPT ![e] = k]
    BY <1>2 DEF PutEvent
  <2>2. stored' = stored \cup {e}
    BY DEF PutEvent
  <2>3. Settled(e)
    BY <1>2 DEF VanishInv, NothingVanishes, Known, Settled
  <2>4. Range(pushed) \subseteq Event
    BY DEF VanishInv, Shape, Range
  <2>5. \A x \in Event \ stored' : born'[x] = 0
    BY <2>1, <2>2 DEF Known
  <2>6. StampsKept'
    BY <2>1, <2>3, <2>4 DEF Known, StampsKept, Settled
  <2>. QED
    BY <2>1, <2>2, <2>5, <2>6 DEF Known
<1>. QED
  BY <1>1, <1>2

LEMMA DeleteKeepsStamps ==
  ASSUME OrderInv, NEW e, Settled(e), DeleteEvent(e),
         UNCHANGED <<pushed, stamp, received, dropped>>
  PROVE  /\ born' \in [Event -> Stamp] /\ \A x \in Event \ stored' : born'[x] = 0
         /\ stored' \subseteq Range(pushed)
         /\ StampsKept'
<1>1. stored' = stored \ {e} /\ born' = [born EXCEPT ![e] = 0]
  BY DEF DeleteEvent
<1>2. 0 \in Stamp
  BY QueueAssumption
<1>3. Range(pushed) \subseteq Event
  BY DEF OrderInv, VanishInv, Shape, Range
<1>4. \A x \in Event \ stored' : born'[x] = 0
  BY <1>1 DEF OrderInv, Known
<1>5. StampsKept'
  BY <1>1, <1>3 DEF OrderInv, Known, StampsKept, Settled
<1>. QED
  BY <1>1, <1>2, <1>4, <1>5 DEF OrderInv, Known

\* A step after which more is settled and batches are what they were, or
\* the rest of it, or nothing.
LEMMA BatchesKept ==
  ASSUME OrderInv, UNCHANGED <<pushed, stamp>>,
         received \subseteq received', dropped \subseteq dropped',
         DOMAIN left' = Worker,
         \A w \in Worker : left'[w] \in {left[w], Others(w), <<>>}
  PROVE  /\ BatchesWhole'
         /\ \A w \in Worker : Range(left'[w]) \subseteq Range(left[w])
<1>1. Range(<<>>) = {}
  BY DEF Range
<1>2. \A w \in Worker :
        Range(Others(w)) = {e \in Range(left[w]) : DirOf[e] # DirOf[First(w)]}
  BY DEF Others, Restrict, Range
<1>3. ASSUME NEW w \in Worker, NEW m \in DOMAIN pushed, NEW n \in DOMAIN pushed,
             Before(m, n), ~Settled(pushed[m])', ~Settled(pushed[n])',
             pushed[n] \in Range(left'[w])
      PROVE  pushed[m] \in Range(left'[w])
  <2>1. ~Settled(pushed[m]) /\ ~Settled(pushed[n])
    BY <1>3 DEF Settled
  <2>2. pushed[n] \in Range(left[w]) => pushed[m] \in Range(left[w])
    BY <1>3, <2>1 DEF OrderInv, BatchesWhole
  <2>3. DirOf[pushed[m]] = DirOf[pushed[n]]
    BY <1>3 DEF Before
  <2>. QED
    BY <1>1, <1>2, <1>3, <2>2, <2>3
<1>4. BatchesWhole'
  BY <1>3 DEF BatchesWhole, Settled, Before
<1>. QED
  BY <1>1, <1>2, <1>4

\* A step that settles, if anything, the group whose turn it is.
LEMMA GroupInOrder ==
  ASSUME OrderInv, NEW w \in Worker, UNCHANGED <<pushed, stamp>>,
         received \subseteq received', dropped \subseteq dropped',
         \/ received' \cup dropped' = received \cup dropped
         \/ received' \cup dropped' = received \cup dropped \cup Group(w)
  PROVE  SettledInOrder'
<1>. SUFFICES ASSUME NEW m \in DOMAIN pushed, NEW n \in DOMAIN pushed, Before(m, n),
                     Settled(pushed[n])', ~Settled(pushed[m])
              PROVE  Settled(pushed[m])'
  BY DEF SettledInOrder, Settled, Before
<1>1. ~Settled(pushed[n])
  BY DEF OrderInv, SettledInOrder
<1>2. /\ received' \cup dropped' = received \cup dropped \cup Group(w)
      /\ pushed[n] \in Group(w)
  BY <1>1 DEF Settled
<1>3. pushed[m] \in Range(left[w])
  BY <1>1, <1>2 DEF OrderInv, BatchesWhole, Group
<1>. QED
  BY <1>2, <1>3 DEF Group, Settled, Before

\* The store and what the workers hold are left alone, but for batches that
\* shrink and requests for events of the batch.
LEMMA QuietStep ==
  ASSUME OrderInv, UNCHANGED <<pushed, stamp, stored, born, received, acked>>,
         dropped' = dropped, DOMAIN left' = Worker,
         \A w \in Worker : /\ left'[w] \in {left[w], Others(w), <<>>}
                           /\ todo'[w] \subseteq todo[w] \cup Range(left[w])
  PROVE  Known' /\ StampsKept' /\ SettledInOrder' /\ BatchesWhole'
<1>. USE DEF OrderInv
<1>1. StampsKept' /\ SettledInOrder'
  BY DEF StampsKept, SettledInOrder, Settled, Before
<1>2. Known'
  BY BatchesKept DEF Known
<1>. QED
  BY <1>1, <1>2, BatchesKept

LEMMA OrderPush ==
  ASSUME OrderInv, NEW e \in Event, Push(e)
  PROVE  Known' /\ StampsKept' /\ SettledInOrder' /\ BatchesWhole'
<1>. USE DEF OrderInv
<1>1. /\ e \in Event \ Range(pushed) /\ pushed' = Append(pushed, e)
      /\ UNCHANGED <<received, acked, dropped, left, todo>>
  BY DEF Push, workerVars, history
<1>2. e \notin stored /\ e \notin received
  BY <1>1 DEF Known
<1>3. PICK k \in Stamp : born' = [born EXCEPT ![e] = k]
  BY <1>2 DEF Push, PutEvent
<1>4. stored' = stored \cup {e} /\ stamp' = [stamp EXCEPT ![e] = born'[e]]
  BY DEF Push, PutEvent
<1>5. stamp' = [stamp EXCEPT ![e] = k]
  BY <1>3, <1>4 DEF Known
<1>6. /\ DOMAIN pushed' = DOMAIN pushed \cup {Len(pushed) + 1}
      /\ DOMAIN pushed = 1 .. Len(pushed) /\ Len(pushed) \in Nat
      /\ pushed'[Len(pushed) + 1] = e
      /\ \A i \in DOMAIN pushed : pushed'[i] = pushed[i] /\ pushed[i] # e
      /\ Range(pushed') = Range(pushed) \cup {e} /\ Range(pushed) \subseteq Event
  <2>1. pushed \in Seq(Event)
    BY DEF VanishInv, Shape
  <2>2. Range(pushed') = Range(pushed) \cup {e}
    BY <1>1, <2>1, RangeAppend
  <2>3. \A i \in DOMAIN pushed : pushed[i] # e
    BY <1>1 DEF Range
  <2>4. Range(pushed) \subseteq Event
    BY <2>1 DEF Range
  <2>. QED
    BY <1>1, <2>1, <2>2, <2>3, <2>4
<1>7. Known'
  BY <1>1, <1>3, <1>4, <1>5, <1>6 DEF Known
<1>8. StampsKept'
  BY <1>1, <1>3, <1>5, <1>6 DEF StampsKept, Settled, Known
<1>9. ASSUME NEW m \in DOMAIN pushed', NEW n \in DOMAIN pushed', Before(m, n)'
      PROVE  /\ m \in DOMAIN pushed /\ pushed'[m] = pushed[m]
             /\ \/ n \in DOMAIN pushed /\ pushed'[n] = pushed[n] /\ Before(m, n)
                \/ pushed'[n] = e
  <2>1. m < n
    BY <1>9 DEF Before
  <2>2. m \in DOMAIN pushed
    BY <1>6, <2>1
  <2>3. CASE n \in DOMAIN pushed
    <3>1. pushed[m] \in Event /\ pushed[n] \in Event
      BY <1>6, <2>2, <2>3 DEF Range
    <3>2. stamp'[pushed[m]] = stamp[pushed[m]] /\ stamp'[pushed[n]] = stamp[pushed[n]]
      BY <1>5, <1>6, <2>2, <2>3, <3>1 DEF Known
    <3>. QED
      BY <1>6, <1>9, <2>2, <2>3, <3>2 DEF Before
  <2>. QED
    BY <1>6, <2>2, <2>3
<1>10. e \notin received /\ \A w \in Worker : e \notin Range(left[w])
  BY <1>1 DEF Known
<1>11. e \notin dropped
  BY <1>1 DEF Known
<1>12. SettledInOrder'
  BY <1>1, <1>9, <1>10, <1>11 DEF SettledInOrder, Settled
<1>13. BatchesWhole'
  BY <1>1, <1>9, <1>10 DEF BatchesWhole, Settled
<1>. QED
  BY <1>7, <1>8, <1>12, <1>13

LEMMA OrderFetch ==
  ASSUME OrderInv, NEW w \in Worker, Fetch(w)
  PROVE  Known' /\ StampsKept' /\ SettledInOrder' /\ BatchesWhole'
<1>. USE DEF OrderInv
<1>1. PICK batch \in Batches(stored) : Take(w, batch)
  BY DEF Fetch
<1>2. /\ UNCHANGED <<pushed, stamp, stored, born, received, acked, dropped>>
      /\ left' = [left EXCEPT ![w] = batch]
      /\ todo' = [todo EXCEPT ![w] = Range(batch)]
  BY <1>1 DEF Take, storeVars, history
<1>3. /\ Range(batch) \subseteq stored
      /\ \A i \in DOMAIN batch, e \in stored :
           born[e] < born[batch[i]] => \E j \in DOMAIN batch : batch[j] = e
  BY DEF Batches, Range
<1>4. Known'
  BY <1>2, <1>3 DEF Known, VanishInv, Shape
<1>5. ASSUME NEW m \in DOMAIN pushed, NEW n \in DOMAIN pushed, Before(m, n),
             ~Settled(pushed[m]), ~Settled(pushed[n]), pushed[n] \in Range(batch)
      PROVE  pushed[m] \in Range(batch)
  <2>1. pushed[m] \in Range(pushed) /\ pushed[n] \in Range(pushed)
    BY DEF Range
  <2>2. born[pushed[m]] < born[pushed[n]] /\ pushed[m] \in stored
    BY <1>5, <2>1 DEF StampsKept, Before, VanishInv, NothingVanishes, Known, Settled
  <2>3. PICK i \in DOMAIN batch : batch[i] = pushed[n]
    BY <1>5 DEF Range
  <2>. QED
    BY <1>3, <2>2, <2>3 DEF Range
<1>6. BatchesWhole'
  BY <1>2, <1>5 DEF BatchesWhole, Settled, Known, Before
<1>7. StampsKept' /\ SettledInOrder'
  BY <1>2 DEF StampsKept, SettledInOrder, Settled, Before
<1>. QED
  BY <1>4, <1>6, <1>7

LEMMA OrderLand ==
  ASSUME OrderInv, NEW w \in Worker, NEW e \in Event, Land(w, e) \/ LandFails(w, e)
  PROVE  Known' /\ StampsKept' /\ SettledInOrder' /\ BatchesWhole'
<1>. USE DEF OrderInv
<1>1. /\ UNCHANGED <<pushed, stamp, received, acked, dropped, left>>
      /\ e \in todo[w] /\ todo' = [todo EXCEPT ![w] = todo[w] \ {e}]
  BY DEF Land, LandFails, MarkLands, DeleteLands, FailLands, Landed, history
<1>2. e \in Range(pushed)
  BY <1>1 DEF Known
<1>3. /\ born' \in [Event -> Stamp] /\ \A x \in Event \ stored' : born'[x] = 0
      /\ stored' \subseteq Range(pushed)
      /\ StampsKept'
  <2>1. CASE \E n : PutEvent(e, n)
    BY <1>1, <1>2, <2>1, PutKeepsStamps
  <2>2. CASE DeleteLands(w, e) /\ DeleteEvent(e)
    <3>1. Settled(e)
      BY <1>1, <2>2 DEF DeleteLands, VanishInv, DeletesJustified, Known, Settled
    <3>. QED
      BY <1>1, <2>2, <3>1, DeleteKeepsStamps
  <2>3. CASE UNCHANGED storeVars
    BY <1>1, <2>3 DEF storeVars, Known, StampsKept, Settled
  <2>. QED
    BY <2>1, <2>2, <2>3 DEF Land, LandFails, MarkLands, DeleteLands, FailLands
<1>4. Known'
  BY <1>1, <1>3 DEF Known, VanishInv, Shape
<1>5. BatchesWhole' /\ SettledInOrder'
  BY <1>1 DEF BatchesWhole, SettledInOrder, Settled, Before
<1>. QED
  BY <1>3, <1>4, <1>5

\* Drop gives up, and the sends deliver, the group whose turn it is.
LEMMA OrderDeliver ==
  ASSUME OrderInv, NEW w \in Worker, NEW d \in Directory, Deliver(w, d)
  PROVE  Known' /\ StampsKept' /\ SettledInOrder' /\ BatchesWhole'
<1>. USE DEF OrderInv
<1>1. Group(w) \subseteq Range(left[w]) /\ Group(w) \subseteq Range(pushed)
  BY DEF Group, Known
<1>2. /\ UNCHANGED <<pushed, stamp, stored, born, left>>
      /\ \/ received' = received /\ dropped' \in {dropped, dropped \cup Group(w)}
         \/ received' = received \cup Group(w) /\ dropped' = dropped
      /\ acked' = acked \/ (acked' = acked \cup Group(w)
                            /\ received' = received \cup Group(w))
      /\ todo' = todo \/ todo' = [todo EXCEPT ![w] = Group(w)]
  BY DEF Deliver, Drop, SendOk, SendOther, SendError, Fail, MarkAsFailed, storeVars
<1>3. SettledInOrder'
  BY <1>2, GroupInOrder
<1>4. BatchesWhole'
  BY <1>2, BatchesKept DEF Known
<1>5. StampsKept'
  BY <1>2 DEF StampsKept, Settled
<1>6. \A v \in Worker : todo'[v] \subseteq Range(pushed)
  BY <1>1, <1>2 DEF Known, VanishInv, Shape
<1>7. /\ acked' \subseteq received' /\ received' \subseteq Range(pushed)
      /\ dropped' \subseteq Range(pushed)
  BY <1>1, <1>2 DEF Known
<1>8. Known'
  BY <1>2, <1>6, <1>7 DEF Known
<1>. QED
  BY <1>3, <1>4, <1>5, <1>8

LEMMA OrderStep ==
  ASSUME OrderInv, [Next]_vars
  PROVE  Known' /\ StampsKept' /\ SettledInOrder' /\ BatchesWhole'
<1>. DEFINE Goal == Known' /\ StampsKept' /\ SettledInOrder' /\ BatchesWhole'
            Kept == UNCHANGED <<pushed, stamp, stored, born, received, acked, dropped>>
<1>0. DOMAIN left = Worker /\ DOMAIN todo = Worker
      /\ \A w \in Worker : Group(w) \subseteq Range(left[w])
  BY DEF OrderInv, VanishInv, Shape, Known, Group
<1>1. ASSUME NEW e \in Event, Push(e) PROVE Goal
  BY <1>1, OrderPush
<1>2. ASSUME NEW w \in Worker, Fetch(w) PROVE Goal
  BY <1>2, OrderFetch
<1>3. ASSUME NEW w \in Worker, NEW e \in Event, Land(w, e) \/ LandFails(w, e) PROVE Goal
  BY <1>3, OrderLand
<1>4. ASSUME NEW w \in Worker, NEW d \in Directory, Deliver(w, d) PROVE Goal
  BY <1>4, OrderDeliver
<1>5. ASSUME NEW w \in Worker, Start(w) \/ FetchNone(w) \/ Resolve(w) \/ ResolveFails(w) PROVE Goal
  <2>1. Kept /\ UNCHANGED <<left, todo>>
    BY <1>5 DEF Start, FetchNone, Resolve, ResolveFails, Resolved, storeVars, history
  <2>. QED
    BY <1>0, <2>1, QuietStep
<1>6. ASSUME NEW w \in Worker, GroupDone(w) \/ Thrown(w) \/ BatchDone(w)
      PROVE  Goal
  <2>1. /\ Kept /\ UNCHANGED todo
        /\ left' = [left EXCEPT ![w] = Others(w)] \/ left' = [left EXCEPT ![w] = <<>>]
    BY <1>6 DEF GroupDone, Thrown, BatchDone, Forget, storeVars, history
  <2>2. DOMAIN left' = Worker /\ \A v \in Worker : left'[v] \in {left[v], Others(v), <<>>}
    BY <1>0, <2>1
  <2>. QED
    BY <1>0, <2>1, <2>2, QuietStep
<1>7. ASSUME NEW w \in Worker, LogThrows(w) PROVE Goal
  <2>1. /\ Kept /\ UNCHANGED left
        /\ todo' = [todo EXCEPT ![w] = Group(w)]
    BY <1>7 DEF LogThrows, MarkAsFailed, storeVars
  <2>. QED
    BY <1>0, <2>1, QuietStep
<1>8. ASSUME NEW i \in Instance, Crash(i) PROVE Goal
  <2>1. Kept
    BY <1>8 DEF Crash, storeVars, history
  <2>2. /\ DOMAIN left' = Worker
        /\ \A w \in Worker : /\ left'[w] \in {left[w], Others(w), <<>>}
                             /\ todo'[w] \subseteq todo[w] \cup Range(left[w])
    BY <1>8 DEF Crash
  <2>. QED
    BY <2>1, <2>2, QuietStep
<1>9. ASSUME (\E d \in Directory : DirectoryChanges(d)) \/ LockLost
             \/ UNCHANGED vars
      PROVE  Goal
  <2>1. Kept /\ UNCHANGED <<left, todo>>
    BY <1>9 DEF DirectoryChanges, LockLost, vars, storeVars, workerVars, history
  <2>. QED
    BY <1>0, <2>1, QuietStep
<1>. QED
  BY <1>1, <1>2, <1>3, <1>4, <1>5, <1>6, <1>7, <1>8, <1>9 DEF Next, Served, StoreFails, WorkerStep

LEMMA OrderInit == Init => OrderInv
<1>. SUFFICES ASSUME Init PROVE OrderInv
  OBVIOUS
<1>1. Range(<<>>) = {} /\ DOMAIN <<>> = {} /\ <<>> \in Seq(Event)
  BY DEF Range
<1>2. Known
  BY <1>1, QueueAssumption DEF Init, Known
<1>3. VanishInv
  BY <1>1, ShapeInit DEF Init, VanishInv, DeletesJustified, NothingVanishes
<1>. QED
  BY <1>1, <1>2, <1>3
     DEF Init, OrderInv, StampsKept, SettledInOrder, BatchesWhole

(***************************************************************************)
(* The events of a directory first reach its webhook in the order they     *)
(* were pushed in, as far as the stamps of the store keep that order,      *)
(* whatever is retried, comes back or overlaps: only one that was given up *)
(* can be overtaken (queue.ts:200-222).                                    *)
(***************************************************************************)
THEOREM NeverOvertaken == Spec => []FirstDeliveryInOrder
<1>1. Init => OrderInv
  BY OrderInit
<1>2. OrderInv /\ [Next]_vars => OrderInv'
  BY ShapeStep, JustifiedStep, VanishStep, OrderStep DEF OrderInv, VanishInv
<1>3. OrderInv => FirstDeliveryInOrder
  BY DEF OrderInv, SettledInOrder, Before, Settled, FirstDeliveryInOrder
<1>. QED
  BY <1>1, <1>2, <1>3, PTL DEF Spec
-----------------------------------------------------------------------------
\* The batches a worker may hold, whole or in part.
Batch == UNION {[S -> Event] : S \in SUBSET (1 .. BatchSize)}

\* The part of the type invariant that OrderInv says nothing of; a worker
\* waits for requests only where it has sent some.
Rest ==
  /\ \A e \in Event \ stored : retry[e] = 0
  /\ dir \in [Directory -> DirState]
  /\ lock \in Instance \cup {None}
  /\ alive \in [Instance -> BOOLEAN]
  /\ batchSize \in 1 .. BatchSize
  /\ pc \in [Worker -> {"off", "fetch", "mark", "send", "delete", "drop",
                        "fail", "throw"}]
  /\ left \in [Worker -> Batch]
  /\ view \in [Worker -> [Directory -> DirState \cup {"error"}]]
  /\ todo \in [Worker -> SUBSET Event]
  /\ tries \in [Worker -> 0 .. Retry]
  /\ dropped \subseteq Event
  /\ \A w \in Worker : todo[w] \subseteq Range(left[w])
  /\ \A w \in Worker : pc[w] \in {"off", "fetch", "send"} => todo[w] = {}

LEMMA TypeFromParts == OrderInv /\ Rest => TypeOK
<1>. SUFFICES ASSUME OrderInv, Rest PROVE TypeOK
  OBVIOUS
<1>1. pushed \in Seq(Event) /\ Range(pushed) \subseteq Event
  BY DEF OrderInv, VanishInv, Shape, Range
<1>2. stored \subseteq Event /\ received \subseteq Event /\ acked \subseteq Event
  BY <1>1 DEF OrderInv, Known
<1>3. \A w \in Worker : todo[w] \subseteq Range(left[w]) \cap Range(pushed)
  BY DEF OrderInv, Known, Rest
<1>. QED
  BY <1>1, <1>2, <1>3
     DEF OrderInv, VanishInv, Shape, Known, Rest, Batch, TypeOK

LEMMA BatchFacts ==
  /\ <<>> \in Batch
  /\ \A b \in Batch : Range(b) \subseteq Event
  /\ \A b \in Batch : \A S : Restrict(b, S \cap DOMAIN b) \in Batch
<1>1. <<>> \in [{} -> Event]
  OBVIOUS
<1>2. <<>> \in Batch
  BY <1>1 DEF Batch
<1>3. ASSUME NEW b \in Batch
      PROVE  /\ Range(b) \subseteq Event
             /\ \A S : Restrict(b, S \cap DOMAIN b) \in Batch
  <2>1. PICK D \in SUBSET (1 .. BatchSize) : b \in [D -> Event]
    BY DEF Batch
  <2>2. ASSUME NEW S PROVE Restrict(b, S \cap DOMAIN b) \in Batch
    <3>1. Restrict(b, S \cap DOMAIN b) \in [S \cap D -> Event]
      BY <2>1 DEF Restrict
    <3>. QED
      BY <2>1, <3>1 DEF Batch
  <2>. QED
    BY <2>1, <2>2 DEF Range
<1>. QED
  BY <1>2, <1>3

LEMMA TriesFact == 0 \in 0 .. Retry /\ \A n \in 0 .. Retry : n < Retry => n + 1 \in 0 .. Retry
BY QueueAssumption

LEMMA GroupFact ==
  ASSUME Rest, NEW w \in Worker
  PROVE  Group(w) \subseteq Range(left[w]) /\ Group(w) \subseteq Event
BY BatchFacts DEF Rest, Group

\* What one request does to the store leaves no count behind.
LEMMA CountsOfStored ==
  ASSUME OrderInv, Rest, NEW e \in Event,
         \/ \E n : PutEvent(e, n)
         \/ DeleteEvent(e)
         \/ UNCHANGED storeVars
  PROVE  \A x \in Event \ stored' : retry'[x] = 0
<1>1. retry \in [Event -> 0 .. RetryCap]
  BY DEF OrderInv, VanishInv, Shape
<1>. QED
  BY <1>1 DEF Rest, PutEvent, DeleteEvent, storeVars

LEMMA RestFetch ==
  ASSUME OrderInv, Rest, NEW w \in Worker, Fetch(w)
  PROVE  Rest'
<1>1. PICK batch \in Batches(stored) : Take(w, batch)
  BY DEF Fetch
<1>2. /\ UNCHANGED <<stored, retry, dir, lock, alive, batchSize, view, tries, dropped>>
      /\ left' = [left EXCEPT ![w] = batch]
      /\ todo' = [todo EXCEPT ![w] = Range(batch)]
      /\ pc' = [pc EXCEPT ![w] = "mark"]
  BY <1>1 DEF Take, Goto, storeVars, envVars, history
<1>3. PICK k \in 1 .. BatchSize : batch \in [1 .. k -> stored]
  BY QueueAssumption DEF Batches, Rest
<1>4. stored \subseteq Event
  BY DEF OrderInv, Known, VanishInv, Shape, Range
<1>5. 1 .. k \in SUBSET (1 .. BatchSize) /\ batch \in [1 .. k -> Event]
  BY <1>3, <1>4, QueueAssumption
<1>6. batch \in Batch
  BY <1>5 DEF Batch
<1>7. Range(batch) \subseteq Event
  BY <1>6, BatchFacts
<1>. QED
  BY <1>2, <1>6, <1>7 DEF Rest

LEMMA RestLand ==
  ASSUME OrderInv, Rest, NEW w \in Worker, NEW e \in Event, Land(w, e) \/ LandFails(w, e)
  PROVE  Rest'
<1>1. /\ UNCHANGED <<dir, lock, alive, batchSize, pc, left, view, tries, dropped>>
      /\ todo' = [todo EXCEPT ![w] = todo[w] \ {e}]
  BY DEF Land, LandFails, MarkLands, DeleteLands, FailLands, Landed, envVars, history
<1>2. \A x \in Event \ stored' : retry'[x] = 0
  BY CountsOfStored DEF Land, LandFails, MarkLands, DeleteLands, FailLands
<1>. QED
  BY <1>1, <1>2 DEF Rest

LEMMA RestFail ==
  ASSUME Rest, NEW w \in Worker, NEW label \in {"fail", "throw"}, MarkAsFailed(w, label),
         UNCHANGED <<storeVars, envVars, left, view, dropped>>
  PROVE  Rest'
BY GroupFact, TriesFact DEF Rest, MarkAsFailed, Goto, storeVars, envVars

LEMMA RestDeliver ==
  ASSUME Rest, NEW w \in Worker, NEW d \in Directory, Deliver(w, d)
  PROVE  Rest'
<1>1. CASE Drop(w, d)
  BY <1>1, GroupFact DEF Rest, Drop, Goto, storeVars, envVars
<1>2. CASE SendOk(w, d)
  BY <1>2, GroupFact, TriesFact DEF Rest, SendOk, Goto, storeVars, envVars
<1>3. CASE SendOther(w, d)
  BY <1>3, RestFail DEF SendOther, Fail
<1>4. CASE SendError(w, d)
  <2>1. CASE Fail(w, "throw")
    BY <1>4, <2>1, RestFail DEF SendError, Fail
  <2>2. CASE /\ tries[w] < Retry /\ tries' = [tries EXCEPT ![w] = @ + 1]
             /\ UNCHANGED <<todo, failures, pc>>
    BY <1>4, <2>2, TriesFact DEF Rest, SendError, storeVars, envVars
  <2>. QED
    BY <1>4, <2>1, <2>2 DEF SendError
<1>. QED
  BY <1>1, <1>2, <1>3, <1>4 DEF Deliver

LEMMA RestStep ==
  ASSUME OrderInv, Rest, [Next]_vars
  PROVE  Rest'
<1>0. /\ \A w \in Worker : Others(w) \in Batch
      /\ [d \in Directory |-> "ready"] \in [Directory -> DirState \cup {"error"}]
      /\ <<>> \in Batch
  <2>1. ASSUME NEW w \in Worker PROVE Others(w) \in Batch
    <3>. DEFINE S == {i \in DOMAIN left[w] : DirOf[left[w][i]] # DirOf[First(w)]}
    <3>1. S = S \cap DOMAIN left[w]
      OBVIOUS
    <3>2. left[w] \in Batch
      BY DEF Rest
    <3>. QED
      BY <3>1, <3>2, BatchFacts DEF Others
  <2>. QED
    BY <2>1, BatchFacts DEF DirState
<1>1. ASSUME NEW e \in Event, Push(e) PROVE Rest'
  <2>1. \A x \in Event \ stored' : retry'[x] = 0
    BY <1>1, CountsOfStored DEF Push
  <2>. QED
    BY <1>1, <2>1 DEF Rest, Push, envVars, workerVars, history
<1>2. ASSUME NEW w \in Worker, Start(w) PROVE Rest'
  BY <1>2, QueueAssumption DEF Rest, Start, Goto, storeVars, history
<1>3. ASSUME NEW w \in Worker, FetchNone(w) PROVE Rest'
  BY <1>3 DEF Rest, FetchNone, Goto, storeVars, history
<1>4. ASSUME NEW w \in Worker, Resolve(w) \/ ResolveFails(w) PROVE Rest'
  <2>1. PICK failed \in SUBSET Directory : view' = [view EXCEPT ![w] =
                        [d \in Directory |-> IF d \in failed THEN "error" ELSE dir[d]]]
    BY <1>4 DEF Resolve, ResolveFails, Resolved
  <2>2. view' \in [Worker -> [Directory -> DirState \cup {"error"}]]
    BY <2>1 DEF Rest
  <2>. QED
    BY <1>4, <2>2 DEF Rest, Resolve, ResolveFails, Resolved, Goto, storeVars, envVars, history
<1>5. ASSUME NEW w \in Worker, GroupDone(w) PROVE Rest'
  BY <1>0, <1>5 DEF Rest, GroupDone, Goto, storeVars, envVars, history
<1>6. ASSUME NEW w \in Worker, Thrown(w) \/ BatchDone(w) PROVE Rest'
  <2>1. /\ UNCHANGED <<stored, retry, dir, lock, alive, batchSize, todo, tries, dropped>>
        /\ left' = [left EXCEPT ![w] = <<>>]
        /\ view' = [view EXCEPT ![w] = [d \in Directory |-> "ready"]]
        /\ pc' = [pc EXCEPT ![w] = "off"] \/ pc' = [pc EXCEPT ![w] = "fetch"]
        /\ todo[w] = {}
    BY <1>6 DEF Rest, Thrown, BatchDone, Forget, Goto, storeVars, envVars, history
  <2>2. left' \in [Worker -> Batch]
        /\ view' \in [Worker -> [Directory -> DirState \cup {"error"}]]
        /\ pc' \in [Worker -> {"off", "fetch", "mark", "send", "delete", "drop",
                               "fail", "throw"}]
    BY <1>0, <2>1 DEF Rest
  <2>3. \A v \in Worker : /\ todo'[v] \subseteq Range(left'[v])
                          /\ pc'[v] \in {"off", "fetch", "send"} => todo'[v] = {}
    BY <2>1 DEF Rest
  <2>. QED
    BY <2>1, <2>2, <2>3 DEF Rest
<1>7. ASSUME NEW w \in Worker, LogThrows(w) PROVE Rest'
  BY <1>7, RestFail DEF LogThrows
<1>8. ASSUME NEW d \in Directory, DirectoryChanges(d) PROVE Rest'
  <2>1. PICK s \in Changes : dir' = [dir EXCEPT ![d] = s]
    BY <1>8 DEF DirectoryChanges
  <2>2. dir' \in [Directory -> DirState]
    BY <2>1, QueueAssumption DEF Rest, DirState
  <2>. QED
    BY <1>8, <2>2 DEF Rest, DirectoryChanges, storeVars, workerVars, history
<1>9. CASE LockLost
  BY <1>9 DEF Rest, LockLost, storeVars, workerVars, history
<1>10. ASSUME NEW i \in Instance, Crash(i) PROVE Rest'
  <2>1. UNCHANGED <<stored, retry, dir, lock, batchSize, dropped>>
        /\ alive' \in [Instance -> BOOLEAN]
        /\ tries' \in [Worker -> 0 .. Retry]
    BY <1>10, TriesFact DEF Rest, Crash, storeVars, history
  <2>2. left' \in [Worker -> Batch] /\ todo' \in [Worker -> SUBSET Event]
        /\ view' \in [Worker -> [Directory -> DirState \cup {"error"}]]
    BY <1>0, <1>10 DEF Rest, Crash
  <2>3. pc' \in [Worker -> {"off", "fetch", "mark", "send", "delete", "drop",
                            "fail", "throw"}]
    BY <1>10 DEF Rest, Crash
  <2>4. \A w \in Worker : /\ todo'[w] \subseteq Range(left'[w])
                          /\ pc'[w] \in {"off", "fetch", "send"} => todo'[w] = {}
    BY <1>10 DEF Rest, Crash
  <2>. QED
    BY <2>1, <2>2, <2>3, <2>4 DEF Rest
<1>11. CASE UNCHANGED vars
  BY <1>11 DEF Rest, vars, storeVars, envVars, workerVars, history
<1>. QED
  BY <1>1, <1>2, <1>3, <1>4, <1>5, <1>6, <1>7, <1>8, <1>9, <1>10, <1>11,
     RestFetch, RestLand, RestDeliver DEF Next, Served, StoreFails, WorkerStep

(***************************************************************************)
(* Only pushed events are stored, and only those have counts and stamps;   *)
(* a worker has requests under way only for events of the batch that it    *)
(* holds, and those were pushed (queue.ts:90-158, 199-222).                *)
(***************************************************************************)
THEOREM EventTyped == Spec => []TypeOK
<1>1. Init => OrderInv /\ Rest
  <2>. SUFFICES ASSUME Init PROVE Rest
    BY OrderInit
  <2>1. <<>> \in Batch /\ Range(<<>>) = {} /\ 0 \in 0 .. Retry
    BY BatchFacts, TriesFact DEF Range
  <2>. QED
    BY <2>1 DEF Init, Rest, DirState
<1>2. OrderInv /\ Rest /\ [Next]_vars => OrderInv' /\ Rest'
  BY ShapeStep, JustifiedStep, VanishStep, OrderStep, RestStep
     DEF OrderInv, VanishInv
<1>3. OrderInv /\ Rest => TypeOK
  BY TypeFromParts
<1>. QED
  BY <1>1, <1>2, <1>3, PTL DEF Spec
=============================================================================
