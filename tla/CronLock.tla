------------------------------ MODULE CronLock ------------------------------
(***************************************************************************)
(* The lease that lets one process of a Jackson deployment run a periodic  *)
(* job (npm/src/cron/lock.ts, class CronLock).  The lock is one record of  *)
(* the shared store, <<instance key, created_at>>; acquire, renew and      *)
(* release each read it, decide, and write it back in a later request, so  *)
(* the read and the write of one call are separate actions here.           *)
(*                                                                         *)
(* Time is discrete.  A record carries its age instead of its date, so the *)
(* model is finite: ages stop counting one past the last value that        *)
(* matters.  Latency bounds how long a write may be in flight, and a due   *)
(* timer fires before time moves on.                                       *)
(***************************************************************************)
EXTENDS Absence, Naturals

CONSTANTS
  Instance,       \* the processes; a restarted process has a new key, so it
                  \* is another member
  Job,            \* the calls that acquire, work and release
  Host,           \* Host[j] is the process job j runs in
  EventLockTTL,   \* seconds a record is honoured, counted in ticks
  Latency         \* ticks a store write may stay in flight (a bound)

\* setInterval's period: half of the TTL.
RenewInterval == EventLockTTL \div 2

ASSUME HostAssumption == Host \in [Job -> Instance]
ASSUME NoneAssumption == None \notin Instance
ASSUME TimingAssumption ==
  /\ EventLockTTL \in Nat
  /\ Latency \in Nat
  /\ RenewInterval \in Nat
  /\ 2 * Latency + RenewInterval < EventLockTTL

VARIABLES
  owner,     \* the key in the lock record, or None
  age,       \* ticks since the record's created_at
  tenure,    \* history: ticks since the owner's unbroken ownership began
  pc,        \* where each job is
  wait,      \* ticks since a job's write was sent
  alive,     \* which processes run
  timer,     \* intervalId of each process: unset, running, or cleared
  since,     \* ticks since a running timer last fired
  renewing,  \* which processes have a renewal's write in flight
  rwait,     \* ticks since that write was sent
  missed     \* history: a renewal of the process failed since its last add

lockVars  == <<owner, age, tenure>>
jobVars   == <<pc, wait>>
timerVars == <<timer, since, renewing, rwait, missed>>
vars == <<lockVars, jobVars, alive, timerVars>>

InFlight == {"adding", "deleting"}

TypeOK ==
  /\ owner \in Instance \cup {None}
  /\ age \in 0 .. EventLockTTL + 1
  /\ tenure \in 0 .. Latency + 1
  /\ pc \in [Job -> {"idle", "adding", "working", "deleting"}]
  /\ wait \in [Job -> 0 .. Latency]
  /\ alive \in [Instance -> BOOLEAN]
  /\ timer \in [Instance -> {"unset", "running", "cleared"}]
  /\ since \in [Instance -> 0 .. RenewInterval]
  /\ renewing \in [Instance -> BOOLEAN]
  /\ rwait \in [Instance -> 0 .. Latency]
  /\ missed \in [Instance -> BOOLEAN]
  /\ \A i \in Instance : renewing[i] => timer[i] # "unset"

Init ==
  /\ owner = None /\ age = 0 /\ tenure = 0
  /\ pc = [j \in Job |-> "idle"]
  /\ wait = [j \in Job |-> 0]
  /\ alive = [i \in Instance |-> TRUE]
  /\ timer = [i \in Instance |-> "unset"]
  /\ since = [i \in Instance |-> 0]
  /\ renewing = [i \in Instance |-> FALSE]
  /\ rwait = [i \in Instance |-> 0]
  /\ missed = [i \in Instance |-> FALSE]

-----------------------------------------------------------------------------
IsExpired_Early == age >= RenewInterval
IsExpired == age > EventLockTTL

CapAt(n, bound) == IF n < bound THEN n ELSE bound

\* The record {key, created_at} reaches the store, a ticks after created_at.
Put(i, a, unbroken) ==
  /\ owner' = i
  /\ age' = a
  /\ tenure' = IF unbroken THEN tenure ELSE 0

Remove == owner' = None /\ age' = 0 /\ tenure' = 0

SetJob(j, state) ==
  /\ pc' = [pc EXCEPT ![j] = state]
  /\ wait' = [wait EXCEPT ![j] = 0]

-----------------------------------------------------------------------------
AcquireRead_RefusesOwn(j) ==
  /\ alive[Host[j]]
  /\ pc[j] = "idle"
  /\ owner = None \/ IsExpired
  /\ SetJob(j, "adding")
  /\ UNCHANGED <<lockVars, alive, timerVars>>

(***************************************************************************)
(* acquire: read the record; an own unexpired lock is granted at once,     *)
(* another's is refused (nothing changes), none or an expired one is       *)
(* replaced by a put in flight.                                            *)
(***************************************************************************)
AcquireRead(j) ==
  /\ alive[Host[j]]
  /\ pc[j] = "idle"
  /\ \/ /\ owner = None \/ IsExpired
        /\ SetJob(j, "adding")
     \/ /\ owner = Host[j] /\ ~IsExpired
        /\ SetJob(j, "working")
  /\ UNCHANGED <<lockVars, alive, timerVars>>

\* The put lands, whatever the store holds by now.  The timer starts only
\* when intervalId was never set: release clears the timer but not the
\* variable.
AcquireWrite(j) ==
  LET i == Host[j] IN
  /\ pc[j] = "adding"
  /\ Put(i, wait[j], FALSE)
  /\ SetJob(j, IF alive[i] THEN "working" ELSE "idle")
  /\ timer' = [timer EXCEPT ![i] =
                 IF alive[i] /\ @ = "unset" THEN "running" ELSE @]
  /\ missed' = [missed EXCEPT ![i] = FALSE]
  /\ UNCHANGED <<alive, since, renewing, rwait>>

\* The put throws, before or after the store took it: acquire returns false.
AcquireFails(j) ==
  /\ pc[j] = "adding"
  /\ SetJob(j, "idle")
  /\ Put(Host[j], wait[j], FALSE) \/ UNCHANGED lockVars
  /\ UNCHANGED <<alive, timerVars>>

-----------------------------------------------------------------------------
ClearInterval(i) ==
  timer' = [timer EXCEPT ![i] = IF @ = "running" THEN "cleared" ELSE @]

\* release: clear the timer, read the record, go on only if it is one's own.
ReleaseRead(j) ==
  LET i == Host[j] IN
  /\ alive[i]
  /\ pc[j] = "working"
  /\ ClearInterval(i)
  /\ SetJob(j, IF owner = i THEN "deleting" ELSE "idle")
  /\ UNCHANGED <<lockVars, alive, since, renewing, rwait, missed>>

\* The delete lands, whatever the store holds by now.
ReleaseDelete(j) ==
  /\ pc[j] = "deleting"
  /\ Remove
  /\ SetJob(j, "idle")
  /\ UNCHANGED <<alive, timerVars>>

\* The read or the delete throws; release has no handler.
ReleaseFails(j) ==
  /\ \/ pc[j] = "working" /\ alive[Host[j]] /\ ClearInterval(Host[j])
     \/ pc[j] = "deleting" /\ UNCHANGED timer
  /\ SetJob(j, "idle")
  /\ UNCHANGED <<lockVars, alive, since, renewing, rwait, missed>>

\* The job ends with an exception and never calls release, as the event
\* worker does when the webhook rejects a batch.
Abandon(j) ==
  /\ pc[j] = "working"
  /\ SetJob(j, "idle")
  /\ UNCHANGED <<lockVars, alive, timerVars>>

-----------------------------------------------------------------------------
RenewRead_AnyOwner(i) ==
  /\ timer[i] = "running"
  /\ since[i] = RenewInterval
  /\ ~renewing[i]
  /\ since' = [since EXCEPT ![i] = 0]
  /\ renewing' = [renewing EXCEPT ![i] = owner # None]
  /\ rwait' = [rwait EXCEPT ![i] = 0]
  /\ UNCHANGED <<lockVars, jobVars, alive, timer, missed>>

RenewRead_NoTimer(i) ==
  /\ alive[i]
  /\ ~renewing[i]
  /\ since' = [since EXCEPT ![i] = 0]
  /\ renewing' = [renewing EXCEPT ![i] = owner = i]
  /\ rwait' = [rwait EXCEPT ![i] = 0]
  /\ UNCHANGED <<lockVars, jobVars, alive, timer, missed>>

\* The timer fires: renew reads the record and goes on if it is one's own.
\* At most one renewal per process is in flight (a bound).
RenewRead(i) ==
  /\ timer[i] = "running"
  /\ since[i] = RenewInterval
  /\ ~renewing[i]
  /\ since' = [since EXCEPT ![i] = 0]
  /\ renewing' = [renewing EXCEPT ![i] = owner = i]
  /\ rwait' = [rwait EXCEPT ![i] = 0]
  /\ UNCHANGED <<lockVars, jobVars, alive, timer, missed>>

RenewDone(i) ==
  /\ renewing[i]
  /\ renewing' = [renewing EXCEPT ![i] = FALSE]
  /\ rwait' = [rwait EXCEPT ![i] = 0]
  /\ UNCHANGED <<jobVars, alive, timer, since>>

RenewWrite_SameDate(i) ==
  RenewDone(i) /\ Put(i, age, owner = i) /\ UNCHANGED missed

RenewWrite(i) ==
  RenewDone(i) /\ Put(i, rwait[i], owner = i) /\ UNCHANGED missed

\* renew swallows the error; the record keeps its old date.
RenewFails(i) ==
  /\ RenewDone(i)
  /\ missed' = [missed EXCEPT ![i] = TRUE]
  /\ UNCHANGED lockVars

-----------------------------------------------------------------------------
\* The store drops a record whose time to live has passed.  It counts from
\* the put, never earlier than created_at.
Sweep ==
  /\ owner # None
  /\ age >= EventLockTTL
  /\ Remove
  /\ UNCHANGED <<jobVars, alive, timerVars>>

Crash_TimerSurvives(i) ==
  /\ alive[i]
  /\ \E k \in Instance \ {i} : alive[k]
  /\ alive' = [alive EXCEPT ![i] = FALSE]
  /\ pc' = [j \in Job |-> IF Host[j] = i /\ pc[j] = "working"
                            THEN "idle" ELSE pc[j]]
  /\ UNCHANGED <<lockVars, wait, timerVars>>

\* A process dies; its writes in flight may still land.  One stays up.
Crash(i) ==
  /\ alive[i]
  /\ \E k \in Instance \ {i} : alive[k]
  /\ alive' = [alive EXCEPT ![i] = FALSE]
  /\ timer' = [timer EXCEPT ![i] = "cleared"]
  /\ pc' = [j \in Job |-> IF Host[j] = i /\ pc[j] = "working"
                            THEN "idle" ELSE pc[j]]
  /\ UNCHANGED <<lockVars, wait, since, renewing, rwait, missed>>

Tick ==
  /\ \A i \in Instance : timer[i] = "running" => since[i] < RenewInterval
  /\ \A i \in Instance : renewing[i] => rwait[i] < Latency
  /\ \A j \in Job : pc[j] \in InFlight => wait[j] < Latency
  /\ age' = IF owner = None THEN 0 ELSE CapAt(age + 1, EventLockTTL + 1)
  /\ tenure' = IF owner = None THEN 0 ELSE CapAt(tenure + 1, Latency + 1)
  /\ wait' = [j \in Job |-> IF pc[j] \in InFlight THEN wait[j] + 1 ELSE 0]
  /\ since' = [i \in Instance |->
                 IF timer[i] = "running" THEN since[i] + 1 ELSE 0]
  /\ rwait' = [i \in Instance |-> IF renewing[i] THEN rwait[i] + 1 ELSE 0]
  /\ UNCHANGED <<owner, pc, alive, timer, renewing, missed>>

JobStep(j) ==
  \/ AcquireRead(j) \/ AcquireWrite(j) \/ AcquireFails(j)
  \/ ReleaseRead(j) \/ ReleaseDelete(j) \/ ReleaseFails(j)
  \/ Abandon(j)

InstanceStep(i) ==
  RenewRead(i) \/ RenewWrite(i) \/ RenewFails(i) \/ Crash(i)

Next ==
  \/ \E j \in Job : JobStep(j)
  \/ \E i \in Instance : InstanceStep(i)
  \/ Sweep
  \/ Tick

Spec == Init /\ [][Next]_vars

\* The behaviours in which no request fails and no process dies.
FaultFreeNext ==
  \/ \E j \in Job : \/ AcquireRead(j) \/ AcquireWrite(j)
                     \/ ReleaseRead(j) \/ ReleaseDelete(j)
  \/ \E i \in Instance : RenewRead(i) \/ RenewWrite(i)
  \/ Sweep
  \/ Tick

FaultFreeSpec == Init /\ [][FaultFreeNext]_vars

(***************************************************************************)
(* Time passes, timers fire, requests end, the store drops what expired,   *)
(* and the cron calls acquire again and again.  A put that is tried for    *)
(* ever is not lost for ever.  Nothing says that a job ends.               *)
(***************************************************************************)
Fairness ==
  /\ WF_vars(Tick)
  /\ WF_vars(Sweep)
  /\ \A i \in Instance : WF_vars(RenewRead(i)) /\ WF_vars(RenewWrite(i))
  /\ \A j \in Job : /\ WF_vars(AcquireRead(j))
                    /\ SF_vars(AcquireWrite(j))
                    /\ WF_vars(ReleaseDelete(j))

FairSpec == Spec /\ Fairness

-----------------------------------------------------------------------------
\* Process i owns the record, its timer runs, and no renewal has failed.
Leased(i) == owner = i /\ timer[i] = "running" /\ ~missed[i]

\* ... and has owned it longer than any older write can be in flight.
Settled(i) == Leased(i) /\ tenure > Latency

(***************************************************************************)
(* A record that its owner's timer renews is never old enough to be taken  *)
(* over or dropped: half the TTL plus two store latencies stay below it    *)
(* (lock.ts:5, 45-50, 71).                                                 *)
(***************************************************************************)
RenewedLockFresh == \A i \in Instance : Leased(i) => age < EventLockTTL

(***************************************************************************)
(* Once settled, a lease leaves its owner only by the owner's own release: *)
(* no write that another process decided on from an older read can still   *)
(* arrive (lock.ts:37-43, 61-71, 95-105 read first and write later).       *)
(***************************************************************************)
LeaseKept ==
  \A i \in Instance :
    Settled(i) =>
      \/ owner' = i
      \/ \E j \in Job : Host[j] = i /\ pc[j] = "deleting"
SettledLeaseKept == [][LeaseKept]_vars

(***************************************************************************)
(* While one process holds a settled lease, acquire returns true in no     *)
(* other process (lock.ts:35-52).                                          *)
(***************************************************************************)
LeaseExcludes ==
  \A i \in Instance, j \in Job :
    Settled(i) /\ Host[j] # i /\ pc[j] # "working" => pc'[j] # "working"
SettledLeaseExcludes == [][LeaseExcludes]_vars

(***************************************************************************)
(* The lock of a dead process does not stay for ever (lock.ts:39, 108-114  *)
(* and the store's TTL).                                                   *)
(***************************************************************************)
DeadOwnerReplaced ==
  \A i \in Instance : (owner = i /\ ~alive[i]) ~> (owner # i)

(***************************************************************************)
(* With one process up and its cron running, some job gets the lock again  *)
(* and again, whatever was abandoned, failed or crashed before.            *)
(***************************************************************************)
SomeJobWorks == []<>(\E j \in Job : pc[j] = "working")

(***************************************************************************)
(* The comment of lock.ts:45, "Renew the lock periodically": while a job   *)
(* works under its process's lock, the record does not expire.             *)
(***************************************************************************)
HeldLockRenewed ==
  \A j \in Job : pc[j] = "working" /\ owner = Host[j] => ~IsExpired
=============================================================================
