--------------------------- MODULE LockSync_proofs ---------------------------
(***************************************************************************)
(* What CronLock guarantees for any number of processes and jobs and for   *)
(* every latency that leaves a renewal in time, and what the sync with     *)
(* Google, which it guards, does for any users, groups, syncs, changes     *)
(* and failures.                                                           *)
(***************************************************************************)
EXTENDS CronLock, GoogleSync, FiniteSetTheorems, WellFoundedInduction, TLAPS

-----------------------------------------------------------------------------
(* The lock.                                                               *)

(***************************************************************************)
(* The age a leased record can have: a renewal's write is under way, or    *)
(* the next one starts when the timer fires.                               *)
(***************************************************************************)
AgeBound(i) ==
  IF renewing[i] THEN age <= Latency + RenewInterval + rwait[i]
                 ELSE age <= Latency + since[i]

\* Every foreign write in flight was sent before the owner's tenure began.
ForeignWritesOlder(i) ==
  /\ \A j \in Job : pc[j] \in InFlight /\ Host[j] # i => wait[j] >= tenure
  /\ \A k \in Instance : renewing[k] /\ k # i => rwait[k] >= tenure

LeaseInv ==
  \A i \in Instance : Leased(i) => AgeBound(i) /\ ForeignWritesOlder(i)

IInv == TypeOK /\ LeaseInv

-----------------------------------------------------------------------------
\* A leased record is younger than the TTL.
LEMMA LeasedFresh ==
  ASSUME IInv, NEW i \in Instance, Leased(i)
  PROVE  age < EventLockTTL
<1>1. AgeBound(i)
  BY DEF IInv, LeaseInv
<1>2. age \in Nat /\ rwait[i] \in 0 .. Latency /\ since[i] \in 0 .. RenewInterval
  BY TimingAssumption DEF IInv, TypeOK
<1>. QED
  BY <1>1, <1>2, TimingAssumption DEF AgeBound

\* Types are preserved by every step.
LEMMA TypeStep == TypeOK /\ [Next]_vars => TypeOK'
<1> SUFFICES ASSUME TypeOK, [Next]_vars
             PROVE  TypeOK'
  OBVIOUS
<1> USE HostAssumption, NoneAssumption, TimingAssumption DEF TypeOK
<1>1. ASSUME NEW j \in Job, AcquireRead(j) PROVE TypeOK'
  BY <1>1 DEF AcquireRead, SetJob, lockVars, timerVars
<1>2. ASSUME NEW j \in Job, AcquireWrite(j) PROVE TypeOK'
  BY <1>2 DEF AcquireWrite, SetJob, Put
<1>3. ASSUME NEW j \in Job, AcquireFails(j) PROVE TypeOK'
  BY <1>3 DEF AcquireFails, SetJob, Put, lockVars, timerVars
<1>4. ASSUME NEW j \in Job, ReleaseRead(j) PROVE TypeOK'
  BY <1>4 DEF ReleaseRead, SetJob, ClearInterval, lockVars
<1>5. ASSUME NEW j \in Job, ReleaseDelete(j) PROVE TypeOK'
  BY <1>5 DEF ReleaseDelete, SetJob, Remove, timerVars
<1>6. ASSUME NEW j \in Job, ReleaseFails(j) PROVE TypeOK'
  BY <1>6 DEF ReleaseFails, SetJob, ClearInterval, lockVars
<1>7. ASSUME NEW j \in Job, Abandon(j) PROVE TypeOK'
  BY <1>7 DEF Abandon, SetJob, lockVars, timerVars
<1>8. ASSUME NEW i \in Instance, RenewRead(i) PROVE TypeOK'
  BY <1>8 DEF RenewRead, lockVars, jobVars
<1>9. ASSUME NEW i \in Instance, RenewWrite(i) PROVE TypeOK'
  BY <1>9 DEF RenewWrite, RenewDone, Put, jobVars
<1>10. ASSUME NEW i \in Instance, RenewFails(i) PROVE TypeOK'
  BY <1>10 DEF RenewFails, RenewDone, lockVars, jobVars
<1>11. ASSUME NEW i \in Instance, Crash(i) PROVE TypeOK'
  BY <1>11 DEF Crash, lockVars
<1>12. CASE Sweep
  BY <1>12 DEF Sweep, Remove, jobVars, timerVars
<1>13. CASE Tick
  <2>1. age' \in 0 .. EventLockTTL + 1 /\ tenure' \in 0 .. Latency + 1
    BY <1>13 DEF Tick, CapAt
  <2>2. wait' \in [Job -> 0 .. Latency]
    BY <1>13 DEF Tick
  <2>3. since' \in [Instance -> 0 .. RenewInterval]
    BY <1>13 DEF Tick
  <2>4. rwait' \in [Instance -> 0 .. Latency]
    BY <1>13 DEF Tick
  <2>. QED
    BY <1>13, <2>1, <2>2, <2>3, <2>4 DEF Tick
<1>14. CASE UNCHANGED vars
  BY <1>14 DEF vars, lockVars, jobVars, timerVars
<1>. QED
  BY <1>1, <1>2, <1>3, <1>4, <1>5, <1>6, <1>7, <1>8, <1>9, <1>10, <1>11,
     <1>12, <1>13, <1>14 DEF Next, JobStep, InstanceStep

-----------------------------------------------------------------------------
\* A write that makes i the owner with an unbroken flag of FALSE.
LEMMA FreshPutLeased ==
  ASSUME IInv, TypeOK', NEW k \in Instance, NEW a \in 0 .. Latency,
         Put(k, a, FALSE), UNCHANGED <<since, renewing, rwait>>
  PROVE  LeaseInv'
<1> SUFFICES ASSUME NEW i \in Instance, Leased(i)'
             PROVE  AgeBound(i)' /\ ForeignWritesOlder(i)'
  BY DEF LeaseInv
<1>1. i = k /\ age' = a /\ tenure' = 0
  BY DEF Leased, Put
<1>2. AgeBound(i)'
  BY <1>1, TimingAssumption DEF AgeBound, IInv, TypeOK
<1>3. ForeignWritesOlder(i)'
  BY <1>1, TimingAssumption DEF ForeignWritesOlder, TypeOK
<1>. QED
  BY <1>2, <1>3

\* A step after which nobody owns the record.
LEMMA RemoveLeased ==
  ASSUME Remove
  PROVE  LeaseInv'
BY NoneAssumption DEF Remove, LeaseInv, Leased

(***************************************************************************)
(* A step that leaves the record, the timers and the renewals in flight as *)
(* they were, or stops some timer, and adds no foreign write while a lease *)
(* is held.                                                                *)
(***************************************************************************)
LEMMA QuietLeased ==
  ASSUME IInv,
         UNCHANGED <<owner, age, tenure, renewing, since, rwait>>,
         \A i \in Instance : Leased(i)' => Leased(i),
         \A i \in Instance, j \in Job :
           Leased(i) /\ Host[j] # i /\ pc'[j] \in InFlight
             => pc[j] \in InFlight /\ wait'[j] = wait[j]
  PROVE  LeaseInv'
<1> SUFFICES ASSUME NEW i \in Instance, Leased(i)'
             PROVE  AgeBound(i)' /\ ForeignWritesOlder(i)'
  BY DEF LeaseInv
<1>1. Leased(i) /\ AgeBound(i) /\ ForeignWritesOlder(i)
  BY DEF IInv, LeaseInv
<1>2. AgeBound(i)'
  BY <1>1 DEF AgeBound
<1>3. ForeignWritesOlder(i)'
  BY <1>1 DEF ForeignWritesOlder
<1>. QED
  BY <1>2, <1>3

-----------------------------------------------------------------------------
\* The lease invariant is preserved by every step.
LEMMA LeaseStep == IInv /\ TypeOK' /\ [Next]_vars => LeaseInv'
<1> SUFFICES ASSUME IInv, TypeOK', [Next]_vars
             PROVE  LeaseInv'
  OBVIOUS
<1> USE HostAssumption, TimingAssumption
<1>0. TypeOK
  BY DEF IInv
<1>1. ASSUME NEW j \in Job, AcquireRead(j) PROVE LeaseInv'
  <2>1. UNCHANGED <<owner, age, tenure, renewing, since, rwait, timer, missed>>
    BY <1>1 DEF AcquireRead, lockVars, timerVars
  <2>2. ASSUME NEW i \in Instance, NEW h \in Job, Leased(i), Host[h] # i,
               pc'[h] \in InFlight
        PROVE  pc[h] \in InFlight /\ wait'[h] = wait[h]
    <3>1. age < EventLockTTL /\ owner = i /\ age \in Nat
      BY <2>2, LeasedFresh, <1>0 DEF Leased, TypeOK
    <3>2. ~IsExpired /\ owner # None
      BY <3>1, NoneAssumption DEF IsExpired
    <3>3. owner = Host[j] /\ SetJob(j, "working")
      BY <1>1, <3>2 DEF AcquireRead
    <3>4. h # j
      BY <3>1, <3>3, <2>2
    <3>. QED
      BY <3>3, <3>4, <1>0, <2>2 DEF SetJob, TypeOK
  <2>. QED
    BY <2>1, <2>2, QuietLeased DEF Leased
<1>2. ASSUME NEW j \in Job, AcquireWrite(j) PROVE LeaseInv'
  BY <1>0, <1>2, FreshPutLeased DEF AcquireWrite, TypeOK
<1>3. ASSUME NEW j \in Job, AcquireFails(j) PROVE LeaseInv'
  <2>1. CASE Put(Host[j], wait[j], FALSE)
    BY <1>0, <1>3, <2>1, FreshPutLeased DEF AcquireFails, TypeOK, timerVars
  <2>2. CASE UNCHANGED lockVars
    BY <1>0, <1>3, <2>2, QuietLeased
       DEF AcquireFails, lockVars, timerVars, SetJob, TypeOK, Leased, InFlight
  <2>. QED
    BY <1>3, <2>1, <2>2 DEF AcquireFails
<1>4. ASSUME NEW j \in Job, ReleaseRead(j) PROVE LeaseInv'
  <2>1. UNCHANGED <<owner, age, tenure, renewing, since, rwait, missed>>
    BY <1>4 DEF ReleaseRead, lockVars
  <2>2. \A i \in Instance : Leased(i)' => Leased(i)
    BY <1>0, <1>4, <2>1 DEF Leased, ReleaseRead, ClearInterval, TypeOK
  <2>3. ASSUME NEW i \in Instance, NEW h \in Job, Leased(i), Host[h] # i,
               pc'[h] \in InFlight
        PROVE  pc[h] \in InFlight /\ wait'[h] = wait[h]
    BY <1>0, <1>4, <2>3 DEF ReleaseRead, SetJob, Leased, TypeOK, InFlight
  <2>. QED
    BY <2>1, <2>2, <2>3, QuietLeased
<1>5. ASSUME NEW j \in Job, ReleaseDelete(j) PROVE LeaseInv'
  BY <1>5, RemoveLeased DEF ReleaseDelete
<1>6. ASSUME NEW j \in Job, ReleaseFails(j) PROVE LeaseInv'
  <2>1. UNCHANGED <<owner, age, tenure, renewing, since, rwait, missed>>
    BY <1>6 DEF ReleaseFails, lockVars
  <2>2. \A i \in Instance : Leased(i)' => Leased(i)
    BY <1>0, <1>6, <2>1 DEF Leased, ReleaseFails, ClearInterval, TypeOK
  <2>3. ASSUME NEW i \in Instance, NEW h \in Job, Leased(i), Host[h] # i,
               pc'[h] \in InFlight
        PROVE  pc[h] \in InFlight /\ wait'[h] = wait[h]
    BY <1>0, <1>6, <2>3 DEF ReleaseFails, SetJob, TypeOK, InFlight
  <2>. QED
    BY <2>1, <2>2, <2>3, QuietLeased
<1>7. ASSUME NEW j \in Job, Abandon(j) PROVE LeaseInv'
  BY <1>0, <1>7, QuietLeased
     DEF Abandon, SetJob, lockVars, timerVars, TypeOK, Leased, InFlight
<1>8. ASSUME NEW k \in Instance, RenewRead(k) PROVE LeaseInv'
  <2> SUFFICES ASSUME NEW i \in Instance, Leased(i)'
               PROVE  AgeBound(i)' /\ ForeignWritesOlder(i)'
    BY DEF LeaseInv
  <2>1. Leased(i) /\ AgeBound(i) /\ ForeignWritesOlder(i)
    BY <1>8 DEF RenewRead, lockVars, Leased, IInv, LeaseInv
  <2>2. AgeBound(i)'
    <3>1. CASE i = k
      <4>1. ~renewing[i] /\ since[i] = RenewInterval /\ age' = age
        BY <1>8, <3>1 DEF RenewRead, lockVars
      <4>2. age <= Latency + RenewInterval
        BY <2>1, <4>1 DEF AgeBound
      <4>3. renewing'[i] /\ rwait'[i] = 0
        BY <1>0, <1>8, <2>1, <3>1 DEF RenewRead, TypeOK, Leased
      <4>. QED
        BY <1>0, <4>1, <4>2, <4>3 DEF AgeBound, TypeOK
    <3>2. CASE i # k
      <4>1. /\ renewing'[i] = renewing[i] /\ rwait'[i] = rwait[i]
            /\ since'[i] = since[i] /\ age' = age
        BY <1>0, <1>8, <3>2 DEF RenewRead, lockVars, TypeOK
      <4>. QED
        BY <2>1, <4>1 DEF AgeBound
    <3>. QED
      BY <3>1, <3>2
  <2>3. ForeignWritesOlder(i)'
    BY <1>0, <1>8, <2>1
       DEF RenewRead, ForeignWritesOlder, lockVars, jobVars, TypeOK, Leased
  <2>. QED
    BY <2>2, <2>3
<1>9. ASSUME NEW k \in Instance, RenewWrite(k) PROVE LeaseInv'
  <2> SUFFICES ASSUME NEW i \in Instance, Leased(i)'
               PROVE  AgeBound(i)' /\ ForeignWritesOlder(i)'
    BY DEF LeaseInv
  <2>1. i = k /\ age' = rwait[k]
    BY <1>9 DEF RenewWrite, Put, Leased
  <2>2. AgeBound(i)'
    BY <1>0, <1>9, <2>1 DEF RenewWrite, RenewDone, AgeBound, TypeOK
  <2>3. ForeignWritesOlder(i)'
    <3>1. CASE owner = k
      <4>1. Leased(i) /\ ForeignWritesOlder(i)
        BY <1>9, <2>1, <3>1
           DEF RenewWrite, RenewDone, Leased, IInv, LeaseInv
      <4>. QED
        BY <1>0, <1>9, <2>1, <3>1, <4>1
           DEF RenewWrite, RenewDone, Put, ForeignWritesOlder, jobVars, TypeOK
    <3>2. CASE owner # k
      <4>1. tenure' = 0
        BY <1>9, <3>2 DEF RenewWrite, Put
      <4>. QED
        BY <4>1 DEF ForeignWritesOlder, TypeOK
    <3>. QED
      BY <3>1, <3>2
  <2>. QED
    BY <2>2, <2>3
<1>10. ASSUME NEW k \in Instance, RenewFails(k) PROVE LeaseInv'
  <2> SUFFICES ASSUME NEW i \in Instance, Leased(i)'
               PROVE  AgeBound(i)' /\ ForeignWritesOlder(i)'
    BY DEF LeaseInv
  <2>1. i # k
    BY <1>0, <1>10 DEF RenewFails, Leased, TypeOK
  <2>2. Leased(i) /\ AgeBound(i) /\ ForeignWritesOlder(i)
    BY <1>0, <1>10, <2>1
       DEF RenewFails, RenewDone, lockVars, Leased, IInv, LeaseInv, TypeOK
  <2>3. AgeBound(i)'
    BY <1>0, <1>10, <2>1, <2>2
       DEF RenewFails, RenewDone, lockVars, AgeBound, TypeOK
  <2>4. ForeignWritesOlder(i)'
    BY <1>0, <1>10, <2>2
       DEF RenewFails, RenewDone, lockVars, jobVars, ForeignWritesOlder, TypeOK
  <2>. QED
    BY <2>3, <2>4
<1>11. ASSUME NEW k \in Instance, Crash(k) PROVE LeaseInv'
  <2>1. UNCHANGED <<owner, age, tenure, renewing, since, rwait, missed, wait>>
    BY <1>11 DEF Crash, lockVars
  <2>2. \A i \in Instance : Leased(i)' => Leased(i)
    BY <1>0, <1>11, <2>1 DEF Leased, Crash, TypeOK
  <2>3. \A h \in Job : pc'[h] \in InFlight => pc[h] \in InFlight
    BY <1>0, <1>11 DEF Crash, InFlight, TypeOK
  <2>. QED
    BY <2>1, <2>2, <2>3, QuietLeased
<1>12. CASE Sweep
  BY <1>12, RemoveLeased DEF Sweep
<1>13. CASE Tick
  <2> SUFFICES ASSUME NEW i \in Instance, Leased(i)'
               PROVE  AgeBound(i)' /\ ForeignWritesOlder(i)'
    BY DEF LeaseInv
  <2>1. Leased(i) /\ AgeBound(i) /\ ForeignWritesOlder(i)
    BY <1>13 DEF Tick, Leased, IInv, LeaseInv
  <2>2. owner # None /\ timer[i] = "running"
    BY <2>1, NoneAssumption DEF Leased
  <2>3. age' <= age + 1 /\ tenure' <= tenure + 1
    BY <1>0, <1>13, <2>2 DEF Tick, CapAt, TypeOK
  <2>4. tenure' \in Nat /\ tenure \in Nat /\ age' \in Nat /\ age \in Nat
    BY <1>0 DEF TypeOK
  <2>5. since'[i] = since[i] + 1
    BY <1>0, <1>13, <2>2 DEF Tick, TypeOK
  <2>6. \A k \in Instance : renewing[k] => rwait'[k] = rwait[k] + 1
    BY <1>13 DEF Tick
  <2>7. \A h \in Job : pc[h] \in InFlight => wait'[h] = wait[h] + 1
    BY <1>13 DEF Tick
  <2>8. AgeBound(i)'
    <3>1. UNCHANGED renewing
      BY <1>13 DEF Tick
    <3>. QED
      BY <1>0, <2>1, <2>3, <2>4, <2>5, <2>6, <3>1 DEF AgeBound, TypeOK
  <2>9. ForeignWritesOlder(i)'
    <3>1. UNCHANGED <<renewing, pc>>
      BY <1>13 DEF Tick
    <3>. QED
      BY <1>0, <2>1, <2>3, <2>4, <2>6, <2>7, <3>1
         DEF ForeignWritesOlder, TypeOK
  <2>. QED
    BY <2>8, <2>9
<1>14. CASE UNCHANGED vars
  BY <1>14, QuietLeased DEF vars, lockVars, jobVars, timerVars, Leased
<1>. QED
  BY <1>1, <1>2, <1>3, <1>4, <1>5, <1>6, <1>7, <1>8, <1>9, <1>10, <1>11,
     <1>12, <1>13, <1>14 DEF Next, JobStep, InstanceStep

-----------------------------------------------------------------------------
\* TypeOK and LeaseInv together are inductive.
LEMMA LeaseInvariant == Spec => []IInv
<1>1. Init => IInv
  <2>. SUFFICES ASSUME Init PROVE IInv
    OBVIOUS
  <2>1. TypeOK
    BY TimingAssumption DEF Init, TypeOK
  <2>2. LeaseInv
    BY NoneAssumption DEF Init, LeaseInv, Leased
  <2>. QED
    BY <2>1, <2>2 DEF IInv
<1>2. IInv /\ [Next]_vars => IInv'
  BY TypeStep, LeaseStep DEF IInv
<1>. QED
  BY <1>1, <1>2, PTL DEF Spec

(***************************************************************************)
(* Every variable keeps its type (lock.ts, whole class).                   *)
(***************************************************************************)
THEOREM TypeCorrect == Spec => []TypeOK
<1>1. IInv => TypeOK
  BY DEF IInv
<1>. QED
  BY <1>1, LeaseInvariant, PTL

(***************************************************************************)
(* A record that its owner's timer renews is never old enough to be taken  *)
(* over or dropped (lock.ts:5, 45-50, 59-71).                              *)
(***************************************************************************)
THEOREM RenewalInTime == Spec => []RenewedLockFresh
<1>1. IInv => RenewedLockFresh
  BY LeasedFresh DEF RenewedLockFresh
<1>. QED
  BY <1>1, LeaseInvariant, PTL

\* While a lease is settled no write of another process is in flight.
LEMMA SettledAlone ==
  ASSUME IInv, NEW i \in Instance, Settled(i)
  PROVE  /\ \A j \in Job : Host[j] # i => pc[j] \notin InFlight
         /\ \A k \in Instance : k # i => ~renewing[k]
<1>1. ForeignWritesOlder(i) /\ tenure > Latency /\ tenure \in Nat
  BY TimingAssumption DEF IInv, LeaseInv, Settled, TypeOK
<1>. QED
  BY <1>1, TimingAssumption DEF ForeignWritesOlder, IInv, TypeOK

(***************************************************************************)
(* A settled lease leaves its owner only by the owner's release            *)
(* (lock.ts:37-43, 61-71, 95-105).                                         *)
(***************************************************************************)
THEOREM LeaseIsKept == Spec => SettledLeaseKept
<1>1. IInv /\ [Next]_vars => [LeaseKept]_vars
  <2> SUFFICES ASSUME IInv, [Next]_vars, NEW i \in Instance, Settled(i),
                      owner' # i
               PROVE  \E j \in Job : Host[j] = i /\ pc[j] = "deleting"
    BY DEF LeaseKept
  <2>1. owner = i /\ age < EventLockTTL /\ age \in Nat
    BY LeasedFresh, TimingAssumption DEF Settled, Leased, IInv, TypeOK
  <2>2. ASSUME NEW j \in Job, JobStep(j)
        PROVE  Host[j] = i /\ pc[j] = "deleting"
    <3>1. pc[j] \in InFlight => Host[j] = i
      BY SettledAlone
    <3>2. ~AcquireWrite(j) /\ ~AcquireFails(j)
      BY <2>1, <3>1 DEF AcquireWrite, AcquireFails, Put, InFlight, lockVars
    <3>3. ~AcquireRead(j) /\ ~ReleaseRead(j) /\ ~ReleaseFails(j) /\ ~Abandon(j)
      BY <2>1 DEF AcquireRead, ReleaseRead, ReleaseFails, Abandon, lockVars
    <3>4. ReleaseDelete(j)
      BY <2>2, <3>2, <3>3 DEF JobStep
    <3>. QED
      BY <3>1, <3>4 DEF ReleaseDelete, InFlight
  <2>3. ASSUME NEW k \in Instance, InstanceStep(k) PROVE FALSE
    <3>1. renewing[k] => k = i
      BY SettledAlone
    <3>. QED
      BY <2>1, <2>3, <3>1
         DEF InstanceStep, RenewRead, RenewWrite, RenewFails, RenewDone, Crash,
             Put, lockVars
  <2>4. ~Sweep
    BY <2>1, TimingAssumption DEF Sweep
  <2>5. ~Tick /\ ~UNCHANGED vars
    BY <2>1 DEF Tick, vars, lockVars
  <2>. QED
    BY <2>2, <2>3, <2>4, <2>5 DEF Next
<1>. QED
  BY <1>1, LeaseInvariant, PTL DEF Spec, SettledLeaseKept

(***************************************************************************)
(* While one process holds a settled lease, acquire returns true in no     *)
(* other process (lock.ts:35-52).                                          *)
(***************************************************************************)
THEOREM LeaseIsExclusive == Spec => SettledLeaseExcludes
<1>1. IInv /\ [Next]_vars => [LeaseExcludes]_vars
  <2> SUFFICES ASSUME IInv, [Next]_vars, NEW i \in Instance, NEW j \in Job,
                      Settled(i), Host[j] # i, pc[j] # "working",
                      pc'[j] = "working"
               PROVE  FALSE
    BY DEF LeaseExcludes
  <2>0. TypeOK
    BY DEF IInv
  <2>1. owner = i /\ age < EventLockTTL /\ age \in Nat
    BY LeasedFresh, TimingAssumption DEF Settled, Leased, IInv, TypeOK
  <2>2. pc[j] \notin InFlight
    BY SettledAlone
  <2>3. ASSUME NEW h \in Job, JobStep(h) PROVE FALSE
    <3>1. CASE h # j
      BY <2>0, <2>3, <3>1
         DEF JobStep, AcquireRead, AcquireWrite, AcquireFails, ReleaseRead,
             ReleaseDelete, ReleaseFails, Abandon, SetJob, TypeOK
    <3>2. CASE h = j
      <4>1. AcquireRead(j)
        BY <2>0, <2>2, <2>3, <3>2
           DEF JobStep, AcquireWrite, AcquireFails, ReleaseRead,
               ReleaseDelete, ReleaseFails, Abandon, SetJob, TypeOK, InFlight
      <4>2. SetJob(j, "adding")
        BY <2>1, <4>1 DEF AcquireRead
      <4>. QED
        BY <2>0, <4>2 DEF SetJob, TypeOK
    <3>. QED
      BY <3>1, <3>2
  <2>4. ASSUME NEW k \in Instance, InstanceStep(k) PROVE FALSE
    BY <2>0, <2>4
       DEF InstanceStep, RenewRead, RenewWrite, RenewFails, RenewDone, Crash,
           jobVars, TypeOK
  <2>5. ~Sweep /\ ~Tick /\ ~UNCHANGED vars
    BY DEF Sweep, Tick, vars, jobVars
  <2>. QED
    BY <2>3, <2>4, <2>5 DEF Next
<1>. QED
  BY <1>1, LeaseInvariant, PTL DEF Spec, SettledLeaseExcludes

-----------------------------------------------------------------------------
(* The sync with Google.                                                   *)
Kind(st) == IF st.in = "users" THEN User ELSE Group

\* What a sync has in hand where it is.
Fits(st) ==
  /\ st.at \in {"idle", "acquire"} => st.in = "users" /\ st.seen = {}
  /\ st.in = "users" => st.seen \subseteq User
  /\ st.at \in {"compare", "post", "put"} => st.item \in st.seen \cap Kind(st) /\ st.name \in Label
  /\ st.at \in {"members", "theirs", "remove", "add"} => st.in = "groups"
  /\ st.at \in {"theirs", "remove", "add"} => st.item \in st.seen \cap Group
  /\ st.at # "drop" => st.doomed = {}

\* Who comes before the last one fetched and was not fetched, or when all are
\* fetched, is gone; nobody else is deleted.
Passes(st, gone) ==
  /\ \A x \in Kind(st) \ st.seen :
       st.at \in {"list", "drop"} \/ (\E y \in st.seen \cap Kind(st) : Rank[x] <= Rank[y])
         => x \in gone
  /\ st.doomed \subseteq Kind(st) \ st.seen

MissingNow == {x \in Item : google.label[x] = None}

GoogleInv ==
  /\ GoogleTypeOK
  /\ \A m \in google.member : google.label[m[1]] # None
  /\ \A s \in Sync : Fits(sync[s]) /\ Passes(sync[s], absent[s])
  /\ \A s \in Working : MissingNow \subseteq absent[s]

-----------------------------------------------------------------------------
\* A set of numbers has a least one.
LEMMA Least == ASSUME NEW T \in SUBSET Nat, T # {} PROVE \E m \in T : \A k \in T : m <= k
<1>1. IsWellFoundedOn(OpToRel(<, Nat), Nat)
  BY NatLessThanWellFounded
<1>2. PICK m \in T : \A k \in T : <<k, m>> \notin OpToRel(<, Nat)
  BY <1>1, WFMin
<1>3. \A k \in T : ~(k < m)
  BY <1>2, Zenon DEF OpToRel
<1>. QED
  BY <1>3

\* The next item is the first of those ahead.
LEMMA NextIsFirst ==
  ASSUME GoogleAssumption, NEW s \in Sync, Ahead(s) # {}
  PROVE  Next1(s) \in Ahead(s) /\ \A y \in Ahead(s) : Rank[Next1(s)] <= Rank[y]
<1>. DEFINE ranks == {Rank[x] : x \in Ahead(s)}
<1>1. \A x \in Ahead(s) : Rank[x] \in Nat
  BY DEF GoogleAssumption, Ahead, OfKind, Item
<1>2. ranks \in SUBSET Nat /\ ranks # {}
  BY <1>1, Zenon
<1>3. PICK n \in ranks : \A k \in ranks : n <= k
  <2>. HIDE DEF ranks
  <2>. QED
    BY <1>2, Least
<1>4. \E x \in Ahead(s) : \A y \in Ahead(s) : Rank[x] <= Rank[y]
  BY <1>3, Zenon
<1>. QED
  BY <1>4, Zenon DEF Next1

\* Who is ahead of a sync, and who is not.
LEMMA AheadIs ==
  ASSUME GoogleAssumption, NEW s \in Sync, GoogleInv
  PROVE  /\ Ahead(s) \subseteq Kind(sync[s]) \ sync[s].seen
         /\ \A x \in Ahead(s) : google.label[x] \in Label
         /\ sync[s].at \notin {"idle", "acquire"} =>
              \A x \in Kind(sync[s]) \ sync[s].seen : x \notin Ahead(s) => x \in absent[s]
<1>. DEFINE st == sync[s]
<1>1. /\ OfKind(s) = Kind(st) /\ Kind(st) \subseteq Item
      /\ google.label \in [Item -> Label \cup {None}]
  BY DEF OfKind, Kind, Item, GoogleInv, GoogleTypeOK, Contents
<1>2. \A x \in Item : Rank[x] \in Nat
  BY DEF GoogleAssumption
<1>3. \A x \in Kind(st) \cap st.seen : x \notin Ahead(s)
  BY <1>1, <1>2 DEF Ahead
<1>4. ASSUME NEW x \in Kind(st) \ st.seen, x \notin Ahead(s), s \in Working PROVE x \in absent[s]
  <2>1. CASE google.label[x] = None
    BY <1>1, <1>4, <2>1 DEF GoogleInv, MissingNow
  <2>2. CASE google.label[x] # None
    <3>1. PICK y \in st.seen \cap Kind(st) : ~(Rank[y] < Rank[x])
      BY <1>1, <1>4, <2>2 DEF Ahead
    <3>2. Rank[x] <= Rank[y]
      BY <1>1, <1>2, <3>1
    <3>. QED
      BY <1>4, <3>1, <3>2 DEF GoogleInv, Passes
  <2>. QED
    BY <2>1, <2>2
<1>5. \A x \in Ahead(s) : google.label[x] \in Label
  BY <1>1 DEF Ahead
<1>. QED
  BY <1>1, <1>3, <1>4, <1>5 DEF Ahead, Working

-----------------------------------------------------------------------------
SameLabels(X, held, labels) == \A x \in X : labels[x] = held.label[x]
SameMembers(g, held, m) == \A u \in User : <<g, u>> \in m <=> <<g, u>> \in held.member

\* How far the labels, and the members, of the store are what Google holds.
LabelsDone(st, held, labels) ==
  /\ st.in = "groups" => SameLabels(User, held, labels)
  /\ st.at \in {"fetch", "list", "drop"} => SameLabels(st.seen \cap Kind(st), held, labels)
  /\ st.at \in {"compare", "post", "put"} =>
       /\ SameLabels((st.seen \cap Kind(st)) \ {st.item}, held, labels)
       /\ st.name = held.label[st.item]
  /\ st.at = "put" => labels[st.item] # None
  /\ st.at = "drop" => \A x \in Kind(st) \ st.seen : labels[x] = None \/ x \in st.doomed
  /\ st.at \in {"members", "theirs", "remove", "add", "release"} => SameLabels(Item, held, labels)

MembersDone(st, held, m) ==
  /\ st.at = "members" => \A g \in st.seen \cap Group : SameMembers(g, held, m)
  /\ st.at \in {"theirs", "remove", "add"} =>
       /\ \A g \in (st.seen \cap Group) \ {st.item} : SameMembers(g, held, m)
       /\ held.label[st.item] # None
  /\ st.at \in {"theirs", "remove"} => \A u \in User : u \in st.mine <=> <<st.item, u>> \in m
  /\ st.at \in {"remove", "add"} =>
       \A u \in User : u \in st.theirs <=> <<st.item, u>> \in held.member
  /\ st.at = "add" => \A u \in User : <<st.item, u>> \in m <=> u \in st.mine \cap st.theirs
  /\ st.at = "release" => m = held.member

CleanInv ==
  \A s \in Working : clean[s] =>
    /\ Working = {s} /\ absent[s] = MissingNow
    /\ LabelsDone(sync[s], google, label) /\ MembersDone(sync[s], google, member)
-----------------------------------------------------------------------------
LEMMA GoogleInitInv == GoogleAssumption /\ GoogleInit => GoogleInv
<1> SUFFICES ASSUME GoogleAssumption, GoogleInit PROVE GoogleInv
  OBVIOUS
<1>1. Idle \in SyncState /\ Fits(Idle) /\ Passes(Idle, {})
  BY DEF Idle, SyncState, Phase, Fits, Passes, Kind
<1>2. GoogleTypeOK
  BY <1>1 DEF GoogleInit, GoogleTypeOK, GoogleAssumption, Contents
<1>3. Working = {}
  BY DEF GoogleInit, Working, Idle
<1>4. \A m \in google.member : google.label[m[1]] # None
  BY DEF GoogleInit, Sound
<1>. QED
  BY <1>1, <1>2, <1>3, <1>4 DEF GoogleInit, GoogleInv

\* The store is typed, its entries and members are of items that it has.
StoreIs(labels, entries, members) ==
  /\ labels \in [Item -> Label \cup {None}]
  /\ entries \subseteq Label \X Item /\ members \subseteq Group \X User
  /\ \A e \in entries : labels[e[2]] # None
  /\ \A m \in members : labels[m[1]] # None

\* A step of one sync that neither begins nor sees a change of Google.
LEMMA SyncMoves ==
  ASSUME GoogleAssumption, GoogleInv, NEW s \in Sync, NEW st \in SyncState, Move(s, st),
         Fits(st), Passes(st, absent[s]),
         s \in Working \/ st.at \in {"idle", "acquire"},
         StoreIs(label', entry', member'), lock' \in Process \cup {None, "gone"},
         running' \in [Process -> BOOLEAN], faults' \in 0..MaxFaults,
         clean' \in [Sync -> BOOLEAN], UNCHANGED <<google, changes, absent>>
  PROVE  GoogleInv'
<1>1. sync \in [Sync -> SyncState] /\ sync' = [sync EXCEPT ![s] = st]
  BY DEF Move, GoogleInv, GoogleTypeOK
<1>2. GoogleTypeOK'
  BY <1>1 DEF GoogleInv, GoogleTypeOK, StoreIs
<1>3. \A r \in Sync : Fits(sync'[r]) /\ Passes(sync'[r], absent'[r])
  BY <1>1 DEF GoogleInv
<1>4. Working' \subseteq Working
  BY <1>1 DEF Working
<1>5. MissingNow' = MissingNow
  BY DEF MissingNow
<1>. QED
  BY <1>2, <1>3, <1>4, <1>5 DEF GoogleInv

\* The same when the store, the lock and the rest stay as they are.
LEMMA SyncReads ==
  ASSUME GoogleAssumption, GoogleInv, NEW s \in Sync, NEW st \in SyncState, Move(s, st),
         Fits(st), Passes(st, absent[s]),
         s \in Working \/ st.at \in {"idle", "acquire"}, Ask
  PROVE  GoogleInv'
<1>1. /\ StoreIs(label', entry', member') /\ lock' \in Process \cup {None, "gone"}
      /\ running' \in [Process -> BOOLEAN] /\ faults' \in 0..MaxFaults
      /\ clean' \in [Sync -> BOOLEAN] /\ UNCHANGED <<google, changes, absent>>
  BY DEF Ask, store, StoreIs, GoogleInv, GoogleTypeOK
<1>. QED
  BY <1>1, SyncMoves

\* What the steps of a sync start from.
LEMMA SyncIs ==
  ASSUME GoogleInv, NEW s \in Sync
  PROVE  /\ sync[s] \in SyncState /\ Fits(sync[s]) /\ Passes(sync[s], absent[s])
         /\ OfKind(s) = Kind(sync[s]) /\ Kind(sync[s]) \subseteq Item
         /\ StoreIs(label, entry, member) /\ absent[s] \subseteq Item
         /\ lock \in Process \cup {None, "gone"} /\ running \in [Process -> BOOLEAN]
         /\ changes \in 0..MaxChanges /\ faults \in 0..MaxFaults
         /\ clean \in [Sync -> BOOLEAN]
         /\ sync[s].at \notin {"idle", "acquire"} => s \in Working
BY DEF GoogleInv, GoogleTypeOK, StoreIs, OfKind, Kind, Item, Working

LEMMA StartStep ==
  ASSUME GoogleAssumption, GoogleInv, NEW s \in Sync, StartSync(s)
  PROVE  GoogleInv'
<1>. DEFINE st == [sync[s] EXCEPT !.at = "acquire"]
<1>1. Move(s, st) /\ Ask /\ sync[s].at = "idle"
  BY DEF StartSync, Goto
<1>2. st \in SyncState /\ Fits(st) /\ Passes(st, absent[s]) /\ st.at = "acquire"
  BY <1>1, SyncIs DEF SyncState, Phase, Fits, Passes, Kind
<1>. HIDE DEF st
<1>. QED
  BY <1>1, <1>2, SyncReads

LEMMA AcquireStep ==
  ASSUME GoogleAssumption, GoogleInv, NEW s \in Sync, Acquire(s)
  PROVE  GoogleInv'
<1>1. sync[s].at = "acquire" /\ sync[s].in = "users" /\ sync[s].seen = {} /\ sync[s].doomed = {}
  BY SyncIs DEF Acquire, Fits
<1>2. CASE lock \in {None, HostOf[s]}
  <2>. DEFINE st == [sync[s] EXCEPT !.at = "fetch"]
  <2>1. /\ lock' = HostOf[s] /\ running' = [running EXCEPT ![HostOf[s]] = TRUE]
        /\ sync' = [sync EXCEPT ![s] = st]
        /\ absent' = [absent EXCEPT ![s] = MissingNow]
        /\ clean' = [r \in Sync |-> IF r = s THEN Working = {} ELSE clean[r] /\ r \notin Working]
        /\ UNCHANGED <<google, store, changes, faults>>
    BY <1>2 DEF Acquire, Goto, Move, MissingNow
  <2>2. st \in SyncState /\ Fits(st) /\ Passes(st, MissingNow) /\ MissingNow \in SUBSET Item
    BY <1>1, SyncIs DEF SyncState, Phase, Fits, Passes, Kind, MissingNow
  <2>. HIDE DEF st
  <2>3. clean' \in [Sync -> BOOLEAN]
    <3>1. \A r \in Sync : clean[r] \in BOOLEAN
      BY DEF GoogleInv, GoogleTypeOK
    <3>. QED
      BY <2>1, <3>1, Zenon
  <2>4. HostOf[s] \in Process
    BY DEF GoogleAssumption
  <2>5. GoogleTypeOK'
    BY <2>1, <2>2, <2>3, <2>4 DEF GoogleInv, GoogleTypeOK, store
  <2>6. \A r \in Sync : Fits(sync'[r]) /\ Passes(sync'[r], absent'[r])
    BY <2>1, <2>2 DEF GoogleInv, GoogleTypeOK
  <2>7. \A r \in Working' : MissingNow' \subseteq absent'[r]
    <3>1. Working' \subseteq Working \cup {s} /\ MissingNow' = MissingNow
      BY <2>1 DEF Working, MissingNow, GoogleInv, GoogleTypeOK
    <3>. QED
      BY <2>1, <3>1 DEF GoogleInv, GoogleTypeOK, Working
  <2>. QED
    BY <2>1, <2>5, <2>6, <2>7 DEF GoogleInv
<1>3. CASE lock \notin {None, HostOf[s]}
  <2>. DEFINE st == [sync[s] EXCEPT !.at = "idle"]
  <2>1. Move(s, st) /\ Ask
    BY <1>3 DEF Acquire, Goto, Ask
  <2>2. st \in SyncState /\ Fits(st) /\ Passes(st, absent[s]) /\ st.at = "idle"
    BY <1>1, SyncIs DEF SyncState, Phase, Fits, Passes, Kind
  <2>. HIDE DEF st
  <2>. QED
    BY <2>1, <2>2, SyncReads
<1>. QED
  BY <1>2, <1>3

LEMMA FetchStep ==
  ASSUME GoogleAssumption, GoogleInv, NEW s \in Sync, Fetch(s)
  PROVE  GoogleInv'
<1>1. sync[s].at = "fetch" /\ Ask /\ s \in Working /\ sync[s].doomed = {}
  BY SyncIs DEF Fetch, Fits
<1>2. CASE Ahead(s) = {}
  <2>. DEFINE st == [sync[s] EXCEPT !.at = "list"]
  <2>1. Move(s, st)
    BY <1>2 DEF Fetch, Goto
  <2>2. st \in SyncState /\ Fits(st)
    BY <1>1, SyncIs DEF SyncState, Phase, Fits, Kind
  <2>3. Passes(st, absent[s])
    BY <1>1, <1>2, SyncIs, AheadIs DEF SyncState, Passes, Kind
  <2>. HIDE DEF st
  <2>. QED
    BY <1>1, <2>1, <2>2, <2>3, SyncReads
<1>3. CASE Ahead(s) # {}
  <2>. DEFINE next == Next1(s)
              st == [sync[s] EXCEPT !.at = "compare", !.item = next, !.name = google.label[next],
                                    !.seen = @ \cup {next}]
  <2>1. Move(s, st)
    BY <1>3 DEF Fetch
  <2>2. /\ next \in Kind(sync[s]) \ sync[s].seen /\ google.label[next] \in Label
        /\ \A y \in Ahead(s) : Rank[next] <= Rank[y]
    BY <1>3, NextIsFirst, AheadIs
  <2>3. /\ next \in Item
        /\ \A x \in Kind(sync[s]) \ (sync[s].seen \cup {next}) : Rank[x] <= Rank[next] => x \in absent[s]
    <3>1. /\ next \in Item
          /\ \A x, y \in Item : Rank[x] \in Nat /\ (Rank[x] = Rank[y] => x = y)
      BY <2>2, SyncIs DEF GoogleAssumption
    <3>. QED
      BY <1>1, <2>2, <3>1, SyncIs, AheadIs
  <2>. HIDE DEF next
  <2>4. st \in SyncState /\ Fits(st)
    BY <1>1, <2>2, <2>3, SyncIs DEF SyncState, Phase, Fits, Kind
  <2>5. Passes(st, absent[s])
    <3>1. /\ st.seen = sync[s].seen \cup {next} /\ Kind(st) = Kind(sync[s]) /\ st.at = "compare"
          /\ st.doomed = {}
      BY <1>1, SyncIs DEF SyncState, Kind
    <3>. HIDE DEF st
    <3>. QED
      BY <2>2, <2>3, <3>1, SyncIs DEF Passes
  <2>. HIDE DEF st
  <2>. QED
    BY <1>1, <2>1, <2>4, <2>5, SyncReads
<1>. QED
  BY <1>2, <1>3

\* A phase of the same kind of items goes before another.
LEMMA GoesOn ==
  ASSUME NEW st \in SyncState, NEW gone, NEW phase \in Phase, Fits(st), Passes(st, gone),
         st.doomed = {}, st.at \notin {"idle", "acquire", "drop"},
         phase \in {"fetch", "post", "put", "list", "remove", "add", "members", "release"},
         phase = "list" => st.at = "list",
         phase \in {"post", "put"} => st.at = "compare",
         phase = "members" => st.at = "add",
         phase \in {"remove", "add"} => st.at \in {"theirs", "remove"}
  PROVE  LET new == [st EXCEPT !.at = phase]
         IN new \in SyncState /\ Fits(new) /\ Passes(new, gone)
BY DEF SyncState, Fits, Passes, Kind

LEMMA CompareStep ==
  ASSUME GoogleAssumption, GoogleInv, NEW s \in Sync, Compare(s)
  PROVE  GoogleInv'
<1>1. sync[s].at = "compare" /\ Ask /\ s \in Working /\ sync[s].doomed = {}
  BY SyncIs DEF Compare, Fits
<1>2. PICK phase \in {"fetch", "post", "put"} : Move(s, [sync[s] EXCEPT !.at = phase])
  BY DEF Compare, Goto
<1>. DEFINE st == [sync[s] EXCEPT !.at = phase]
<1>3. st \in SyncState /\ Fits(st) /\ Passes(st, absent[s])
  BY <1>1, SyncIs, GoesOn DEF Phase
<1>4. Move(s, st)
  BY <1>2
<1>. HIDE DEF st
<1>. QED
  BY <1>1, <1>3, <1>4, SyncReads

LEMMA PostStep ==
  ASSUME GoogleAssumption, GoogleInv, NEW s \in Sync, Post(s)
  PROVE  GoogleInv'
<1>. DEFINE item == sync[s].item
            l == sync[s].name
            st == [sync[s] EXCEPT !.at = "fetch"]
<1>1. /\ sync[s].at = "post" /\ Move(s, st) /\ s \in Working /\ sync[s].doomed = {}
      /\ item \in Item /\ l \in Label
      /\ UNCHANGED <<google, lock, running, changes, faults, absent>>
  BY SyncIs DEF Post, Goto, Fits
<1>2. st \in SyncState /\ Fits(st) /\ Passes(st, absent[s])
  BY <1>1, SyncIs, GoesOn DEF Phase
<1>3. clean' \in [Sync -> BOOLEAN]
  BY SyncIs DEF Post
<1>4. StoreIs(label', entry', member')
  <2>1. CASE UNCHANGED store
    BY <2>1, SyncIs DEF store
  <2>2. CASE /\ label' = [label EXCEPT ![item] = l] /\ entry' = entry \cup {<<l, item>>}
             /\ UNCHANGED member
    <3>1. l # None
      BY <1>1 DEF GoogleAssumption
    <3>2. /\ label \in [Item -> Label \cup {None}] /\ entry \subseteq Label \X Item
          /\ member \subseteq Group \X User
          /\ \A e \in entry : label[e[2]] # None
          /\ \A m \in member : label[m[1]] # None
      BY SyncIs DEF StoreIs
    <3>3. item \in Item /\ l \in Label
      BY <1>1
    <3>. HIDE DEF item, l
    <3>4. \A x \in Item : label[x] # None => label'[x] # None
      BY <2>2, <3>1, <3>2, <3>3
    <3>5. label'[item] # None /\ label' \in [Item -> Label \cup {None}]
      BY <2>2, <3>1, <3>2, <3>3
    <3>6. \A e \in entry' : e \in Label \X Item /\ label'[e[2]] # None
      BY <2>2, <3>2, <3>3, <3>4, <3>5
    <3>7. \A m \in member' : label'[m[1]] # None
      BY <2>2, <3>2, <3>4 DEF Item
    <3>. QED
      BY <2>2, <3>2, <3>5, <3>6, <3>7 DEF StoreIs
  <2>. QED
    BY <2>1, <2>2 DEF Post
<1>. HIDE DEF st
<1>. QED
  BY <1>1, <1>2, <1>3, <1>4, SyncIs, SyncMoves

LEMMA PutItemStep ==
  ASSUME GoogleAssumption, GoogleInv, NEW s \in Sync, PutItem(s)
  PROVE  GoogleInv'
<1>. DEFINE item == sync[s].item
            l == sync[s].name
            st == [sync[s] EXCEPT !.at = "fetch"]
<1>1. /\ sync[s].at = "put" /\ Move(s, st) /\ s \in Working /\ sync[s].doomed = {}
      /\ item \in Item /\ l \in Label
      /\ label' = IF label[item] = None THEN label ELSE [label EXCEPT ![item] = l]
      /\ UNCHANGED <<google, entry, member, lock, running, changes, faults, absent, clean>>
  BY SyncIs DEF PutItem, Goto, Fits
<1>2. st \in SyncState /\ Fits(st) /\ Passes(st, absent[s])
  BY <1>1, SyncIs, GoesOn DEF Phase
<1>3. StoreIs(label', entry', member')
  <2>1. l # None
    BY <1>1 DEF GoogleAssumption
  <2>. HIDE DEF item, l
  <2>. QED
    BY <1>1, <2>1, SyncIs DEF StoreIs, Item
<1>. HIDE DEF st
<1>. QED
  BY <1>1, <1>2, <1>3, SyncIs, SyncMoves

LEMMA ListStep ==
  ASSUME GoogleAssumption, GoogleInv, NEW s \in Sync, List(s)
  PROVE  GoogleInv'
<1>1. PICK page \in SUBSET OfKind(s) :
        Move(s, [sync[s] EXCEPT !.at = "drop", !.doomed = page \ sync[s].seen])
  BY DEF List
<1>. DEFINE st == [sync[s] EXCEPT !.at = "drop", !.doomed = page \ sync[s].seen]
<1>2. sync[s].at = "list" /\ Ask /\ s \in Working
  BY SyncIs DEF List
<1>. DEFINE d == page \ sync[s].seen
<1>3. d \subseteq Kind(sync[s]) \ sync[s].seen /\ d \in SUBSET Item
  BY SyncIs
<1>4. Move(s, st)
  BY <1>1
<1>. HIDE DEF d
<1>5. /\ st \in SyncState /\ st.at = "drop" /\ st.in = sync[s].in /\ st.seen = sync[s].seen
      /\ st.doomed = d
  BY <1>2, <1>3, SyncIs DEF SyncState, Phase, d
<1>. HIDE DEF st
<1>6. Fits(st) /\ Passes(st, absent[s])
  BY <1>2, <1>3, <1>5, SyncIs DEF Fits, Passes, Kind
<1>. QED
  BY <1>2, <1>4, <1>5, <1>6, SyncReads

\* Fewer remain to be deleted.
LEMMA FewerDoomed ==
  ASSUME GoogleInv, NEW s \in Sync, sync[s].at = "drop", NEW x \in sync[s].doomed
  PROVE  LET st == [sync[s] EXCEPT !.doomed = @ \ {x}]
         IN st \in SyncState /\ Fits(st) /\ Passes(st, absent[s])
BY SyncIs DEF SyncState, Fits, Passes, Kind

LEMMA DropStep ==
  ASSUME GoogleAssumption, GoogleInv, NEW s \in Sync, Drop(s)
  PROVE  GoogleInv'
<1>1. PICK x \in sync[s].doomed :
        /\ label' = [label EXCEPT ![x] = None]
        /\ entry' = {e \in entry : e[2] # x}
        /\ member' = {m \in member : m[1] # x}
        /\ Move(s, [sync[s] EXCEPT !.doomed = @ \ {x}])
  BY DEF Drop
<1>. DEFINE st == [sync[s] EXCEPT !.doomed = @ \ {x}]
<1>2. sync[s].at = "drop" /\ s \in Working /\ x \in Item
      /\ UNCHANGED <<google, lock, running, changes, faults, absent, clean>>
  BY SyncIs DEF Drop, SyncState
<1>3. st \in SyncState /\ Fits(st) /\ Passes(st, absent[s]) /\ Move(s, st)
  BY <1>1, <1>2, FewerDoomed
<1>4. StoreIs(label', entry', member')
  <2>1. label' \in [Item -> Label \cup {None}]
    BY <1>1, SyncIs DEF StoreIs
  <2>2. ASSUME NEW e \in entry' PROVE label'[e[2]] # None
    BY <1>1, <2>2, SyncIs DEF StoreIs
  <2>3. ASSUME NEW m \in member' PROVE label'[m[1]] # None
    BY <1>1, <2>3, SyncIs DEF StoreIs, Item
  <2>. QED
    BY <1>1, <2>1, <2>2, <2>3, SyncIs DEF StoreIs
<1>. HIDE DEF st
<1>. QED
  BY <1>2, <1>3, <1>4, SyncIs, SyncMoves

LEMMA DroppedStep ==
  ASSUME GoogleAssumption, GoogleInv, NEW s \in Sync, Dropped(s)
  PROVE  GoogleInv'
<1>. DEFINE st == IF sync[s].in = "users"
                  THEN [sync[s] EXCEPT !.in = "groups", !.at = "fetch"]
                  ELSE [sync[s] EXCEPT !.at = "members", !.seen = @ \ Group]
<1>1. sync[s].at = "drop" /\ sync[s].doomed = {} /\ Ask /\ s \in Working /\ Move(s, st)
  BY SyncIs DEF Dropped
<1>2. User \cap Group = {}
  BY DEF GoogleAssumption
<1>3. st \in SyncState /\ Fits(st) /\ Passes(st, absent[s])
  <2>1. /\ st \in SyncState /\ st.in = "groups" /\ st.at \in {"fetch", "members"}
        /\ st.seen \cap Group = {} /\ st.doomed = {}
    <3>1. CASE sync[s].in = "users"
      BY <1>1, <1>2, <3>1, SyncIs DEF SyncState, Phase, Fits
    <3>2. CASE sync[s].in = "groups"
      BY <1>1, <3>2, SyncIs DEF SyncState, Phase
    <3>. QED
      BY <3>1, <3>2, SyncIs DEF SyncState
  <2>. HIDE DEF st
  <2>. QED
    BY <2>1 DEF Fits, Passes, Kind
<1>. HIDE DEF st
<1>. QED
  BY <1>1, <1>3, SyncReads

LEMMA MembersStep ==
  ASSUME GoogleAssumption, GoogleInv, NEW s \in Sync, Members(s)
  PROVE  GoogleInv'
<1>1. /\ sync[s].at = "members" /\ sync[s].in = "groups" /\ Ask /\ s \in Working
      /\ sync[s].doomed = {}
  BY SyncIs DEF Members, Fits
<1>2. CASE Ahead(s) = {}
  <2>. DEFINE st == [sync[s] EXCEPT !.at = "release"]
  <2>1. Move(s, st)
    BY <1>2 DEF Members, Goto
  <2>2. st \in SyncState /\ Fits(st) /\ Passes(st, absent[s])
    BY <1>1, SyncIs, GoesOn DEF Phase
  <2>. HIDE DEF st
  <2>. QED
    BY <1>1, <2>1, <2>2, SyncReads
<1>3. CASE Ahead(s) # {}
  <2>. DEFINE g == Next1(s)
  <2>1. PICK page \in SUBSET User :
          Move(s, [sync[s] EXCEPT !.at = "theirs", !.item = g, !.mine = page, !.seen = @ \cup {g}])
    BY <1>3 DEF Members
  <2>. DEFINE st == [sync[s] EXCEPT !.at = "theirs", !.item = g, !.mine = page, !.seen = @ \cup {g}]
  <2>2. g \in Kind(sync[s]) \ sync[s].seen /\ \A y \in Ahead(s) : Rank[g] <= Rank[y]
    BY <1>3, NextIsFirst, AheadIs
  <2>3. \A x \in Kind(sync[s]) \ (sync[s].seen \cup {g}) : Rank[x] <= Rank[g] => x \in absent[s]
    <3>1. g \in Item /\ \A x, y \in Item : Rank[x] \in Nat /\ (Rank[x] = Rank[y] => x = y)
      BY <2>2, SyncIs DEF GoogleAssumption
    <3>. QED
      BY <1>1, <2>2, <3>1, SyncIs, AheadIs
  <2>4. g \in Item /\ g \in Group
    BY <1>1, <2>2, SyncIs DEF Kind
  <2>. HIDE DEF g
  <2>5. st \in SyncState /\ Fits(st)
    BY <1>1, <2>2, <2>4, SyncIs DEF SyncState, Phase, Fits, Kind
  <2>6. Passes(st, absent[s])
    <3>1. /\ st.seen = sync[s].seen \cup {g} /\ Kind(st) = Kind(sync[s]) /\ st.at = "theirs"
          /\ st.doomed = {}
      BY <1>1, SyncIs DEF SyncState, Kind
    <3>. HIDE DEF st
    <3>. QED
      BY <2>2, <2>3, <3>1, SyncIs DEF Passes
  <2>7. Move(s, st)
    BY <2>1
  <2>. HIDE DEF st
  <2>. QED
    BY <1>1, <2>5, <2>6, <2>7, SyncReads
<1>. QED
  BY <1>2, <1>3

LEMMA TheirsStep ==
  ASSUME GoogleAssumption, GoogleInv, NEW s \in Sync, Theirs(s)
  PROVE  GoogleInv'
<1>. DEFINE has == {u \in User : <<sync[s].item, u>> \in google.member}
            st == [sync[s] EXCEPT !.at = "remove", !.theirs = has]
<1>1. sync[s].at = "theirs" /\ sync[s].doomed = {} /\ Ask /\ s \in Working /\ Move(s, st)
  BY SyncIs DEF Theirs, Fits
<1>2. st \in SyncState /\ Fits(st) /\ Passes(st, absent[s])
  <2>1. has \in SUBSET User
    OBVIOUS
  <2>. HIDE DEF has
  <2>. QED
    BY <1>1, <2>1, SyncIs DEF SyncState, Phase, Fits, Passes, Kind
<1>. HIDE DEF st
<1>. QED
  BY <1>1, <1>2, SyncReads

\* A step that writes members of the group at hand.
LEMMA PatchStep ==
  ASSUME GoogleAssumption, GoogleInv, NEW s \in Sync,
         RemoveMembers(s) \/ AddMembers(s)
  PROVE  GoogleInv'
<1>. DEFINE g == sync[s].item
<1>1. /\ sync[s].at \in {"remove", "add"} /\ sync[s].doomed = {} /\ s \in Working /\ g \in Group
      /\ UNCHANGED <<google, label, entry, lock, running, changes, faults, absent, clean>>
      /\ sync[s].mine \subseteq User /\ sync[s].theirs \subseteq User
  BY SyncIs DEF RemoveMembers, AddMembers, Fits, SyncState
<1>2. PICK phase \in {"add", "members"} :
        /\ Move(s, [sync[s] EXCEPT !.at = phase])
        /\ phase = "members" => sync[s].at = "add"
        /\ phase = "add" => sync[s].at = "remove"
  BY DEF RemoveMembers, AddMembers, Goto
<1>. DEFINE st == [sync[s] EXCEPT !.at = phase]
<1>3. st \in SyncState /\ Fits(st) /\ Passes(st, absent[s])
  BY <1>1, <1>2, SyncIs, GoesOn DEF Phase
<1>4. member' \subseteq Group \X User /\ \A m \in member' : label[m[1]] # None
  <2>1. CASE RemoveMembers(s)
    <3>1. member' \subseteq member
      BY <2>1 DEF RemoveMembers, Patch
    <3>. QED
      BY <3>1, SyncIs DEF StoreIs
  <2>2. CASE AddMembers(s)
    <3>1. member' \subseteq IF label[g] = None THEN member ELSE member \cup ({g} \X User)
      BY <1>1, <2>2 DEF AddMembers, Patch
    <3>. HIDE DEF g
    <3>. QED
      BY <1>1, <3>1, SyncIs DEF StoreIs
  <2>. QED
    BY <2>1, <2>2
<1>5. StoreIs(label', entry', member')
  BY <1>1, <1>4, SyncIs DEF StoreIs
<1>6. Move(s, st)
  BY <1>2
<1>. HIDE DEF st
<1>. QED
  BY <1>1, <1>3, <1>5, <1>6, SyncIs, SyncMoves

\* A sync that has ended, or died, has nothing in hand.
LEMMA IdleFits == ASSUME NEW gone PROVE Idle \in SyncState /\ Fits(Idle) /\ Passes(Idle, gone) /\ Idle.at = "idle"
BY DEF Idle, SyncState, Phase, Fits, Passes, Kind

LEMMA ReleaseStep ==
  ASSUME GoogleAssumption, GoogleInv, NEW s \in Sync, Release(s) \/ UnlockFails(s)
  PROVE  GoogleInv'
<1>1. /\ Move(s, Idle) /\ UNCHANGED <<google, store, changes, absent, clean>>
      /\ lock' \in {lock, None} /\ running' \in [Process -> BOOLEAN]
  BY SyncIs DEF Release, UnlockFails, Free
<1>2. faults' \in 0..MaxFaults
  BY SyncIs DEF Release, UnlockFails, Fault, GoogleAssumption
<1>3. StoreIs(label', entry', member')
  BY <1>1, SyncIs DEF store
<1>. QED
  BY <1>1, <1>2, <1>3, IdleFits, SyncIs, SyncMoves

\* A failure is counted.
LEMMA FaultCounts == ASSUME GoogleAssumption, GoogleInv, NEW kind, Fault(kind) PROVE faults' \in 0..MaxFaults
BY DEF Fault, GoogleAssumption, GoogleInv, GoogleTypeOK

LEMMA FailingStep ==
  ASSUME GoogleAssumption, GoogleInv, NEW s \in Sync, GoogleFails(s) \/ StoreFails(s)
  PROVE  GoogleInv'
<1>1. /\ UNCHANGED <<google, store, lock, running, changes, absent>>
      /\ clean' = [clean EXCEPT ![s] = FALSE]
  BY DEF GoogleFails, StoreFails
<1>2. faults' \in 0..MaxFaults
  BY FaultCounts DEF GoogleFails, StoreFails
<1>3. clean' \in [Sync -> BOOLEAN] /\ StoreIs(label', entry', member')
  BY <1>1, SyncIs DEF store
<1>4. ASSUME NEW st \in SyncState, Move(s, st), Fits(st), Passes(st, absent[s]), s \in Working
      PROVE  GoogleInv'
  BY <1>1, <1>2, <1>3, <1>4, SyncIs, SyncMoves
<1>5. ASSUME NEW phase \in {"fetch", "post", "remove", "add", "members", "release"}, Goto(s, phase),
             sync[s].at \notin {"idle", "acquire", "drop", "list"},
             phase = "post" => sync[s].at = "compare",
             phase = "members" => sync[s].at = "add",
             phase \in {"remove", "add"} => sync[s].at \in {"theirs", "remove"}
      PROVE  GoogleInv'
  <2>. DEFINE st == [sync[s] EXCEPT !.at = phase]
  <2>1. st \in SyncState /\ Fits(st) /\ Passes(st, absent[s])
    <3>1. sync[s].doomed = {}
      BY <1>5, SyncIs DEF Fits
    <3>. QED
      BY <1>5, <3>1, SyncIs, GoesOn DEF Phase
  <2>2. Move(s, st) /\ s \in Working
    BY <1>5, SyncIs DEF Goto
  <2>. HIDE DEF st
  <2>. QED
    BY <1>4, <2>1, <2>2
<1>6. CASE GoogleFails(s)
  BY <1>5, <1>6 DEF GoogleFails
<1>7. ASSUME sync[s].at = "list", Goto(s, "drop") PROVE GoogleInv'
  <2>. DEFINE st == [sync[s] EXCEPT !.at = "drop"]
  <2>1. st \in SyncState /\ Fits(st) /\ Passes(st, absent[s])
    BY <1>7, SyncIs DEF SyncState, Phase, Fits, Passes, Kind
  <2>2. Move(s, st) /\ s \in Working
    BY <1>7, SyncIs DEF Goto
  <2>. HIDE DEF st
  <2>. QED
    BY <1>4, <2>1, <2>2
<1>8. ASSUME sync[s].at = "theirs", Move(s, [sync[s] EXCEPT !.mine = {}]) PROVE GoogleInv'
  <2>. DEFINE st == [sync[s] EXCEPT !.mine = {}]
  <2>1. st \in SyncState /\ Fits(st) /\ Passes(st, absent[s]) /\ s \in Working
    BY <1>8, SyncIs DEF SyncState, Fits, Passes, Kind
  <2>2. Move(s, st)
    BY <1>8
  <2>. HIDE DEF st
  <2>. QED
    BY <1>4, <2>1, <2>2
<1>9. ASSUME sync[s].at = "drop", NEW x \in sync[s].doomed,
             Move(s, [sync[s] EXCEPT !.doomed = @ \ {x}])
      PROVE  GoogleInv'
  <2>1. s \in Working
    BY <1>9, SyncIs
  <2>. QED
    BY <1>4, <1>9, <2>1, FewerDoomed
<1>10. CASE StoreFails(s)
  <2>1. CASE sync[s].at = "put" /\ Goto(s, IF sync[s].in = "users" THEN "fetch" ELSE "release")
    BY <1>5, <2>1
  <2>. QED
    BY <1>5, <1>7, <1>8, <1>9, <1>10, <2>1 DEF StoreFails
<1>. QED
  BY <1>6, <1>10

LEMMA RestartProcessStep ==
  ASSUME GoogleAssumption, GoogleInv, NEW i \in Process, Restart(i)
  PROVE  GoogleInv'
<1>1. /\ sync' = [s \in Sync |-> IF HostOf[s] = i THEN Idle ELSE sync[s]]
      /\ lock' \in {lock, "gone"} /\ running' = [running EXCEPT ![i] = FALSE]
      /\ clean' = [s \in Sync |-> clean[s] /\ (HostOf[s] # i \/ sync[s].at = "idle")]
      /\ UNCHANGED <<google, store, changes, absent>>
  BY DEF Restart
<1>2. faults' \in 0..MaxFaults
  BY FaultCounts DEF Restart
<1>3. clean' \in [Sync -> BOOLEAN]
  <2>1. \A s \in Sync : clean[s] \in BOOLEAN
    BY DEF GoogleInv, GoogleTypeOK
  <2>. QED
    BY <1>1, <2>1, Zenon
<1>4. sync' \in [Sync -> SyncState]
  BY <1>1, IdleFits DEF GoogleInv, GoogleTypeOK
<1>5. GoogleTypeOK'
  BY <1>1, <1>2, <1>3, <1>4 DEF GoogleInv, GoogleTypeOK, store
<1>6. \A s \in Sync : Fits(sync'[s]) /\ Passes(sync'[s], absent'[s])
  BY <1>1, IdleFits DEF GoogleInv
<1>7. Working' \subseteq Working /\ MissingNow' = MissingNow
  BY <1>1, IdleFits DEF Working, MissingNow
<1>. QED
  BY <1>1, <1>5, <1>6, <1>7 DEF GoogleInv

LEMMA LockLostStep ==
  ASSUME GoogleAssumption, GoogleInv, LockLost
  PROVE  GoogleInv'
<1>1. lock' = None /\ UNCHANGED <<google, store, running, sync, changes, absent, clean>>
  BY DEF LockLost
<1>2. faults' \in 0..MaxFaults
  BY FaultCounts DEF LockLost, GoogleInv, GoogleTypeOK
<1>. QED
  BY <1>1, <1>2 DEF GoogleInv, GoogleTypeOK, store, Working, MissingNow

\* What a sync has passed is gone the more.
LEMMA ChangeStep ==
  ASSUME GoogleAssumption, GoogleInv, NEW new \in Contents,
         \A m \in new.member : new.label[m[1]] # None, Change(new)
  PROVE  GoogleInv'
<1>1. /\ google' = new /\ changes' \in 0..MaxChanges
      /\ absent' = [s \in Sync |-> absent[s] \cup {x \in Item : new.label[x] = None}]
      /\ clean' = [s \in Sync |-> FALSE]
      /\ UNCHANGED <<store, lock, running, sync, faults>>
  BY DEF Change, GoogleAssumption, GoogleInv, GoogleTypeOK
<1>2. absent' \in [Sync -> SUBSET Item] /\ \A s \in Sync : absent[s] \subseteq absent'[s]
  BY <1>1 DEF GoogleInv, GoogleTypeOK
<1>3. GoogleTypeOK'
  BY <1>1, <1>2 DEF GoogleInv, GoogleTypeOK, store
<1>4. \A s \in Sync : Fits(sync'[s]) /\ Passes(sync'[s], absent'[s])
  BY <1>1, <1>2 DEF GoogleInv, Passes
<1>5. MissingNow' = {x \in Item : new.label[x] = None} /\ Working' = Working /\ Working \subseteq Sync
  BY <1>1 DEF MissingNow, Working
<1>6. \A s \in Working' : MissingNow' \subseteq absent'[s]
  BY <1>1, <1>5
<1>. QED
  BY <1>1, <1>3, <1>4, <1>6 DEF GoogleInv

LEMMA GoogleChangesStep ==
  ASSUME GoogleAssumption, GoogleInv, GoogleChanges
  PROVE  GoogleInv'
<1>1. /\ google \in Contents /\ google.label \in [Item -> Label \cup {None}]
      /\ google.member \subseteq Group \X User /\ \A m \in google.member : google.label[m[1]] # None
      /\ None \notin Label
  BY DEF GoogleInv, GoogleTypeOK, Contents, GoogleAssumption
<1>2. ASSUME NEW x \in Item, NEW l \in Label, Change([google EXCEPT !.label[x] = l])
      PROVE  GoogleInv'
  <2>. DEFINE new == [google EXCEPT !.label[x] = l]
  <2>1. new \in Contents /\ new.member = google.member /\ new.label = [google.label EXCEPT ![x] = l]
    BY <1>1 DEF Contents
  <2>2. \A m \in new.member : new.label[m[1]] # None
    <3>. HIDE DEF new
    <3>. QED
      BY <1>1, <2>1 DEF Item
  <2>. HIDE DEF new
  <2>. QED
    BY <1>2, <2>1, <2>2, ChangeStep DEF new
<1>3. ASSUME NEW x \in Item,
             Change([label |-> [google.label EXCEPT ![x] = None],
                     member |-> {m \in google.member : x \notin {m[1], m[2]}}])
      PROVE  GoogleInv'
  <2>. DEFINE rest == {m \in google.member : x \notin {m[1], m[2]}}
              without == [google.label EXCEPT ![x] = None]
  <2>1. rest \subseteq Group \X User /\ without \in [Item -> Label \cup {None}]
    BY <1>1
  <2>2. \A m \in rest : without[m[1]] # None
    BY <1>1 DEF Item
  <2>. HIDE DEF rest, without
  <2>3. [label |-> without, member |-> rest] \in Contents
    BY <2>1 DEF Contents
  <2>. QED
    BY <1>3, <2>2, <2>3, ChangeStep DEF rest, without
<1>4. ASSUME NEW g \in Group, NEW u \in User, google.label[g] # None,
             Change([google EXCEPT !.member = IF <<g, u>> \in @ THEN @ \ {<<g, u>>} ELSE @ \cup {<<g, u>>}])
      PROVE  GoogleInv'
  <2>. DEFINE now == IF <<g, u>> \in google.member THEN google.member \ {<<g, u>>}
                     ELSE google.member \cup {<<g, u>>}
              new == [google EXCEPT !.member = now]
  <2>1. now \subseteq Group \X User /\ \A m \in now : google.label[m[1]] # None
    BY <1>1, <1>4
  <2>. HIDE DEF now
  <2>2. new \in Contents /\ new.member = now /\ new.label = google.label
    BY <1>1, <2>1 DEF Contents
  <2>3. Change(new)
    BY <1>4 DEF now
  <2>. HIDE DEF new
  <2>. QED
    BY <2>1, <2>2, <2>3, ChangeStep
<1>. QED
  BY <1>2, <1>3, <1>4 DEF GoogleChanges

LEMMA GoogleNextStep == GoogleAssumption /\ GoogleInv /\ [GoogleNext]_googleVars => GoogleInv'
<1> SUFFICES ASSUME GoogleAssumption, GoogleInv, [GoogleNext]_googleVars PROVE GoogleInv'
  OBVIOUS
<1>1. ASSUME NEW s \in Sync, Step(s) PROVE GoogleInv'
  BY <1>1, AcquireStep, FetchStep, CompareStep, PostStep, PutItemStep, ListStep, DropStep,
     DroppedStep, MembersStep, TheirsStep, PatchStep, ReleaseStep DEF Step
<1>2. CASE UNCHANGED googleVars
  BY <1>2 DEF googleVars, store, GoogleInv, GoogleTypeOK, Working, MissingNow
<1>. QED
  BY <1>1, <1>2, StartStep, ReleaseStep, FailingStep, RestartProcessStep, LockLostStep,
     GoogleChangesStep DEF GoogleNext

LEMMA GoogleInvariant == ASSUME GoogleAssumption PROVE GoogleSpec => []GoogleInv
BY GoogleInitInv, GoogleNextStep, PTL DEF GoogleSpec

(***************************************************************************)
(* Every reachable state of the sync is well typed: in particular every    *)
(* entry of the store's index, and every membership, is of a user or group *)
(* that the store has (DirectoryGroups.ts, Base.ts).                       *)
(***************************************************************************)
THEOREM GoogleTyped == ASSUME GoogleAssumption PROVE GoogleSpec => []GoogleTypeOK
BY GoogleInvariant, PTL DEF GoogleInv

(***************************************************************************)
(* Whatever Google changes, whatever fails or dies, however many syncs     *)
(* overlap: a sync deletes only users and groups that Google lacked at     *)
(* some time since it began (syncUsers.ts:67-71).                          *)
(***************************************************************************)
THEOREM DropsWereAbsent == ASSUME GoogleAssumption PROVE GoogleSpec => []DroppedWereAbsent
<1>1. GoogleInv => DroppedWereAbsent
  BY DEF GoogleInv, DroppedWereAbsent, Fits, Passes
<1>. QED
  BY <1>1, GoogleInvariant, PTL

\* The store gives all it holds at once.
PagesSuffice ==
  IsFiniteSet(Item) /\ Cardinality(User) <= PageLimit /\ Cardinality(Group) <= PageLimit

LEMMA WholePage ==
  ASSUME GoogleAssumption, PagesSuffice, NEW K \in {User, Group}, NEW all \in SUBSET K, NEW page,
         PageOf(all, page)
  PROVE  page = all
<1>1. IsFiniteSet(K) /\ K \subseteq Item /\ Cardinality(K) <= PageLimit
  BY FS_Subset DEF PagesSuffice, Item
<1>2. /\ IsFiniteSet(all) /\ Cardinality(all) <= Cardinality(K)
      /\ Cardinality(all) \in Nat /\ Cardinality(K) \in Nat
  BY <1>1, FS_Subset, FS_CardinalityType
<1>3. page \subseteq all /\ Cardinality(page) = Cardinality(all)
  BY <1>1, <1>2 DEF PageOf, GoogleAssumption
<1>. QED
  BY <1>2, <1>3, FS_Subset

\* A step of the sync that works.
LEMMA CleanMoves ==
  ASSUME GoogleInv, CleanInv, NEW s \in Working, NEW st \in SyncState, Move(s, st),
         UNCHANGED <<google, absent>>, \A r \in Sync : clean'[r] => clean[r],
         clean[s] /\ clean'[s] =>
           LabelsDone(st, google, label') /\ MembersDone(st, google, member')
  PROVE  CleanInv'
<1>1. s \in Sync /\ sync' = [sync EXCEPT ![s] = st] /\ sync \in [Sync -> SyncState]
  BY DEF Working, Move, GoogleInv, GoogleTypeOK
<1>2. Working' \subseteq Working /\ MissingNow' = MissingNow /\ Working \subseteq Sync
  BY <1>1 DEF Working, MissingNow
<1>3. \A r \in Working' : clean'[r] => r = s /\ Working = {s} /\ absent[s] = MissingNow
  BY <1>2 DEF CleanInv
<1>. QED
  BY <1>1, <1>2, <1>3 DEF CleanInv

\* A step that disturbs nothing that still works, and changes nothing else.
LEMMA CleanRests ==
  ASSUME GoogleInv, CleanInv, UNCHANGED <<google, absent, label, member>>,
         Working' \subseteq Working,
         \A r \in Working' : clean'[r] => clean[r] /\ sync'[r] = sync[r]
  PROVE  CleanInv'
<1>1. MissingNow' = MissingNow
  BY DEF MissingNow
<1>. QED
  BY <1>1 DEF CleanInv

\* What is known of a sync that works and was not disturbed.
LEMMA CleanIs ==
  ASSUME GoogleInv, CleanInv, NEW s \in Working, clean[s]
  PROVE  /\ LabelsDone(sync[s], google, label) /\ MembersDone(sync[s], google, member)
         /\ \A x \in Item : x \in absent[s] <=> google.label[x] = None
         /\ s \in Sync
BY DEF CleanInv, MissingNow, Working

LEMMA CleanFetch ==
  ASSUME GoogleAssumption, GoogleInv, CleanInv, NEW s \in Sync, Fetch(s) PROVE CleanInv'
<1>1. sync[s].at = "fetch" /\ Ask /\ s \in Working
  BY SyncIs DEF Fetch
<1>2. UNCHANGED <<google, absent, clean, label, member>>
  BY <1>1 DEF Ask, store
<1>3. CASE Ahead(s) = {}
  <2>. DEFINE st == [sync[s] EXCEPT !.at = "list"]
  <2>1. Move(s, st)
    BY <1>3 DEF Fetch, Goto
  <2>2. st \in SyncState /\ st.at = "list" /\ st.in = sync[s].in /\ st.seen = sync[s].seen
    BY <1>1, SyncIs DEF SyncState, Phase
  <2>. HIDE DEF st
  <2>3. ASSUME clean[s] PROVE LabelsDone(st, google, label) /\ MembersDone(st, google, member)
    BY <1>1, <2>2, <2>3, CleanIs DEF LabelsDone, MembersDone, Kind
  <2>. QED
    BY <1>1, <1>2, <2>1, <2>2, <2>3, CleanMoves
<1>4. CASE Ahead(s) # {}
  <2>. DEFINE next == Next1(s)
              st == [sync[s] EXCEPT !.at = "compare", !.item = next, !.name = google.label[next],
                                    !.seen = @ \cup {next}]
  <2>1. Move(s, st)
    BY <1>4 DEF Fetch
  <2>2. next \in Item /\ google.label[next] \in Label
    BY <1>4, NextIsFirst, AheadIs, SyncIs
  <2>. HIDE DEF next
  <2>3. /\ st \in SyncState /\ st.at = "compare" /\ st.in = sync[s].in /\ st.item = next
        /\ st.seen = sync[s].seen \cup {next} /\ st.name = google.label[next]
    BY <1>1, <2>2, SyncIs DEF SyncState, Phase
  <2>. HIDE DEF st
  <2>4. ASSUME clean[s] PROVE LabelsDone(st, google, label) /\ MembersDone(st, google, member)
    BY <1>1, <2>3, <2>4, CleanIs DEF LabelsDone, MembersDone, SameLabels, Kind
  <2>. QED
    BY <1>1, <1>2, <2>1, <2>3, <2>4, CleanMoves
<1>. QED
  BY <1>3, <1>4

LEMMA CleanCompare ==
  ASSUME GoogleAssumption, GoogleInv, CleanInv, NEW s \in Sync, Compare(s) PROVE CleanInv'
<1>1. sync[s].at = "compare" /\ Ask /\ s \in Working /\ sync[s].item \in sync[s].seen \cap Kind(sync[s])
  BY SyncIs DEF Compare, Fits
<1>2. UNCHANGED <<google, absent, clean, label, member>>
  BY <1>1 DEF Ask, store
<1>3. PICK phase \in {"fetch", "post", "put"} :
        /\ Move(s, [sync[s] EXCEPT !.at = phase])
        /\ phase = "fetch" => label[sync[s].item] = sync[s].name
        /\ phase = "put" => label[sync[s].item] # None
  BY DEF Compare, Goto
<1>. DEFINE st == [sync[s] EXCEPT !.at = phase]
<1>4. /\ st \in SyncState /\ st.at = phase /\ st.in = sync[s].in /\ st.seen = sync[s].seen
      /\ st.item = sync[s].item /\ st.name = sync[s].name /\ Move(s, st)
  BY <1>3, SyncIs DEF SyncState, Phase
<1>. HIDE DEF st
<1>5. ASSUME clean[s] PROVE LabelsDone(st, google, label) /\ MembersDone(st, google, member)
  BY <1>1, <1>3, <1>4, <1>5, CleanIs DEF LabelsDone, MembersDone, SameLabels, Kind
<1>. QED
  BY <1>1, <1>2, <1>4, <1>5, CleanMoves

\* The item at hand gets the label that it has in Google.
LEMMA CleanWrite ==
  ASSUME GoogleAssumption, GoogleInv, CleanInv, NEW s \in Sync,
         sync[s].at \in {"post", "put"}, Goto(s, "fetch"), UNCHANGED <<google, absent, member>>,
         \A r \in Sync : clean'[r] => clean[r],
         clean[s] /\ clean'[s] => label' = [label EXCEPT ![sync[s].item] = sync[s].name]
  PROVE  CleanInv'
<1>. DEFINE st == [sync[s] EXCEPT !.at = "fetch"]
<1>1. /\ s \in Working /\ sync[s].item \in sync[s].seen \cap Kind(sync[s])
      /\ label \in [Item -> Label \cup {None}] /\ Kind(sync[s]) \subseteq Item
  BY SyncIs DEF Fits, StoreIs
<1>2. /\ st \in SyncState /\ st.at = "fetch" /\ st.in = sync[s].in /\ st.seen = sync[s].seen
      /\ Move(s, st)
  BY SyncIs DEF SyncState, Phase, Goto
<1>. HIDE DEF st
<1>3. ASSUME clean[s], clean'[s]
      PROVE  LabelsDone(st, google, label') /\ MembersDone(st, google, member')
  <2>1. sync[s].name = google.label[sync[s].item]
    BY <1>1, <1>3, CleanIs DEF LabelsDone
  <2>2. \A x \in Item : label'[x] = label[x] \/ label'[x] = google.label[x]
    BY <1>1, <1>3, <2>1
  <2>3. label'[sync[s].item] = google.label[sync[s].item]
    BY <1>1, <1>3, <2>1
  <2>4. Kind(st) = Kind(sync[s]) /\ User \subseteq Item
    BY <1>2 DEF Kind, Item
  <2>5. \A x \in sync[s].seen \cap Kind(sync[s]) : label'[x] = google.label[x]
    BY <1>1, <1>3, <2>2, <2>3, <2>4, CleanIs DEF LabelsDone, SameLabels
  <2>6. sync[s].in = "groups" => \A x \in User : label'[x] = google.label[x]
    BY <1>1, <1>3, <2>2, <2>4, CleanIs DEF LabelsDone, SameLabels
  <2>. QED
    BY <1>2, <2>4, <2>5, <2>6 DEF LabelsDone, MembersDone, SameLabels
<1>. QED
  BY <1>1, <1>2, <1>3, CleanMoves

LEMMA CleanPost ==
  ASSUME GoogleAssumption, GoogleInv, CleanInv, NEW s \in Sync, Post(s) PROVE CleanInv'
<1>1. clean' \in {clean, [clean EXCEPT ![s] = FALSE]} /\ clean \in [Sync -> BOOLEAN]
  BY SyncIs DEF Post
<1>2. clean'[s] => label' = [label EXCEPT ![sync[s].item] = sync[s].name]
  BY SyncIs DEF Post
<1>3. /\ sync[s].at = "post" /\ Goto(s, "fetch") /\ UNCHANGED <<google, absent, member>>
  BY DEF Post, store
<1>. QED
  BY <1>1, <1>2, <1>3, CleanWrite

LEMMA CleanPut ==
  ASSUME GoogleAssumption, GoogleInv, CleanInv, NEW s \in Sync, PutItem(s) PROVE CleanInv'
<1>1. /\ sync[s].at = "put" /\ Goto(s, "fetch") /\ s \in Working
      /\ UNCHANGED <<google, absent, member, clean>>
      /\ label' = IF label[sync[s].item] = None THEN label
                  ELSE [label EXCEPT ![sync[s].item] = sync[s].name]
  BY SyncIs DEF PutItem
<1>2. clean[s] => label[sync[s].item] # None
  BY <1>1, CleanIs DEF LabelsDone
<1>. QED
  BY <1>1, <1>2, CleanWrite

LEMMA CleanList ==
  ASSUME GoogleAssumption, PagesSuffice, GoogleInv, CleanInv, NEW s \in Sync, List(s)
  PROVE  CleanInv'
<1>. DEFINE all == {x \in Kind(sync[s]) : label[x] # None}
            st == [sync[s] EXCEPT !.at = "drop", !.doomed = all \ sync[s].seen]
<1>1. sync[s].at = "list" /\ Ask /\ s \in Working
  BY SyncIs DEF List
<1>2. UNCHANGED <<google, absent, clean, label, member>>
  BY <1>1 DEF Ask, store
<1>3. Move(s, st)
  <2>1. PICK page \in SUBSET OfKind(s) :
          /\ PageOf({x \in OfKind(s) : label[x] # None}, page)
          /\ Move(s, [sync[s] EXCEPT !.at = "drop", !.doomed = page \ sync[s].seen])
    BY DEF List
  <2>2. Kind(sync[s]) \in {User, Group} /\ all \in SUBSET Kind(sync[s]) /\ PageOf(all, page)
    BY <2>1, SyncIs DEF Kind
  <2>3. page = all
    BY <2>2, WholePage
  <2>. QED
    BY <2>1, <2>3
<1>4. all \in SUBSET Item
  BY SyncIs
<1>5. \A x \in Kind(sync[s]) \ sync[s].seen : label[x] = None \/ x \in all \ sync[s].seen
  OBVIOUS
<1>. HIDE DEF all
<1>6. /\ st \in SyncState /\ st.at = "drop" /\ st.in = sync[s].in /\ st.seen = sync[s].seen
      /\ st.doomed = all \ sync[s].seen
  BY <1>4, SyncIs DEF SyncState, Phase
<1>. HIDE DEF st
<1>7. ASSUME clean[s] PROVE LabelsDone(st, google, label) /\ MembersDone(st, google, member)
  BY <1>1, <1>5, <1>6, <1>7, CleanIs DEF LabelsDone, MembersDone, Kind
<1>. QED
  BY <1>1, <1>2, <1>3, <1>6, <1>7, CleanMoves

LEMMA CleanDrop ==
  ASSUME GoogleAssumption, GoogleInv, CleanInv, NEW s \in Sync, Drop(s) PROVE CleanInv'
<1>1. PICK x \in sync[s].doomed :
        /\ label' = [label EXCEPT ![x] = None]
        /\ Move(s, [sync[s] EXCEPT !.doomed = @ \ {x}])
  BY DEF Drop
<1>. DEFINE st == [sync[s] EXCEPT !.doomed = @ \ {x}]
<1>2. /\ sync[s].at = "drop" /\ s \in Working /\ x \in Kind(sync[s]) \ sync[s].seen
      /\ UNCHANGED <<google, absent, clean>>
  BY SyncIs DEF Drop, Passes
<1>3. /\ st \in SyncState /\ st.at = "drop" /\ st.in = sync[s].in /\ st.seen = sync[s].seen
      /\ st.doomed = sync[s].doomed \ {x} /\ Move(s, st)
  BY <1>1, <1>2, SyncIs DEF SyncState
<1>. HIDE DEF st
<1>4. /\ label \in [Item -> Label \cup {None}] /\ Kind(sync[s]) \subseteq Item /\ User \subseteq Item
      /\ sync[s].in = "groups" => x \notin User
  BY <1>2, SyncIs DEF StoreIs, Item, Kind, GoogleAssumption
<1>5. \A y \in Item : label'[y] = IF y = x THEN None ELSE label[y]
  BY <1>1, <1>4
<1>6. ASSUME clean[s] PROVE LabelsDone(st, google, label') /\ MembersDone(st, google, member')
  <2>1. Kind(st) = Kind(sync[s])
    BY <1>3 DEF Kind
  <2>2. LabelsDone(sync[s], google, label)
    BY <1>2, <1>6, CleanIs
  <2>3. st.in = "groups" => SameLabels(User, google, label')
    BY <1>3, <1>4, <1>5, <2>2 DEF LabelsDone, SameLabels
  <2>4. SameLabels(st.seen \cap Kind(st), google, label')
    BY <1>2, <1>3, <1>4, <1>5, <2>1, <2>2 DEF LabelsDone, SameLabels
  <2>5. \A y \in Kind(st) \ st.seen : label'[y] = None \/ y \in st.doomed
    BY <1>2, <1>3, <1>4, <1>5, <2>1, <2>2 DEF LabelsDone
  <2>. QED
    BY <1>3, <2>3, <2>4, <2>5 DEF LabelsDone, MembersDone
<1>. QED
  BY <1>2, <1>3, <1>6, CleanMoves

\* All of a kind are done: who was not fetched is missing in Google and is
\* not in the store any more.
LEMMA CleanDropped ==
  ASSUME GoogleAssumption, GoogleInv, CleanInv, NEW s \in Sync, Dropped(s) PROVE CleanInv'
<1>. DEFINE st == IF sync[s].in = "users"
                  THEN [sync[s] EXCEPT !.in = "groups", !.at = "fetch"]
                  ELSE [sync[s] EXCEPT !.at = "members", !.seen = @ \ Group]
<1>1. sync[s].at = "drop" /\ sync[s].doomed = {} /\ Ask /\ s \in Working /\ Move(s, st)
  BY SyncIs DEF Dropped
<1>2. UNCHANGED <<google, absent, clean, label, member>>
  BY <1>1 DEF Ask, store
<1>3. /\ st \in SyncState /\ st.in = "groups"
      /\ st.at = (IF sync[s].in = "users" THEN "fetch" ELSE "members")
      /\ st.seen \cap Group = {}
  <2>1. sync[s].in = "users" => sync[s].seen \cap Group = {}
    BY <1>1, SyncIs DEF Fits, GoogleAssumption
  <2>2. CASE sync[s].in = "users"
    BY <1>1, <2>1, <2>2, SyncIs DEF SyncState, Phase
  <2>3. CASE sync[s].in = "groups"
    BY <1>1, <2>3, SyncIs DEF SyncState, Phase
  <2>. QED
    BY <2>2, <2>3, SyncIs DEF SyncState
<1>. HIDE DEF st
<1>4. ASSUME clean[s] PROVE LabelsDone(st, google, label) /\ MembersDone(st, google, member)
  <2>1. SameLabels(Kind(sync[s]), google, label)
    <3>1. ASSUME NEW x \in Kind(sync[s]) PROVE label[x] = google.label[x]
      <4>1. CASE x \in sync[s].seen
        BY <1>1, <1>4, <4>1, CleanIs DEF LabelsDone, SameLabels
      <4>2. CASE x \notin sync[s].seen
        <5>1. x \in absent[s] /\ x \in Item
          BY <1>1, <3>1, <4>2, SyncIs DEF Passes
        <5>2. google.label[x] = None
          BY <1>1, <1>4, <5>1, CleanIs
        <5>3. label[x] = None
          BY <1>1, <1>4, <3>1, <4>2, CleanIs DEF LabelsDone
        <5>. QED
          BY <5>2, <5>3
      <4>. QED
        BY <4>1, <4>2
    <3>. QED
      BY <3>1 DEF SameLabels
  <2>2. SameLabels(User, google, label)
    BY <1>1, <1>4, <2>1, SyncIs, CleanIs DEF LabelsDone, Kind, SyncState
  <2>3. sync[s].in # "users" => SameLabels(Item, google, label)
    BY <2>1, <2>2 DEF SameLabels, Item, Kind
  <2>. QED
    BY <1>3, <2>2, <2>3 DEF LabelsDone, MembersDone, Kind, SameLabels
<1>. QED
  BY <1>1, <1>2, <1>3, <1>4, CleanMoves

LEMMA CleanMembers ==
  ASSUME GoogleAssumption, PagesSuffice, GoogleInv, CleanInv, NEW s \in Sync, Members(s)
  PROVE  CleanInv'
<1>1. /\ sync[s].at = "members" /\ Kind(sync[s]) = Group /\ Ask /\ s \in Working
      /\ sync[s].in = "groups"
  BY SyncIs DEF Members, Fits, Kind
<1>2. UNCHANGED <<google, absent, clean, label, member>>
  BY <1>1 DEF Ask, store
<1>3. google.member \subseteq Group \X User /\ \A m \in google.member : google.label[m[1]] # None
  BY DEF GoogleInv, GoogleTypeOK, Contents
<1>4. CASE Ahead(s) = {}
  <2>. DEFINE st == [sync[s] EXCEPT !.at = "release"]
  <2>1. Move(s, st)
    BY <1>4 DEF Members, Goto
  <2>2. st \in SyncState /\ st.at = "release" /\ st.in = sync[s].in
    BY <1>1, SyncIs DEF SyncState, Phase
  <2>. HIDE DEF st
  <2>3. ASSUME clean[s] PROVE LabelsDone(st, google, label) /\ MembersDone(st, google, member)
    <3>1. SameLabels(Item, google, label) /\ SameLabels(User, google, label)
      BY <1>1, <2>3, CleanIs DEF LabelsDone, SameLabels, Item
    <3>2. ASSUME NEW g \in Group PROVE SameMembers(g, google, member)
      <4>1. CASE g \in sync[s].seen
        BY <1>1, <2>3, <4>1, CleanIs DEF MembersDone
      <4>2. CASE g \notin sync[s].seen
        <5>1. g \in absent[s] /\ g \in Item
          BY <1>1, <1>4, <4>2, AheadIs DEF Item
        <5>2. google.label[g] = None /\ label[g] = None
          BY <1>1, <2>3, <3>1, <5>1, CleanIs DEF SameLabels
        <5>. QED
          BY <1>3, <5>2, SyncIs DEF SameMembers, StoreIs
      <4>. QED
        BY <4>1, <4>2
    <3>3. member \subseteq Group \X User
      BY SyncIs DEF StoreIs
    <3>4. member = google.member
      <4>1. ASSUME NEW m \in Group \X User PROVE m \in member <=> m \in google.member
        <5>1. PICK g \in Group, u \in User : m = <<g, u>>
          OBVIOUS
        <5>. QED
          BY <3>2, <5>1 DEF SameMembers
      <4>. QED
        BY <1>3, <3>3, <4>1
    <3>. QED
      BY <2>2, <3>1, <3>4 DEF LabelsDone, MembersDone
  <2>. QED
    BY <1>1, <1>2, <2>1, <2>2, <2>3, CleanMoves
<1>5. CASE Ahead(s) # {}
  <2>. DEFINE g == Next1(s)
              all == {u \in User : <<g, u>> \in member}
              st == [sync[s] EXCEPT !.at = "theirs", !.item = g, !.mine = all, !.seen = @ \cup {g}]
  <2>1. Move(s, st)
    <3>1. PICK page \in SUBSET User :
            /\ PageOf(all, page)
            /\ Move(s, [sync[s] EXCEPT !.at = "theirs", !.item = g, !.mine = page, !.seen = @ \cup {g}])
      BY <1>5 DEF Members
    <3>2. all \in SUBSET User
      OBVIOUS
    <3>3. page = all
      <4>. HIDE DEF all
      <4>. QED
        BY <3>1, <3>2, WholePage
    <3>. QED
      BY <3>1, <3>3
  <2>2. g \in Item /\ google.label[g] # None
    BY <1>5, NextIsFirst, AheadIs, SyncIs DEF GoogleAssumption
  <2>3. all \in SUBSET User /\ \A u \in User : u \in all <=> <<g, u>> \in member
    OBVIOUS
  <2>. HIDE DEF g, all
  <2>4. /\ st \in SyncState /\ st.at = "theirs" /\ st.in = sync[s].in /\ st.item = g
        /\ st.seen = sync[s].seen \cup {g} /\ st.mine = all
    BY <1>1, <2>2, <2>3, SyncIs DEF SyncState, Phase
  <2>. HIDE DEF st
  <2>5. ASSUME clean[s] PROVE LabelsDone(st, google, label) /\ MembersDone(st, google, member)
    <3>1. LabelsDone(st, google, label)
      BY <1>1, <2>4, <2>5, CleanIs DEF LabelsDone
    <3>2. \A h \in sync[s].seen \cap Group : SameMembers(h, google, member)
      BY <1>1, <2>5, CleanIs DEF MembersDone
    <3>. QED
      BY <2>2, <2>3, <2>4, <3>1, <3>2 DEF MembersDone
  <2>. QED
    BY <1>1, <1>2, <2>1, <2>4, <2>5, CleanMoves
<1>. QED
  BY <1>4, <1>5

LEMMA CleanTheirs ==
  ASSUME GoogleAssumption, GoogleInv, CleanInv, NEW s \in Sync, Theirs(s) PROVE CleanInv'
<1>. DEFINE has == {u \in User : <<sync[s].item, u>> \in google.member}
            st == [sync[s] EXCEPT !.at = "remove", !.theirs = has]
<1>1. sync[s].at = "theirs" /\ Ask /\ s \in Working /\ Move(s, st)
  BY SyncIs DEF Theirs
<1>2. UNCHANGED <<google, absent, clean, label, member>>
  BY <1>1 DEF Ask, store
<1>3. has \in SUBSET User /\ \A u \in User : u \in has <=> <<sync[s].item, u>> \in google.member
  OBVIOUS
<1>. HIDE DEF has
<1>4. /\ st \in SyncState /\ st.at = "remove" /\ st.in = sync[s].in /\ st.item = sync[s].item
      /\ st.seen = sync[s].seen /\ st.mine = sync[s].mine /\ st.theirs = has
  BY <1>3, SyncIs DEF SyncState, Phase
<1>. HIDE DEF st
<1>5. ASSUME clean[s] PROVE LabelsDone(st, google, label) /\ MembersDone(st, google, member)
  BY <1>1, <1>3, <1>4, <1>5, CleanIs DEF LabelsDone, MembersDone
<1>. QED
  BY <1>1, <1>2, <1>4, <1>5, CleanMoves

LEMMA CleanRemove ==
  ASSUME GoogleAssumption, GoogleInv, CleanInv, NEW s \in Sync, RemoveMembers(s) PROVE CleanInv'
<1>. DEFINE g == sync[s].item
            gone == sync[s].mine \ sync[s].theirs
            st == [sync[s] EXCEPT !.at = "add"]
<1>1. /\ sync[s].at = "remove" /\ s \in Working /\ g \in Group
      /\ member' = IF label[g] = None THEN member ELSE member \ ({g} \X gone)
      /\ UNCHANGED <<google, label, absent, clean>>
  BY SyncIs DEF RemoveMembers, Patch, Fits
<1>2. /\ st \in SyncState /\ st.at = "add" /\ st.in = sync[s].in /\ st.item = g
      /\ st.seen = sync[s].seen /\ st.mine = sync[s].mine /\ st.theirs = sync[s].theirs
      /\ Move(s, st)
  BY SyncIs DEF RemoveMembers, Goto, SyncState, Phase
<1>. HIDE DEF st
<1>3. ASSUME clean[s] PROVE LabelsDone(st, google, label) /\ MembersDone(st, google, member')
  <2>1. LabelsDone(st, google, label)
    BY <1>1, <1>2, <1>3, CleanIs DEF LabelsDone
  <2>2. label[g] # None /\ google.label[g] # None
    BY <1>1, <1>3, CleanIs DEF LabelsDone, MembersDone, SameLabels, Item
  <2>3. /\ \A h \in (sync[s].seen \cap Group) \ {g} : SameMembers(h, google, member)
        /\ \A u \in User : u \in sync[s].mine <=> <<g, u>> \in member
        /\ \A u \in User : u \in sync[s].theirs <=> <<g, u>> \in google.member
    BY <1>1, <1>3, CleanIs DEF MembersDone
  <2>4. \A h, u : <<h, u>> \in member' <=> <<h, u>> \in member /\ ~(h = g /\ u \in gone)
    BY <1>1, <2>2
  <2>5. \A u \in User : <<g, u>> \in member' <=> u \in sync[s].mine \cap sync[s].theirs
    BY <2>3, <2>4
  <2>6. \A h \in (sync[s].seen \cap Group) \ {g} : SameMembers(h, google, member')
    BY <2>3, <2>4 DEF SameMembers
  <2>. HIDE DEF g
  <2>. QED
    BY <1>2, <2>1, <2>2, <2>3, <2>5, <2>6 DEF MembersDone
<1>. QED
  BY <1>1, <1>2, <1>3, CleanMoves

LEMMA CleanAdd ==
  ASSUME GoogleAssumption, GoogleInv, CleanInv, NEW s \in Sync, AddMembers(s) PROVE CleanInv'
<1>. DEFINE g == sync[s].item
            new == sync[s].theirs \ sync[s].mine
            st == [sync[s] EXCEPT !.at = "members"]
<1>1. /\ sync[s].at = "add" /\ s \in Working /\ g \in Group
      /\ member' = IF label[g] = None THEN member ELSE member \cup ({g} \X new)
      /\ UNCHANGED <<google, label, absent, clean>>
  BY SyncIs DEF AddMembers, Patch, Fits
<1>2. /\ st \in SyncState /\ st.at = "members" /\ st.in = sync[s].in /\ st.item = g
      /\ st.seen = sync[s].seen /\ Move(s, st)
  BY SyncIs DEF AddMembers, Goto, SyncState, Phase
<1>. HIDE DEF st
<1>3. ASSUME clean[s] PROVE LabelsDone(st, google, label) /\ MembersDone(st, google, member')
  <2>1. LabelsDone(st, google, label)
    BY <1>1, <1>2, <1>3, CleanIs DEF LabelsDone
  <2>2. label[g] # None
    BY <1>1, <1>3, CleanIs DEF LabelsDone, MembersDone, SameLabels, Item
  <2>3. /\ \A h \in (sync[s].seen \cap Group) \ {g} : SameMembers(h, google, member)
        /\ \A u \in User : <<g, u>> \in member <=> u \in sync[s].mine \cap sync[s].theirs
        /\ \A u \in User : u \in sync[s].theirs <=> <<g, u>> \in google.member
    BY <1>1, <1>3, CleanIs DEF MembersDone
  <2>4. \A h, u : <<h, u>> \in member' <=> <<h, u>> \in member \/ (h = g /\ u \in new)
    BY <1>1, <2>2
  <2>5. SameMembers(g, google, member')
    BY <2>3, <2>4 DEF SameMembers
  <2>6. \A h \in (sync[s].seen \cap Group) \ {g} : SameMembers(h, google, member')
    BY <2>3, <2>4 DEF SameMembers
  <2>. QED
    BY <1>2, <2>1, <2>5, <2>6 DEF MembersDone
<1>. QED
  BY <1>1, <1>2, <1>3, CleanMoves

\* A sync begins undisturbed if no other one works, and disturbs any that does.
LEMMA CleanAcquire ==
  ASSUME GoogleAssumption, GoogleInv, CleanInv, NEW s \in Sync, Acquire(s) PROVE CleanInv'
<1>1. /\ sync[s].at = "acquire" /\ sync[s].in = "users" /\ sync[s].seen = {} /\ s \notin Working
      /\ sync \in [Sync -> SyncState]
  BY SyncIs DEF Acquire, Fits, Working, GoogleInv, GoogleTypeOK
<1>2. CASE lock \in {None, HostOf[s]}
  <2>. DEFINE st == [sync[s] EXCEPT !.at = "fetch"]
  <2>1. /\ sync' = [sync EXCEPT ![s] = st]
        /\ absent' = [absent EXCEPT ![s] = MissingNow] /\ absent \in [Sync -> SUBSET Item]
        /\ clean' = [r \in Sync |-> IF r = s THEN Working = {} ELSE clean[r] /\ r \notin Working]
        /\ UNCHANGED <<google, label, member>>
    BY <1>2 DEF Acquire, Goto, Move, MissingNow, GoogleInv, GoogleTypeOK, store
  <2>2. st.at = "fetch" /\ st.in = "users" /\ st.seen = {}
    BY <1>1, SyncIs DEF SyncState
  <2>. HIDE DEF st
  <2>3. Working' = Working \cup {s} /\ MissingNow' = MissingNow /\ Working \subseteq Sync
    BY <1>1, <2>1, <2>2 DEF Working, MissingNow
  <2>4. LabelsDone(st, google, label) /\ MembersDone(st, google, member)
    BY <2>2 DEF LabelsDone, MembersDone, SameLabels
  <2>5. \A r \in Working' : clean'[r] => r = s /\ Working = {}
    BY <2>1, <2>3
  <2>. QED
    BY <1>1, <2>1, <2>3, <2>4, <2>5 DEF CleanInv
<1>3. CASE lock \notin {None, HostOf[s]}
  <2>1. /\ sync' = [sync EXCEPT ![s] = [sync[s] EXCEPT !.at = "idle"]]
        /\ UNCHANGED <<google, label, member, absent, clean>>
    BY <1>3 DEF Acquire, Goto, Move, store
  <2>2. \A r \in Sync : sync'[r].at \in {"idle", "acquire"} \/ sync'[r] = sync[r]
    BY <1>1, <2>1, SyncIs DEF SyncState
  <2>3. Working' \subseteq Working /\ \A r \in Working' : sync'[r] = sync[r]
    BY <2>2 DEF Working
  <2>. QED
    BY <2>1, <2>3, CleanRests
<1>. QED
  BY <1>2, <1>3

\* Syncs that start, end, die or fail disturb no other one that works alone.
LEMMA CleanOthers ==
  ASSUME GoogleAssumption, GoogleInv, CleanInv,
         \/ \E s \in Sync : StartSync(s) \/ Release(s) \/ UnlockFails(s)
         \/ (\E i \in Process : Restart(i)) \/ LockLost
  PROVE  CleanInv'
<1>1. /\ UNCHANGED <<google, label, member, absent>> /\ sync \in [Sync -> SyncState]
      /\ clean \in [Sync -> BOOLEAN]
  BY DEF StartSync, Release, UnlockFails, Restart, LockLost, Ask, store, GoogleInv, GoogleTypeOK
<1>2. /\ \A r \in Sync : clean'[r] => clean[r]
      /\ \A r \in Sync : sync'[r].at \in {"idle", "acquire"} \/ sync'[r] = sync[r]
  <2>1. ASSUME NEW s \in Sync, StartSync(s)
        PROVE  \A r \in Sync : sync'[r].at \in {"idle", "acquire"} \/ sync'[r] = sync[r]
    <3>1. sync' = [sync EXCEPT ![s] = [sync[s] EXCEPT !.at = "acquire"]]
      BY <2>1 DEF StartSync, Goto, Move
    <3>2. [sync[s] EXCEPT !.at = "acquire"].at = "acquire"
      BY SyncIs DEF SyncState
    <3>. QED
      BY <1>1, <3>1, <3>2
  <2>2. ASSUME NEW s \in Sync, Release(s) \/ UnlockFails(s)
        PROVE  \A r \in Sync : sync'[r].at \in {"idle", "acquire"} \/ sync'[r] = sync[r]
    BY <1>1, <2>2, IdleFits DEF Release, UnlockFails, Move
  <2>3. ASSUME NEW i \in Process, Restart(i)
        PROVE  /\ \A r \in Sync : sync'[r].at \in {"idle", "acquire"} \/ sync'[r] = sync[r]
               /\ \A r \in Sync : clean'[r] => clean[r]
    BY <2>3, IdleFits DEF Restart
  <2>4. CASE LockLost
    BY <2>4 DEF LockLost
  <2>5. ASSUME NEW s \in Sync, StartSync(s) \/ Release(s) \/ UnlockFails(s) PROVE clean' = clean
    BY <2>5 DEF StartSync, Release, UnlockFails, Ask
  <2>. QED
    BY <2>1, <2>2, <2>3, <2>4, <2>5
<1>3. Working' \subseteq Working /\ \A r \in Working' : sync'[r] = sync[r] /\ r \in Sync
  BY <1>2 DEF Working
<1>. QED
  BY <1>1, <1>2, <1>3, CleanRests

\* A sync with a failure does not count as undisturbed, nor does any when
\* Google changes.
LEMMA CleanSpoiled ==
  ASSUME GoogleAssumption, GoogleInv, CleanInv,
         (\E s \in Sync : GoogleFails(s) \/ StoreFails(s)) \/ GoogleChanges
  PROVE  CleanInv'
<1>1. ASSUME NEW s \in Sync, GoogleFails(s) \/ StoreFails(s) PROVE CleanInv'
  <2>1. /\ UNCHANGED <<google, label, member, absent>> /\ clean' = [clean EXCEPT ![s] = FALSE]
        /\ s \in Working /\ clean \in [Sync -> BOOLEAN] /\ sync \in [Sync -> SyncState]
    BY <1>1, SyncIs DEF GoogleFails, StoreFails, store, GoogleInv, GoogleTypeOK
  <2>2. \E st : sync' = [sync EXCEPT ![s] = st]
    BY <1>1 DEF GoogleFails, StoreFails, Goto, Move
  <2>3. Working' \subseteq Working \cup {s} /\ \A r \in Working' \ {s} : sync'[r] = sync[r]
    BY <2>1, <2>2 DEF Working
  <2>4. \A r \in Working' : clean'[r] => r # s /\ clean[r]
    BY <2>1 DEF Working
  <2>. QED
    BY <2>1, <2>3, <2>4, CleanRests
<1>2. CASE GoogleChanges
  <2>1. clean' = [s \in Sync |-> FALSE]
    BY <1>2 DEF GoogleChanges, Change
  <2>. QED
    BY <2>1 DEF CleanInv, Working
<1>. QED
  BY <1>1, <1>2

LEMMA CleanNextStep ==
  GoogleAssumption /\ PagesSuffice /\ GoogleInv /\ CleanInv /\ [GoogleNext]_googleVars => CleanInv'
<1> SUFFICES ASSUME GoogleAssumption, PagesSuffice, GoogleInv, CleanInv, [GoogleNext]_googleVars
             PROVE  CleanInv'
  OBVIOUS
<1>1. ASSUME NEW s \in Sync, Step(s) PROVE CleanInv'
  BY <1>1, CleanAcquire, CleanFetch, CleanCompare, CleanPost, CleanPut, CleanList, CleanDrop,
     CleanDropped, CleanMembers, CleanTheirs, CleanRemove, CleanAdd, CleanOthers DEF Step
<1>2. CASE UNCHANGED googleVars
  BY <1>2 DEF googleVars, store, CleanInv, Working, MissingNow
<1>. QED
  BY <1>1, <1>2, CleanOthers, CleanSpoiled DEF GoogleNext

(***************************************************************************)
(* When the store gives all it holds, a sync during which Google did not   *)
(* change or fail, no other sync ran, and no creation was refused, leaves  *)
(* the store as Google is, whatever earlier syncs left undone or wrong     *)
(* (non-scim/index.ts:83-97).                                              *)
(***************************************************************************)
THEOREM SyncMakesEqual ==
  ASSUME GoogleAssumption, PagesSuffice PROVE GoogleSpec => []SyncedIsEqual
<1>1. GoogleInit => CleanInv
  BY DEF GoogleInit, CleanInv, Working, Idle
<1>2. GoogleInv /\ CleanInv => SyncedIsEqual
  <2>. SUFFICES ASSUME GoogleInv, CleanInv, NEW s \in Sync, sync[s].at = "release", clean[s]
                PROVE  Equal
    BY DEF SyncedIsEqual
  <2>1. s \in Working
    BY DEF Working
  <2>2. SameLabels(Item, google, label) /\ member = google.member
    BY <2>1, CleanIs DEF LabelsDone, MembersDone
  <2>3. label \in [Item -> Label \cup {None}] /\ google.label \in [Item -> Label \cup {None}]
    BY DEF GoogleInv, GoogleTypeOK, Contents
  <2>. QED
    BY <2>2, <2>3 DEF SameLabels, Equal
<1>. QED
  BY <1>1, <1>2, CleanNextStep, GoogleInvariant, PTL DEF GoogleSpec

(***************************************************************************)
(* "Delete users that are not in the directory anymore" (syncUsers.ts:67)  *)
(* holds as long as the store gives all users and all groups at once: it   *)
(* is the cap on its pages, and nothing else, that leaves any behind.      *)
(***************************************************************************)
THEOREM WholePagesDelete ==
  ASSUME GoogleAssumption, PagesSuffice PROVE GoogleSpec => []GoneAreDeleted
<1>1. SyncedIsEqual => GoneAreDeleted
  BY DEF SyncedIsEqual, Equal, GoneAreDeleted
<1>. QED
  BY <1>1, SyncMakesEqual, PTL
=============================================================================
