------------------------------- MODULE MCLive -------------------------------
(***************************************************************************)
(* What must happen in the end, for the sign-on, the sync with Google, the *)
(* event queue and the cleanup of traces: the first state chooses which of *)
(* them a behaviour is of, and the others rest.                            *)
(***************************************************************************)
EXTENDS MCOAuthFlow

CONSTANTS s1, i1, i2, v1, v2, g1, la, MaxChanges, MaxFaults,
  MaxTraces, PageLimit, e1, e2, d1, w1, w2

VARIABLES part,
  google, label, entry, member, lock, running, sync, changes, faults, absent, clean,
  tokens, saved, kept, stale, cleanup, clearing, uncleared, failed,
  pushed, stamp, stored, born, retry, dir, held, alive, batchSize, at, left, snap, view,
  todo, tries, received, acked, dropped, failures, unlogged

googleVars ==
  <<google, label, entry, member, lock, running, sync, changes, faults, absent, clean>>

\* One sync, again and again: two users, of whom one at a time has the email.
Google == INSTANCE GoogleSync WITH
  User <- {v1, v2}, Group <- {g1}, Label <- {la}, Sync <- {s1}, Process <- {i1},
  HostOf <- (s1 :> i1), Rank <- (v1 :> 1) @@ (v2 :> 2) @@ (g1 :> 3),
  PageLimit <- 2, Renames <- FALSE, Faults <- {"google", "store", "crash", "lock"}

ASSUME GoogleParameters == Google!GoogleAssumption

tracesVars == <<tokens, saved, kept, stale, cleanup, clearing, uncleared, failed>>

\* Two processes that clean up; the engine pages by offsets.
TracesOf == INSTANCE Traces WITH
  Process <- {i1, i2}, Product <- {la}, ProductOf <- [t \in 1..MaxTraces |-> la],
  Tokens <- {FALSE}, MaxFaults <- 1

ASSUME TracesParameters == TracesOf!TracesAssumption

queueVars ==
  <<pushed, stamp, stored, born, retry, dir, held, alive, batchSize, at, left, snap,
    view, todo, tries, received, acked, dropped, failures, unlogged>>

\* Two processes with a worker each, of which one may die.
Queue == INSTANCE EventQueue WITH
  Event <- {e1, e2}, Directory <- {d1}, DirOf <- (e1 :> d1) @@ (e2 :> d1),
  Instance <- {i1, i2}, Worker <- {w1, w2}, HostOf <- (w1 :> i1) @@ (w2 :> i2),
  BatchSize <- 1, Stamp <- {0}, Retry <- 0, RetryCap <- 0, StoreErrors <- FALSE,
  Changes <- {}, Broken <- {}, lock <- held, pc <- at

Others(p) == /\ p # "sign-on" => UNCHANGED vars
             /\ p # "google" => UNCHANGED googleVars
             /\ p # "traces" => UNCHANGED tracesVars
             /\ p # "queue" => UNCHANGED queueVars

LiveInit ==
  /\ part \in {"sign-on", "google", "traces", "queue"}
  /\ Init /\ Google!GoogleInit /\ TracesOf!TracesInit /\ Queue!Init
  /\ part # "google" => google = [label |-> [x1 \in {v1, v2, g1} |-> None], member |-> {}]
  /\ part # "sign-on" => \A l \in Login : ask[l] = Asking("scope", ta, None)

LiveNext ==
  /\ \/ part = "sign-on" /\ Next
     \/ part = "google" /\ Google!GoogleNext
     \/ part = "traces" /\ TracesOf!TracesNext
     \/ part = "queue" /\ Queue!Next
  /\ Others(part) /\ UNCHANGED part

\* The fairness of each module, for behaviours of its part.
In(p, A) == part = p /\ A /\ Others(p)

LiveFairness ==
  /\ \A l \in Login : /\ WF_vars(In("sign-on", Authorize(l)))
                      /\ WF_vars(In("sign-on", Vouch(l)))
  /\ \A h \in Handler : /\ WF_vars(In("sign-on", Respond(h[1], h)))
                        /\ WF_vars(In("sign-on", Exchange(h[1], h)))
                        /\ SF_vars(In("sign-on", TokenAnswered(h)))
  /\ WF_googleVars(In("google", Google!LockLost))
  /\ WF_googleVars(In("google", Google!StartSync(s1)))
  /\ WF_googleVars(In("google", Google!Step(s1)))
  /\ \A p \in {i1, i2} : /\ WF_tracesVars(In("traces", TracesOf!Timer(p)))
                         /\ WF_tracesVars(In("traces", TracesOf!Clean(p)))
  /\ WF_queueVars(In("queue", Queue!LockExpires))
  /\ \A w \in {w1, w2} : /\ WF_queueVars(In("queue", Queue!Start(w)))
                         /\ WF_queueVars(In("queue", Queue!WorkerStep(w)))
                         /\ SF_queueVars(In("queue", Queue!SendOk(w, d1)))

LiveSpec ==
  /\ LiveInit
  /\ [][LiveNext]_<<part, vars, googleVars, tracesVars, queueVars>>
  /\ LiveFairness

-----------------------------------------------------------------------------
\* The properties of the four, for behaviours of their part.  What is to be
\* reached is kept then (learned, acked and dropped only grow, stale and kept
\* are bounded), so that "in the end always" says as much as "some time after".

(* A login ends with a profile if nothing changes (oauth.ts:95-1433).      *)
LoginEndsWell == <>[](part = "sign-on" => \A l \in Login : learned[l] # {})

(* The store is what Google holds in the end, whatever a failure, a crash  *)
(* or a change during a sync left undone (non-scim/index.ts:64-125).       *)
SyncConverges == <>[](part = "google" => Google!Equal)

(* A trace older than a week is removed (sso-traces/index.ts:155).         *)
StaleRemoved == <>[](part = "traces" => \A t \in kept : t > stale)

\* Not both workers are at work.
OneAtWork == at[w1] = "off" \/ at[w2] = "off"

(* Every event is delivered or given up in the end (queue.ts:90-171),      *)
(* unless two workers overlap for ever: where a record that comes back     *)
(* sorts first, they can pass one event to and fro while others wait.      *)
EveryEventServed ==
  <>[]OneAtWork =>
    <>[](part = "queue" => \A n \in DOMAIN pushed : pushed[n] \in acked \cup dropped)
=============================================================================
