-------------------------------- MODULE Traces --------------------------------
(***************************************************************************)
(* Traces of failed sign-ons (npm/src/sso-traces/index.ts), numbered here  *)
(* in the order in which they were saved.  Each process removes those      *)
(* older than a week, at its start and then every day; the API removes all *)
(* of a product.  A step is one request to the store.                      *)
(***************************************************************************)
EXTENDS Absence, Deployment, Naturals, FiniteSets

CONSTANTS
  Product,
  ProductOf,   \* the product of each trace, or None
  Tokens,      \* how the engines page: TRUE by tokens (DynamoDB), FALSE by offset
  PageLimit,   \* 50 in the code
  MaxTraces, MaxFaults   \* traces saved and requests failing in all (bounds)

\* What is assumed of the constants, by the modules that instantiate this one.
TracesAssumption ==
  /\ Tokens \subseteq BOOLEAN /\ PageLimit \in Nat \ {0}
  /\ MaxTraces \in Nat /\ MaxFaults \in Nat
  /\ ProductOf \in [1..MaxTraces -> Product \cup {None}]

VARIABLES
  tokens,    \* whether this deployment's engine pages by tokens
  saved,     \* number of traces saved
  kept,      \* the traces in the store
  stale,     \* how many of the traces saved are older than a week
  cleanup,   \* where each process' cleanup is
  clearing,  \* where the removal of a product's traces is, or None
  uncleared, \* history: traces that a finished removal has left behind
  failed     \* number of requests that have failed

tracesVars == <<tokens, saved, kept, stale, cleanup, clearing, uncleared, failed>>

Trace == 1..MaxTraces
Position == 0..(MaxTraces + PageLimit)  \* at most a page beyond the last trace
Cleanup == [at : {"off", "page", "delete"}, offset : Position,
            last : 0..MaxTraces,  \* the token: the last trace read, or 0
            staleTraces : SUBSET Trace]
Clearing == [product : Product, at : {"page", "delete"},
             res : SUBSET Trace,  \* the page to delete
             more : BOOLEAN,      \* did a token come with it?
             first : SUBSET Trace]  \* history: the product's traces at the start

Off == [at |-> "off", offset |-> 0, last |-> 0, staleTraces |-> {}]

TracesTypeOK ==
  /\ tokens \in BOOLEAN /\ saved \in 0..MaxTraces /\ stale \in 0..saved
  /\ kept \subseteq 1..saved
  /\ cleanup \in [Process -> Cleanup]
  /\ clearing \in Clearing \cup {None}
  /\ uncleared \subseteq Trace /\ failed \in 0..MaxFaults

TracesInit ==
  /\ tokens \in Tokens
  /\ saved = 0 /\ kept = {} /\ stale = 0
  /\ cleanup = [p \in Process |-> Off]
  /\ clearing = None /\ uncleared = {} /\ failed = 0

-----------------------------------------------------------------------------
SaveTrace ==
  /\ saved < MaxTraces
  /\ saved' = saved + 1 /\ kept' = kept \cup {saved'}
  /\ UNCHANGED <<tokens, stale, cleanup, clearing, uncleared, failed>>

\* A week has passed since the next trace was saved.
WeekPasses ==
  /\ stale < saved /\ stale' = stale + 1
  /\ UNCHANGED <<tokens, saved, kept, cleanup, clearing, uncleared, failed>>

\* The newest first: those from an offset on, or those that a token leaves.
FromOffset(traces, offset) ==
  {t \in traces : Cardinality({u \in traces : u > t}) \in offset..(offset + PageLimit - 1)}
AfterToken(traces, last) == IF last = 0 THEN traces ELSE {t \in traces : t < last}

GetAllTraces(offset, last) ==
  IF tokens THEN FromOffset(AfterToken(kept, last), 0) ELSE FromOffset(kept, offset)

\* The token of a page, which DynamoDB gives with a full one.
NextToken(page) ==
  IF tokens /\ Cardinality(page) = PageLimit
  THEN CHOOSE t \in page : \A u \in page : t <= u
  ELSE 0

-----------------------------------------------------------------------------
(* cleanUpStaleTraces of process p.                                        *)
Set(p, c) ==
  /\ cleanup' = [cleanup EXCEPT ![p] = c]
  /\ UNCHANGED <<tokens, saved, stale, clearing, uncleared, failed>>

Timer(p) ==
  /\ cleanup[p].at = "off"
  /\ Set(p, [Off EXCEPT !.at = "page"]) /\ UNCHANGED kept

ReadPage_NoEnd(p) ==
  LET c == cleanup[p] IN
  /\ c.at = "page"
  /\ Set(p, [c EXCEPT !.offset = @ + PageLimit])
  /\ UNCHANGED kept

ReadPage_SkipsAPage(p) ==
  LET c == cleanup[p]
      page == GetAllTraces(c.offset, c.last)
  IN /\ c.at = "page"
     /\ IF page = {}
        THEN Set(p, IF c.staleTraces = {} THEN Off ELSE [c EXCEPT !.at = "delete"])
        ELSE Set(p, [c EXCEPT !.offset = @ + 2 * PageLimit,
                              !.staleTraces = @ \cup (page \cap 1..stale)])
     /\ UNCHANGED kept

\* The loop ends at the first page without traces.
ReadPage(p) ==
  LET c == cleanup[p]
      page == GetAllTraces(c.offset, c.last)
  IN /\ c.at = "page"
     /\ \/ /\ page # {}
           /\ Set(p, [c EXCEPT !.offset = IF tokens THEN 0 ELSE @ + PageLimit,
                               !.last = NextToken(page),
                               !.staleTraces = @ \cup (page \cap 1..stale)])
        \/ page = {} /\ c.staleTraces = {} /\ Set(p, Off)
        \/ page = {} /\ c.staleTraces # {} /\ Set(p, [c EXCEPT !.at = "delete"])
     /\ UNCHANGED kept

\* One by one, the newest first.
DeleteStale(p) ==
  LET c == cleanup[p] IN
  /\ c.at = "delete"
  /\ \E t \in c.staleTraces :
       /\ \A u \in c.staleTraces : u <= t
       /\ kept' = kept \ {t}
       /\ Set(p, IF c.staleTraces = {t} THEN Off
                 ELSE [c EXCEPT !.staleTraces = @ \ {t}])

\* A request that fails ends the cleanup; so does the end of the process.
CleanupFails(p) ==
  /\ cleanup[p].at # "off" /\ failed < MaxFaults
  /\ failed' = failed + 1
  /\ cleanup' = [cleanup EXCEPT ![p] = Off]
  /\ UNCHANGED <<tokens, saved, kept, stale, clearing, uncleared>>

-----------------------------------------------------------------------------
(* deleteTracesByProduct.                                                  *)
Of(product) == {t \in kept : ProductOf[t] = product}

Clear(c, left) ==
  /\ clearing' = c /\ uncleared' = uncleared \cup left
  /\ UNCHANGED <<tokens, saved, stale, cleanup, failed>>

StartClearing(product) ==
  /\ clearing = None
  /\ Clear([product |-> product, at |-> "page", res |-> {}, more |-> FALSE,
            first |-> Of(product)], {})
  /\ UNCHANGED kept

\* The first page, each time: what was on it is gone.
ReadFirstPage(c) ==
  /\ c.at = "page"
  /\ LET res == FromOffset(Of(c.product), 0) IN
       \/ res = {} /\ Clear(None, c.first \cap kept)
       \/ /\ res # {}
          /\ Clear([c EXCEPT !.at = "delete", !.res = res,
                             !.more = tokens /\ res # Of(c.product)], {})
  /\ UNCHANGED kept

DeletePage_Once(c) ==
  /\ c.at = "delete"
  /\ kept' = kept \ c.res
  /\ Clear(None, c.first \cap kept')

\* It goes on if a token came with the page.
DeletePage(c) ==
  /\ c.at = "delete"
  /\ kept' = kept \ c.res
  /\ \/ c.more /\ Clear([c EXCEPT !.at = "page", !.res = {}], {})
     \/ ~c.more /\ Clear(None, c.first \cap kept')

ClearingFails ==
  /\ clearing # None /\ failed < MaxFaults
  /\ failed' = failed + 1 /\ clearing' = None
  /\ UNCHANGED <<tokens, saved, kept, stale, cleanup, uncleared>>

Removal == clearing # None /\ (ReadFirstPage(clearing) \/ DeletePage(clearing))
Clean(p) == ReadPage(p) \/ DeleteStale(p)

TracesNext ==
  \/ SaveTrace \/ WeekPasses \/ ClearingFails \/ Removal
  \/ \E p \in Process : Timer(p) \/ Clean(p) \/ CleanupFails(p)
  \/ \E product \in Product : StartClearing(product)

\* The timers go on and requests are answered.
TracesFairness ==
  \A p \in Process : WF_tracesVars(Timer(p)) /\ WF_tracesVars(Clean(p))

TracesSpec == TracesInit /\ [][TracesNext]_tracesVars

TracesFairSpec == TracesSpec /\ TracesFairness

-----------------------------------------------------------------------------
(***************************************************************************)
(* A trace that is older than a week is removed in the end ("Cleans up     *)
(* stale traces older than 1 week", sso-traces/index.ts:155), though other *)
(* processes and the API delete traces while a cleanup pages through them, *)
(* new ones move the pages, and cleanups are cut short.                    *)
(***************************************************************************)
StaleRemoved == \A t \in Trace : (t \in kept /\ t <= stale) ~> t \notin kept

(***************************************************************************)
(* A removal of a product's traces that ends without a failure has removed *)
(* those that were there when it began (sso-traces/index.ts:226), where    *)
(* the engine gives tokens.  Without them it ends after the first page.    *)
(***************************************************************************)
ProductCleared == tokens => uncleared = {}
=============================================================================
