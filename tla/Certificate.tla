------------------------------ MODULE Certificate ------------------------------
(***************************************************************************)
(* The default certificate (npm/src/saml/x509.ts), with which every        *)
(* process signs and decrypts: one record, and a copy in each process that *)
(* all calls of the process share and overwrite.  A step is what lies      *)
(* between two awaits.  A deployment with certificates of its own in its   *)
(* configuration does none of this.                                        *)
(***************************************************************************)
EXTENDS Absence, Deployment, Naturals

CONSTANTS
  Caller,
  ProcessOf,     \* the process of each caller
  Certificate,   \* those that may be generated
  MaxEvents      \* crashes and failures in all (a bound)

\* What is assumed of the constants, by the modules that instantiate this one.
CertificateAssumption ==
  None \notin Certificate /\ ProcessOf \in [Caller -> Process] /\ MaxEvents \in Nat

VARIABLES
  record,    \* the record 'default', or None
  cached,    \* cachedCertificate of each process, or None
  up,        \* whether the process is starting, serves, or has failed to start
  call,      \* where each call of getDefaultCertificate is
  mine,      \* the certificate each call is storing, or None
  expired,   \* the certificates that have expired
  used,      \* those that have been generated
  met,       \* history: calls that replaced the record while another did
  sole,      \* history: processes whose copy was the record at a time when
             \* nobody was about to replace it
  events     \* number of crashes and failures

certVars == <<record, cached, up, call, mine, expired, used, met, sole, events>>

CertTypeOK ==
  /\ record \in used \cup {None}
  /\ cached \in [Process -> used \cup {None}]
  /\ up \in [Process -> {"starting", "serving", "failed"}]
  /\ call \in [Caller -> {"idle", "get", "expired", "put"}]
  /\ mine \in [Caller -> used \cup {None}]
  /\ \A c \in Caller : mine[c] # None <=> call[c] = "put"
  /\ expired \subseteq used /\ used \subseteq Certificate
  /\ met \subseteq Caller /\ sole \subseteq Process /\ events \in 0..MaxEvents

CertInit ==
  /\ record = None
  /\ cached = [p \in Process |-> None]
  /\ up = [p \in Process |-> "starting"]
  /\ call = [c \in Caller |-> "idle"] /\ mine = [c \in Caller |-> None]
  /\ expired = {} /\ used = {} /\ met = {} /\ sole = {} /\ events = 0

-----------------------------------------------------------------------------
Usable(x) == x # None /\ x \notin expired
CallersOf(p) == {c \in Caller : ProcessOf[c] = p}
Replacing == {c \in Caller : call[c] \in {"expired", "put"}}

\* A process starts with one call (init) and serves when that has returned.
Returns(c) ==
  /\ call' = [call EXCEPT ![c] = "idle"] /\ mine' = [mine EXCEPT ![c] = None]
  /\ up' = [up EXCEPT ![ProcessOf[c]] = "serving"]

\* A call that finds a copy it can use returns it at once.
Begin(c) ==
  LET p == ProcessOf[c] IN
  /\ call[c] = "idle" /\ ~Usable(cached[p])
  /\ \/ up[p] = "serving"
     \/ up[p] = "starting" /\ \A d \in CallersOf(p) : call[d] = "idle"
  /\ call' = [call EXCEPT ![c] = "get"]
  /\ UNCHANGED <<record, cached, up, mine, expired, used, met, sole, events>>

\* Call c is about to replace the record; others may be.
Replaces(c) ==
  met' = IF Replacing \ {c} = {} THEN met \ {c} ELSE met \cup Replacing \cup {c}

Generate(c) ==
  \E x \in Certificate \ used :
    /\ cached' = [cached EXCEPT ![ProcessOf[c]] = x]
    /\ call' = [call EXCEPT ![c] = "put"] /\ mine' = [mine EXCEPT ![c] = x]
    /\ used' = used \cup {x} /\ sole' = sole \ {ProcessOf[c]}
    /\ UNCHANGED up

Get_Ignores(c) ==
  /\ call[c] = "get" /\ Generate(c) /\ Replaces(c)
  /\ UNCHANGED <<record, expired, events>>

\* What the store gives becomes the copy of all calls of the process.
Get(c) ==
  LET p == ProcessOf[c] IN
  /\ call[c] = "get"
  /\ \/ record = None /\ Generate(c) /\ Replaces(c)
     \/ /\ record # None
        /\ cached' = [cached EXCEPT ![p] = record]
        /\ sole' = IF Usable(record) /\ Replacing = {} THEN sole \cup {p} ELSE sole \ {p}
        /\ \/ Usable(record) /\ Returns(c) /\ UNCHANGED met
           \/ /\ ~Usable(record) /\ call' = [call EXCEPT ![c] = "expired"]
              /\ Replaces(c) /\ UNCHANGED <<mine, up>>
        /\ UNCHANGED used
  /\ UNCHANGED <<record, expired, events>>

Renew(c) ==
  /\ call[c] = "expired" /\ Generate(c)
  /\ UNCHANGED <<record, expired, met, events>>

Put(c) ==
  /\ call[c] = "put"
  /\ record' = mine[c]
  /\ sole' = IF Replacing = {c} /\ c \notin met THEN sole \cup {ProcessOf[c]} ELSE sole
  /\ Returns(c)
  /\ UNCHANGED <<cached, expired, used, met, events>>

\* A request fails, or is done and its answer lost; a process that was
\* starting remembers that for good (lib/jackson.ts:21).
CallFails(c) ==
  LET p == ProcessOf[c] IN
  /\ call[c] \in {"get", "put"} /\ events < MaxEvents
  /\ record' \in {record} \cup ({mine[c]} \ {None})
  /\ call' = [call EXCEPT ![c] = "idle"] /\ mine' = [mine EXCEPT ![c] = None]
  /\ up' = [up EXCEPT ![p] = IF @ = "starting" THEN "failed" ELSE @]
  /\ events' = events + 1
  /\ UNCHANGED <<cached, expired, used, met, sole>>

\* The process dies and another takes its place.
Restart(p) ==
  /\ events < MaxEvents /\ events' = events + 1
  /\ up' = [up EXCEPT ![p] = "starting"]
  /\ cached' = [cached EXCEPT ![p] = None]
  /\ call' = [c \in Caller |-> IF ProcessOf[c] = p THEN "idle" ELSE call[c]]
  /\ mine' = [c \in Caller |-> IF ProcessOf[c] = p THEN None ELSE mine[c]]
  /\ sole' = sole \ {p}
  /\ UNCHANGED <<record, expired, used, met>>

\* Thirty years pass.
Expire(x) ==
  /\ x \in used \ expired
  /\ expired' = expired \cup {x}
  /\ UNCHANGED <<record, cached, up, call, mine, used, met, sole, events>>

CertNext ==
  \/ \E c \in Caller : Begin(c) \/ Get(c) \/ Renew(c) \/ Put(c) \/ CallFails(c)
  \/ \E p \in Process : Restart(p)
  \/ \E x \in Certificate : Expire(x)

CertSpec == CertInit /\ [][CertNext]_certVars

-----------------------------------------------------------------------------
(***************************************************************************)
(* A copy taken or stored while no other call was about to replace it      *)
(* stays the record until it expires, whatever processes start, fail or    *)
(* renew: identity providers are given one certificate (x509.ts:85-100).   *)
(* Processes that start together on an empty store may keep different ones.*)
(***************************************************************************)
SoleCopyIsStored ==
  \A p \in sole : Usable(cached[p]) => cached[p] = record
=============================================================================
