--------------------------- MODULE Processes_proofs ---------------------------
(***************************************************************************)
(* What the default certificate and the removal of traces guarantee for    *)
(* any number of processes, calls, certificates, traces and failures.      *)
(***************************************************************************)
EXTENDS Processes, EventQueue_proofs, FiniteSetTheorems, WellFoundedInduction, TLAPS

-----------------------------------------------------------------------------
(* The default certificate.                                                *)

\* Nobody is about to replace the record that a process has copied.
SoleIsSafe == \A p \in sole : Usable(cached[p]) => cached[p] = record /\ Replacing = {}

\* Who replaces the record alone replaces one that cannot be used, and by the
\* copy of its process.
AloneIsRight ==
  \A c \in Replacing \ met :
    /\ Replacing = {c} /\ ~Usable(record)
    /\ call[c] = "put" => cached[ProcessOf[c]] = mine[c]

CertInv == CertTypeOK /\ SoleIsSafe /\ AloneIsRight

-----------------------------------------------------------------------------
LEMMA CertInitInv == CertificateAssumption /\ CertInit => CertInv
BY DEF CertificateAssumption, CertInit, CertInv, CertTypeOK, SoleIsSafe, AloneIsRight, Replacing

\* A call joins those that replace the record.
LEMMA JoinsReplacing ==
  ASSUME CertificateAssumption, CertInv, NEW c \in Caller, c \notin Replacing, Replaces(c),
         Replacing' = Replacing \cup {c}
  PROVE  \A d \in Replacing' \ met' : d = c /\ Replacing' = {c}
BY DEF Replaces, CertInv, AloneIsRight

LEMMA BeginStep ==
  ASSUME CertificateAssumption, CertInv, NEW c \in Caller, Begin(c) PROVE CertInv'
<1>1. /\ call[c] = "idle" /\ call' = [call EXCEPT ![c] = "get"]
      /\ UNCHANGED <<record, cached, up, mine, expired, used, met, sole, events>>
  BY DEF Begin
<1>2. CertTypeOK'
  BY <1>1 DEF CertInv, CertTypeOK
<1>3. Replacing' = Replacing
  BY <1>1 DEF Replacing, CertInv, CertTypeOK
<1>4. SoleIsSafe'
  BY <1>1, <1>3 DEF CertInv, SoleIsSafe, Usable
<1>5. AloneIsRight'
  BY <1>1, <1>3 DEF CertInv, CertTypeOK, AloneIsRight, Usable
<1>. QED
  BY <1>2, <1>4, <1>5 DEF CertInv

\* Types and copies when a call generates a certificate.
LEMMA GenerateStep ==
  ASSUME CertificateAssumption, CertInv, NEW c \in Caller, Generate(c),
         ~Usable(record) \/ c \in Replacing,
         UNCHANGED <<record, expired, events>>, met' \subseteq Caller
  PROVE  /\ CertTypeOK' /\ SoleIsSafe'
         /\ Replacing' = Replacing \cup {c}
         /\ call'[c] = "put" /\ cached'[ProcessOf[c]] = mine'[c]
         /\ \A d \in Caller \ {c} : call'[d] = call[d] /\ mine'[d] = mine[d]
<1>. DEFINE p == ProcessOf[c]
<1>1. p \in Process
  BY DEF CertificateAssumption
<1>2. PICK x \in Certificate \ used :
        /\ cached' = [cached EXCEPT ![p] = x]
        /\ call' = [call EXCEPT ![c] = "put"] /\ mine' = [mine EXCEPT ![c] = x]
        /\ used' = used \cup {x} /\ sole' = sole \ {p}
        /\ UNCHANGED up
  BY DEF Generate
<1>3. x # None
  BY DEF CertificateAssumption
<1>4. CertTypeOK'
  BY <1>1, <1>2, <1>3 DEF CertInv, CertTypeOK
<1>5. SoleIsSafe'
  BY <1>1, <1>2 DEF CertInv, CertTypeOK, SoleIsSafe, Usable
<1>6. Replacing' = Replacing \cup {c}
  BY <1>2 DEF CertInv, CertTypeOK, Replacing
<1>. QED
  BY <1>1, <1>2, <1>4, <1>5, <1>6 DEF CertInv, CertTypeOK

LEMMA GetStep ==
  ASSUME CertificateAssumption, CertInv, NEW c \in Caller, Get(c) PROVE CertInv'
<1>. DEFINE p == ProcessOf[c]
<1>1. p \in Process /\ call[c] = "get" /\ c \notin Replacing
      /\ UNCHANGED <<record, expired, events>>
  BY DEF CertificateAssumption, Get, Replacing
<1>2. CASE record = None /\ Generate(c) /\ Replaces(c)
  <2>1. ~Usable(record)
    BY <1>2 DEF Usable
  <2>2. met' \subseteq Caller
    BY <1>2 DEF Replaces, Replacing, CertInv, CertTypeOK
  <2>3. /\ CertTypeOK' /\ SoleIsSafe'
        /\ Replacing' = Replacing \cup {c}
        /\ cached'[ProcessOf[c]] = mine'[c]
    BY <1>1, <1>2, <2>1, <2>2, GenerateStep
  <2>4. \A d \in Replacing' \ met' : d = c /\ Replacing' = {c}
    BY <1>1, <1>2, <2>3, JoinsReplacing
  <2>5. AloneIsRight'
    BY <1>1, <2>1, <2>3, <2>4 DEF AloneIsRight, Usable
  <2>. QED
    BY <2>3, <2>5 DEF CertInv
<1>3. CASE /\ record # None /\ Usable(record) /\ Returns(c) /\ UNCHANGED <<met, used>>
           /\ cached' = [cached EXCEPT ![p] = record]
           /\ sole' = IF Replacing = {} THEN sole \cup {p} ELSE sole \ {p}
  <2>1. call' = [call EXCEPT ![c] = "idle"] /\ mine' = [mine EXCEPT ![c] = None]
        /\ up' = [up EXCEPT ![p] = "serving"]
    BY <1>3 DEF Returns
  <2>2. Replacing' = Replacing
    BY <1>1, <2>1 DEF Replacing, CertInv, CertTypeOK
  <2>3. Replacing \subseteq met
    BY <1>3 DEF CertInv, AloneIsRight
  <2>4. CertTypeOK'
    BY <1>1, <1>3, <2>1 DEF CertInv, CertTypeOK
  <2>5. SoleIsSafe'
    BY <1>1, <1>3, <2>2 DEF CertInv, CertTypeOK, SoleIsSafe, Usable
  <2>6. AloneIsRight'
    BY <1>3, <2>2, <2>3 DEF AloneIsRight
  <2>. QED
    BY <2>4, <2>5, <2>6 DEF CertInv
<1>4. CASE /\ record # None /\ ~Usable(record) /\ Replaces(c) /\ UNCHANGED <<mine, up, used>>
           /\ call' = [call EXCEPT ![c] = "expired"]
           /\ cached' = [cached EXCEPT ![p] = record]
           /\ sole' = sole \ {p}
  <2>1. Replacing' = Replacing \cup {c}
    BY <1>4 DEF Replacing, CertInv, CertTypeOK
  <2>2. \A d \in Replacing' \ met' : d = c /\ Replacing' = {c}
    BY <1>1, <1>4, <2>1, JoinsReplacing
  <2>3. met' \subseteq Caller
    BY <1>4 DEF Replaces, Replacing, CertInv, CertTypeOK
  <2>4. CertTypeOK'
    BY <1>1, <1>4, <2>3 DEF CertInv, CertTypeOK
  <2>5. SoleIsSafe'
    BY <1>1, <1>4 DEF CertInv, CertTypeOK, SoleIsSafe, Usable
  <2>6. AloneIsRight'
    BY <1>1, <1>4, <2>2 DEF AloneIsRight, CertInv, CertTypeOK, Usable
  <2>. QED
    BY <2>4, <2>5, <2>6 DEF CertInv
<1>. QED
  BY <1>1, <1>2, <1>3, <1>4 DEF Get

LEMMA RenewStep ==
  ASSUME CertificateAssumption, CertInv, NEW c \in Caller, Renew(c) PROVE CertInv'
<1>1. /\ call[c] = "expired" /\ c \in Replacing /\ Generate(c)
      /\ UNCHANGED <<record, expired, met, events>> /\ met \subseteq Caller
  BY DEF Renew, Replacing, CertInv, CertTypeOK
<1>2. /\ CertTypeOK' /\ SoleIsSafe' /\ Replacing' = Replacing
      /\ cached'[ProcessOf[c]] = mine'[c]
      /\ \A d \in Caller \ {c} : call'[d] = call[d] /\ mine'[d] = mine[d]
  BY <1>1, GenerateStep
<1>3. ASSUME NEW d \in Replacing \ met
      PROVE  /\ Replacing = {d} /\ d = c /\ ~Usable(record)'
  BY <1>1 DEF CertInv, AloneIsRight, Usable
<1>4. AloneIsRight'
  BY <1>1, <1>2, <1>3 DEF AloneIsRight
<1>. QED
  BY <1>2, <1>4 DEF CertInv

\* The calls that are over replace nothing any more; the record is what it was
\* or what one of them has put.
LEMMA PutStep ==
  ASSUME CertificateAssumption, CertInv, NEW c \in Caller, Put(c) PROVE CertInv'
<1>. DEFINE p == ProcessOf[c]
<1>1. /\ p \in Process /\ c \in Replacing /\ record' = mine[c] /\ mine[c] # None
      /\ call[c] = "put"
      /\ call' = [call EXCEPT ![c] = "idle"] /\ mine' = [mine EXCEPT ![c] = None]
      /\ up' = [up EXCEPT ![p] = "serving"]
      /\ sole' = IF Replacing = {c} /\ c \notin met THEN sole \cup {p} ELSE sole
      /\ UNCHANGED <<cached, expired, used, met, events>>
  BY DEF CertificateAssumption, Put, Returns, Replacing, CertInv, CertTypeOK
<1>2. CertTypeOK'
  BY <1>1 DEF CertInv, CertTypeOK
<1>3. Replacing' = Replacing \ {c}
  BY <1>1 DEF Replacing, CertInv, CertTypeOK
<1>4. SoleIsSafe'
  <2>1. \A q \in sole : ~Usable(cached[q])
    BY <1>1 DEF CertInv, SoleIsSafe
  <2>2. CASE Replacing = {c} /\ c \notin met
    <3>1. cached[p] = mine[c]
      BY <1>1, <2>2 DEF CertInv, AloneIsRight
    <3>. QED
      BY <1>1, <1>3, <2>1, <2>2, <3>1 DEF SoleIsSafe, Usable
  <2>3. CASE ~(Replacing = {c} /\ c \notin met)
    BY <1>1, <2>1, <2>3 DEF SoleIsSafe, Usable
  <2>. QED
    BY <2>2, <2>3
<1>5. Replacing' \subseteq met'
  BY <1>1, <1>3 DEF CertInv, AloneIsRight
<1>. QED
  BY <1>2, <1>4, <1>5 DEF CertInv, AloneIsRight

LEMMA FailsStep ==
  ASSUME CertificateAssumption, CertInv, NEW c \in Caller, CallFails(c) PROVE CertInv'
<1>1. /\ ProcessOf[c] \in Process /\ call[c] \in {"get", "put"}
      /\ record' = record \/ (record' = mine[c] /\ mine[c] # None)
      /\ call' = [call EXCEPT ![c] = "idle"] /\ mine' = [mine EXCEPT ![c] = None]
      /\ UNCHANGED <<cached, expired, used, met, sole>>
  BY DEF CertificateAssumption, CallFails
<1>2. CertTypeOK'
  <2>1. up' \in [Process -> {"starting", "serving", "failed"}] /\ events' \in 0..MaxEvents
    BY DEF CallFails, CertInv, CertTypeOK, CertificateAssumption
  <2>. QED
    BY <1>1, <2>1 DEF CertInv, CertTypeOK
<1>3. Replacing' = Replacing \ {c}
  BY <1>1 DEF Replacing, CertInv, CertTypeOK
<1>4. CASE c \in Replacing
  <2>1. SoleIsSafe'
    BY <1>1, <1>4 DEF CertInv, SoleIsSafe, Usable
  <2>2. Replacing' \subseteq met'
    BY <1>1, <1>3, <1>4 DEF CertInv, AloneIsRight
  <2>. QED
    BY <1>2, <2>1, <2>2 DEF CertInv, AloneIsRight
<1>5. CASE c \notin Replacing
  <2>1. record' = record /\ Replacing' = Replacing
    BY <1>1, <1>3, <1>5 DEF Replacing, CertInv, CertTypeOK
  <2>2. SoleIsSafe'
    BY <1>1, <2>1 DEF CertInv, SoleIsSafe, Usable
  <2>3. \A d \in Replacing : call'[d] = call[d] /\ mine'[d] = mine[d]
    BY <1>1, <1>5 DEF CertInv, CertTypeOK, Replacing
  <2>4. AloneIsRight'
    BY <1>1, <2>1, <2>3 DEF CertInv, AloneIsRight, Usable
  <2>. QED
    BY <1>2, <2>2, <2>4 DEF CertInv
<1>. QED
  BY <1>4, <1>5

LEMMA RestartStep ==
  ASSUME CertificateAssumption, CertInv, NEW p \in Process, Restart(p) PROVE CertInv'
<1>1. /\ cached' = [cached EXCEPT ![p] = None] /\ sole' = sole \ {p}
      /\ call' = [c \in Caller |-> IF ProcessOf[c] = p THEN "idle" ELSE call[c]]
      /\ mine' = [c \in Caller |-> IF ProcessOf[c] = p THEN None ELSE mine[c]]
      /\ UNCHANGED <<record, expired, used, met>>
  BY DEF Restart
<1>2. CertTypeOK'
  <2>1. up' \in [Process -> {"starting", "serving", "failed"}] /\ events' \in 0..MaxEvents
    BY DEF Restart, CertInv, CertTypeOK, CertificateAssumption
  <2>. QED
    BY <1>1, <2>1 DEF CertInv, CertTypeOK
<1>3. Replacing' = {c \in Replacing : ProcessOf[c] # p}
  BY <1>1 DEF Replacing, CertInv, CertTypeOK
<1>4. SoleIsSafe'
  BY <1>1, <1>3 DEF CertInv, CertTypeOK, SoleIsSafe, Usable
<1>5. AloneIsRight'
  <2>. SUFFICES ASSUME NEW c \in Replacing' \ met'
                PROVE  /\ Replacing' = {c} /\ ~Usable(record)'
                       /\ call'[c] = "put" => cached'[ProcessOf[c]] = mine'[c]
    BY DEF AloneIsRight
  <2>1. c \in Replacing \ met /\ c \in Caller /\ ProcessOf[c] # p
    BY <1>1, <1>3 DEF Replacing
  <2>2. ProcessOf[c] \in Process /\ call'[c] = call[c] /\ mine'[c] = mine[c]
    BY <1>1, <2>1 DEF CertificateAssumption
  <2>. QED
    BY <1>1, <1>3, <2>1, <2>2 DEF CertInv, CertTypeOK, AloneIsRight, Usable
<1>. QED
  BY <1>2, <1>4, <1>5 DEF CertInv

LEMMA CertInvStep == CertificateAssumption /\ CertInv /\ [CertNext]_certVars => CertInv'
<1>. SUFFICES ASSUME CertificateAssumption, CertInv, [CertNext]_certVars
              PROVE  CertInv'
  OBVIOUS
<1>1. ASSUME NEW x \in Certificate, Expire(x) PROVE CertInv'
  BY <1>1 DEF Expire, CertInv, CertTypeOK, SoleIsSafe, AloneIsRight, Replacing, Usable
<1>2. CASE UNCHANGED certVars
  BY <1>2 DEF certVars, CertInv, CertTypeOK, SoleIsSafe, AloneIsRight, Replacing, Usable
<1>. QED
  BY <1>1, <1>2, BeginStep, GetStep, RenewStep, PutStep, FailsStep, RestartStep DEF CertNext

LEMMA CertInvariant == ASSUME CertificateAssumption PROVE CertSpec => []CertInv
BY CertInitInv, CertInvStep, PTL DEF CertSpec

(***************************************************************************)
(* Every reachable state of the default certificate is well typed: what is *)
(* stored or copied has been generated, and who stores one has it at hand. *)
(***************************************************************************)
THEOREM CertTyped == ASSUME CertificateAssumption PROVE CertSpec => []CertTypeOK
BY CertInvariant, PTL DEF CertInv

(***************************************************************************)
(* Whatever processes start, fail or renew beside each other: a copy that  *)
(* was taken or stored while nobody else was about to replace the record   *)
(* is the record for as long as it can be used.                            *)
(***************************************************************************)
THEOREM SoleCopyStays == ASSUME CertificateAssumption PROVE CertSpec => []SoleCopyIsStored
<1>1. CertInv => SoleCopyIsStored
  BY DEF CertInv, SoleIsSafe, SoleCopyIsStored
<1>. QED
  BY <1>1, CertInvariant, PTL

-----------------------------------------------------------------------------
(* The removal of traces.                                                  *)
\* A set of numbers has a least one, and one that is bounded a greatest.
LEMMA Least == ASSUME NEW T \in SUBSET Nat, T # {} PROVE \E m \in T : \A k \in T : m <= k
<1>1. IsWellFoundedOn(OpToRel(<, Nat), Nat)
  BY NatLessThanWellFounded
<1>2. PICK m \in T : \A k \in T : <<k, m>> \notin OpToRel(<, Nat)
  BY <1>1, WFMin
<1>3. \A k \in T : ~(k < m)
  BY <1>2, Zenon DEF OpToRel
<1>. QED
  BY <1>3

LEMMA Greatest ==
  ASSUME NEW n \in Nat, NEW T \in SUBSET (1..n), T # {}
  PROVE  \E m \in T : \A k \in T : k <= m
<1>. DEFINE below == {n - t : t \in T}
<1>1. below \in SUBSET Nat /\ below # {}
  <2>1. \A t \in T : n - t \in Nat
    OBVIOUS
  <2>. QED
    BY <2>1, Zenon
<1>2. PICK b \in below : \A k \in below : b <= k
  BY <1>1, Least
<1>3. PICK m \in T : b = n - m
  BY <1>2
<1>4. ASSUME NEW k \in T PROVE k <= m
  <2>1. n - k \in below
    OBVIOUS
  <2>2. b <= n - k
    BY <1>2, <2>1
  <2>. QED
    BY <1>3, <2>2
<1>. QED
  BY <1>4

\* What a removal has in hand: traces of its product, of which, once no further
\* page is to come, all that are left are on the page.
ClearingFits == clearing # None =>
  /\ \A t \in clearing.first : t \in 1..saved /\ ProductOf[t] = clearing.product
  /\ clearing.at = "delete" /\ tokens /\ ~clearing.more =>
       clearing.first \cap kept \subseteq clearing.res

TracesInv == TracesTypeOK /\ ClearingFits /\ ProductCleared

\* The page from the start has the newest trace, if there is any.
LEMMA FirstPage ==
  ASSUME TracesAssumption, TracesInv, NEW T \in SUBSET kept, T # {}
  PROVE  FromOffset(T, 0) # {}
<1>1. T \in SUBSET (1..saved) /\ saved \in Nat
  BY DEF TracesInv, TracesTypeOK, TracesAssumption
<1>2. PICK m \in T : \A k \in T : k <= m
  BY <1>1, Greatest
<1>3. {u \in T : u > m} = {}
  <2>1. \A u \in T : ~(u > m)
    BY <1>1, <1>2
  <2>. QED
    BY <2>1, Zenon
<1>4. Cardinality({u \in T : u > m}) = 0
  BY <1>3, FS_EmptySet
<1>5. 0 \in 0..(0 + PageLimit - 1)
  BY DEF TracesAssumption
<1>. QED
  BY <1>2, <1>4, <1>5 DEF FromOffset

\* A page that is not empty begins at some trace.
LEMMA PageAtTrace ==
  ASSUME TracesAssumption, TracesInv, NEW offset \in Nat, FromOffset(kept, offset) # {}
  PROVE  offset <= MaxTraces
<1>1. saved \in Nat /\ saved <= MaxTraces /\ MaxTraces \in Nat /\ kept \subseteq 1..saved
  BY DEF TracesInv, TracesTypeOK, TracesAssumption
<1>2. PICK t \in kept : Cardinality({u \in kept : u > t}) \in offset..(offset + PageLimit - 1)
  BY DEF FromOffset
<1>3. IsFiniteSet(1..MaxTraces) /\ Cardinality(1..MaxTraces) <= MaxTraces
  BY <1>1, FS_Interval
<1>4. {u \in kept : u > t} \in SUBSET (1..MaxTraces)
  <2>1. kept \subseteq 1..MaxTraces
    BY <1>1
  <2>. QED
    BY <2>1, Zenon
<1>5. /\ Cardinality({u \in kept : u > t}) <= Cardinality(1..MaxTraces)
      /\ Cardinality({u \in kept : u > t}) \in Nat
  BY <1>3, <1>4, FS_Subset, FS_CardinalityType
<1>. QED
  BY <1>1, <1>2, <1>3, <1>5, FS_CardinalityType DEF TracesAssumption

LEMMA NextTokenIsTrace ==
  ASSUME TracesAssumption, NEW page \in SUBSET Trace, page # {}
  PROVE  NextToken(page) \in 0..MaxTraces
<1>1. MaxTraces \in Nat /\ page \in SUBSET Nat
  BY DEF TracesAssumption, Trace
<1>2. \E t \in page : \A u \in page : t <= u
  BY <1>1, Least
<1>3. (CHOOSE t \in page : \A u \in page : t <= u) \in page
  BY <1>2
<1>4. 0 \in 0..MaxTraces /\ page \subseteq 0..MaxTraces
  BY <1>1 DEF Trace
<1>. QED
  BY <1>3, <1>4, Zenon DEF NextToken

-----------------------------------------------------------------------------
LEMMA TracesInitInv == TracesAssumption /\ TracesInit => TracesInv
<1> SUFFICES ASSUME TracesAssumption, TracesInit PROVE TracesInv
  OBVIOUS
<1>1. Off \in Cleanup
  BY DEF Off, Cleanup, Position, TracesAssumption
<1>. QED
  BY <1>1 DEF TracesInit, TracesInv, TracesTypeOK, ClearingFits, ProductCleared, TracesAssumption

\* A step of a cleanup keeps what a removal relies on: it stores nothing.
LEMMA CleanupKeeps ==
  ASSUME TracesAssumption, TracesInv, NEW p \in Process, NEW c \in Cleanup,
         cleanup' = [cleanup EXCEPT ![p] = c], kept' \subseteq kept,
         failed' \in 0..MaxFaults, UNCHANGED <<tokens, saved, stale, clearing, uncleared>>
  PROVE  TracesInv'
BY DEF TracesInv, TracesTypeOK, ClearingFits, ProductCleared

LEMMA CleanupSteps ==
  ASSUME TracesAssumption, TracesInv, NEW p \in Process,
         Timer(p) \/ Clean(p) \/ CleanupFails(p)
  PROVE  TracesInv'
<1>. DEFINE c == cleanup[p]
<1>1. /\ c \in Cleanup /\ Off \in Cleanup /\ failed \in 0..MaxFaults
      /\ kept \subseteq Trace /\ saved \in 0..MaxTraces /\ stale \in 0..saved
      /\ MaxTraces \in Nat /\ PageLimit \in Nat \ {0} /\ MaxFaults \in Nat
  BY DEF TracesInv, TracesTypeOK, TracesAssumption, Off, Cleanup, Position, Trace
<1>2. CASE Timer(p)
  <2>1. [Off EXCEPT !.at = "page"] \in Cleanup
    BY <1>1 DEF Cleanup
  <2>. QED
    BY <1>1, <1>2, <2>1, CleanupKeeps DEF Timer, Set
<1>3. CASE ReadPage(p)
  <2>. DEFINE page == GetAllTraces(c.offset, c.last)
  <2>1. CASE page = {}
    <3>1. [c EXCEPT !.at = "delete"] \in Cleanup
      BY <1>1 DEF Cleanup
    <3>. QED
      BY <1>1, <1>3, <2>1, <3>1, CleanupKeeps DEF ReadPage, Set
  <2>2. CASE page # {}
    <3>. DEFINE d == [c EXCEPT !.offset = IF tokens THEN 0 ELSE @ + PageLimit,
                               !.last = NextToken(page),
                               !.staleTraces = @ \cup (page \cap 1..stale)]
    <3>1. page \subseteq Trace
      BY <1>1 DEF GetAllTraces, FromOffset, AfterToken
    <3>2. NextToken(page) \in 0..MaxTraces
      BY <2>2, <3>1, NextTokenIsTrace
    <3>3. (IF tokens THEN 0 ELSE c.offset + PageLimit) \in Position
      <4>1. c.offset \in Nat
        BY <1>1 DEF Cleanup, Position
      <4>2. CASE ~tokens
        <5>1. c.offset <= MaxTraces
          BY <2>2, <4>1, <4>2, PageAtTrace DEF GetAllTraces
        <5>. QED
          BY <1>1, <4>1, <4>2, <5>1 DEF Position
      <4>. QED
        BY <1>1, <4>2 DEF Position
    <3>4. c.staleTraces \cup (page \cap 1..stale) \in SUBSET Trace
      BY <1>1, <3>1 DEF Cleanup
    <3>5. d \in Cleanup
      <4>. HIDE DEF page
      <4>. QED
        BY <1>1, <3>2, <3>3, <3>4 DEF Cleanup
    <3>6. Set(p, d) /\ kept' = kept
      BY <1>3, <2>2 DEF ReadPage
    <3>. HIDE DEF d
    <3>. QED
      BY <1>1, <3>5, <3>6, CleanupKeeps DEF Set
  <2>. QED
    BY <2>1, <2>2
<1>4. CASE DeleteStale(p)
  <2>1. PICK t \in c.staleTraces :
          /\ kept' = kept \ {t}
          /\ Set(p, IF c.staleTraces = {t} THEN Off ELSE [c EXCEPT !.staleTraces = @ \ {t}])
    BY <1>4 DEF DeleteStale
  <2>2. [c EXCEPT !.staleTraces = @ \ {t}] \in Cleanup
    BY <1>1 DEF Cleanup
  <2>. QED
    BY <1>1, <2>1, <2>2, CleanupKeeps DEF Set
<1>5. CASE CleanupFails(p)
  <2>1. /\ cleanup' = [cleanup EXCEPT ![p] = Off] /\ kept' \subseteq kept
        /\ UNCHANGED <<tokens, saved, stale, clearing, uncleared>>
    BY <1>5 DEF CleanupFails
  <2>2. failed' \in 0..MaxFaults
    BY <1>1, <1>5 DEF CleanupFails
  <2>. QED
    BY <1>1, <2>1, <2>2, CleanupKeeps
<1>. QED
  BY <1>2, <1>3, <1>4, <1>5 DEF Clean

\* What a removal deletes was on a page that it read; it ends when nothing of
\* what it was to remove is left, if the engine gives tokens.
LEMMA ClearKeeps ==
  ASSUME TracesAssumption, TracesInv, NEW c \in Clearing \cup {None}, NEW remnant \in SUBSET Trace,
         Clear(c, remnant), kept' \subseteq kept, tokens => remnant = {}, ClearingFits'
  PROVE  TracesInv'
BY DEF TracesInv, TracesTypeOK, Clear, ProductCleared

LEMMA RemovalSteps ==
  ASSUME TracesAssumption, TracesInv,
         Removal \/ ClearingFails \/ \E product \in Product : StartClearing(product)
  PROVE  TracesInv'
<1>1. /\ kept \subseteq 1..saved /\ 1..saved \subseteq Trace /\ saved \in 0..MaxTraces
      /\ clearing \in Clearing \cup {None} /\ failed \in 0..MaxFaults /\ tokens \in BOOLEAN
      /\ MaxTraces \in Nat /\ MaxFaults \in Nat
  BY DEF TracesInv, TracesTypeOK, TracesAssumption, Trace
<1>2. ASSUME NEW product \in Product, StartClearing(product) PROVE TracesInv'
  <2>. DEFINE c == [product |-> product, at |-> "page", res |-> {}, more |-> FALSE,
                    first |-> Of(product)]
  <2>1. Of(product) \subseteq kept /\ \A t \in Of(product) : ProductOf[t] = product
    BY DEF Of
  <2>2. c \in Clearing
    BY <1>1, <2>1 DEF Clearing
  <2>3. Clear(c, {}) /\ kept' = kept
    BY <1>2 DEF StartClearing
  <2>4. ClearingFits'
    BY <1>1, <2>1, <2>3 DEF ClearingFits, Clear
  <2>. HIDE DEF c
  <2>. QED
    BY <2>2, <2>3, <2>4, ClearKeeps
<1>3. CASE ClearingFails
  BY <1>1, <1>3 DEF ClearingFails, TracesInv, TracesTypeOK, ClearingFits, ProductCleared
<1>4. ASSUME clearing # None, ReadFirstPage(clearing) PROVE TracesInv'
  <2>. DEFINE c == clearing
              res == FromOffset(Of(c.product), 0)
              d == [c EXCEPT !.at = "delete", !.res = res, !.more = tokens /\ res # Of(c.product)]
  <2>1. /\ c \in Clearing /\ res \subseteq Of(c.product) /\ Of(c.product) \subseteq kept
        /\ c.first \cap kept \subseteq Of(c.product)
    BY <1>1, <1>4 DEF Of, FromOffset, TracesInv, ClearingFits
  <2>2. CASE res = {}
    <3>1. Of(c.product) = {}
      BY <2>1, <2>2, FirstPage
    <3>2. Clear(None, {}) /\ kept' = kept
      BY <1>4, <2>1, <2>2, <3>1 DEF ReadFirstPage
    <3>3. ClearingFits'
      BY <3>2 DEF Clear, ClearingFits
    <3>. QED
      BY <3>2, <3>3, ClearKeeps
  <2>3. CASE res # {}
    <3>1. Clear(d, {}) /\ kept' = kept
      BY <1>4, <2>3 DEF ReadFirstPage
    <3>2. /\ d \in Clearing /\ d.first = c.first /\ d.product = c.product /\ d.res = res
          /\ d.at = "delete" /\ d.more = (tokens /\ res # Of(c.product))
      <4>1. res \in SUBSET Trace /\ (tokens /\ res # Of(c.product)) \in BOOLEAN
        BY <1>1, <2>1
      <4>. HIDE DEF res
      <4>. QED
        BY <1>1, <2>1, <4>1 DEF Clearing
    <3>. HIDE DEF d
    <3>3. ClearingFits'
      BY <1>4, <2>1, <3>1, <3>2 DEF ClearingFits, Clear, TracesInv
    <3>. QED
      BY <3>1, <3>2, <3>3, ClearKeeps
  <2>. QED
    BY <2>2, <2>3
<1>5. ASSUME clearing # None, DeletePage(clearing) PROVE TracesInv'
  <2>. DEFINE c == clearing
              d == [c EXCEPT !.at = "page", !.res = {}]
  <2>1. /\ c \in Clearing /\ c.at = "delete" /\ kept' = kept \ c.res /\ c.first \subseteq Trace
    BY <1>1, <1>5 DEF DeletePage, Clearing
  <2>2. CASE c.more
    <3>1. Clear(d, {})
      BY <1>5, <2>2 DEF DeletePage
    <3>2. d \in Clearing /\ d.first = c.first /\ d.product = c.product /\ d.at = "page"
      BY <2>1 DEF Clearing
    <3>. HIDE DEF d
    <3>3. ClearingFits'
      BY <1>5, <2>1, <3>1, <3>2 DEF ClearingFits, Clear, TracesInv
    <3>. QED
      BY <2>1, <3>1, <3>2, <3>3, ClearKeeps
  <2>3. CASE ~c.more
    <3>1. Clear(None, c.first \cap kept')
      BY <1>5, <2>3 DEF DeletePage
    <3>2. tokens => c.first \cap kept' = {}
      BY <1>5, <2>1, <2>3 DEF TracesInv, ClearingFits
    <3>3. ClearingFits'
      BY <3>1 DEF Clear, ClearingFits
    <3>4. c.first \cap kept' \in SUBSET Trace
      BY <2>1
    <3>. QED
      BY <2>1, <3>1, <3>2, <3>3, <3>4, ClearKeeps
  <2>. QED
    BY <2>2, <2>3
<1>. QED
  BY <1>2, <1>3, <1>4, <1>5 DEF Removal

LEMMA SaveTraceStep == TracesAssumption /\ TracesInv /\ SaveTrace => TracesInv'
<1> SUFFICES ASSUME TracesAssumption, TracesInv, SaveTrace PROVE TracesInv'
  OBVIOUS
<1>1. /\ saved \in Nat /\ saved < MaxTraces /\ MaxTraces \in Nat /\ saved' = saved + 1
      /\ kept \subseteq 1..saved /\ kept' = kept \cup {saved + 1} /\ stale \in 0..saved
      /\ UNCHANGED <<tokens, stale, cleanup, clearing, uncleared, failed>>
  BY DEF SaveTrace, TracesInv, TracesTypeOK, TracesAssumption
<1>2. TracesTypeOK'
  BY <1>1 DEF TracesInv, TracesTypeOK
<1>3. ClearingFits'
  BY <1>1 DEF TracesInv, ClearingFits
<1>. QED
  BY <1>1, <1>2, <1>3 DEF TracesInv, ProductCleared

LEMMA TracesNextStep == TracesAssumption /\ TracesInv /\ TracesNext => TracesInv'
<1> SUFFICES ASSUME TracesAssumption, TracesInv, TracesNext PROVE TracesInv'
  OBVIOUS
<1>1. CASE WeekPasses
  BY <1>1 DEF WeekPasses, TracesInv, TracesTypeOK, ClearingFits, ProductCleared, TracesAssumption
<1>. QED
  BY <1>1, SaveTraceStep, CleanupSteps, RemovalSteps DEF TracesNext

LEMMA TracesInvariant == ASSUME TracesAssumption PROVE TracesSpec => []TracesInv
<1>1. TracesInv /\ UNCHANGED tracesVars => TracesInv'
  BY DEF TracesInv, TracesTypeOK, ClearingFits, ProductCleared, tracesVars
<1>2. TracesInv /\ [TracesNext]_tracesVars => TracesInv'
  BY <1>1, TracesNextStep
<1>. QED
  BY <1>2, TracesInitInv, PTL DEF TracesSpec

(***************************************************************************)
(* Every reachable state is well typed: in particular a cleanup that pages *)
(* by offset never goes further than a page beyond the last trace          *)
(* (sso-traces/index.ts:156-173).                                          *)
(***************************************************************************)
THEOREM TracesTyped == ASSUME TracesAssumption PROVE TracesSpec => []TracesTypeOK
BY TracesInvariant, PTL DEF TracesInv

(***************************************************************************)
(* Whatever is saved, cleaned up or fails meanwhile, a removal by product  *)
(* that ends has removed all that was there when it began, where the       *)
(* engine gives tokens (sso-traces/index.ts:226-243).                      *)
(***************************************************************************)
THEOREM ClearedWhole == ASSUME TracesAssumption PROVE TracesSpec => []ProductCleared
BY TracesInvariant, PTL DEF TracesInv

-----------------------------------------------------------------------------
(***************************************************************************)
(* Side by side, whatever part a behaviour is of, every part keeps its     *)
(* types (queue.ts:90-158, x509.ts:60-120, sso-traces/index.ts:140-260).   *)
(***************************************************************************)
THEOREM PartsTyped ==
  ASSUME CertificateAssumption, TracesAssumption
  PROVE  PartSpec => []PartTypeOK
<1>1. PartInit => Init /\ CertInit /\ TracesInit
  BY DEF PartInit
<1>2. [PartNext]_partsVars =>
        [Next]_vars /\ [CertNext]_certVars /\ [TracesNext]_tracesVars
  BY DEF PartNext, partsVars, Next
<1>3. PartSpec => Spec /\ CertSpec /\ TracesSpec
  BY <1>1, <1>2, PTL DEF PartSpec, Spec, CertSpec, TracesSpec
<1>. QED
  BY <1>3, EventTyped, CertTyped, TracesTyped, PTL DEF PartTypeOK
===============================================================================
