------------------------ MODULE Directories_proofs ------------------------
(***************************************************************************)
(* What the records of directories and the requests of their providers     *)
(* guarantee, for any number of directories, callers, users, groups and    *)
(* requests under way.                                                     *)
(*                                                                         *)
(* First DirectoryRecords: the calls on a directory's own record.          *)
(***************************************************************************)
EXTENDS Directories, TLAPS

\* What a call has in hand where it is.
CallsFit ==
  \A p \in Caller : call[p] # None =>
    /\ call[p].at = "put" /\ call[p].op # "create" =>
         call[p].saved \in Record /\ call[p].change \in Change \cup Granted
    /\ call[p].at = "read" => call[p].change \in Change \cup Granted
    /\ call[p].at = "notify" /\ call[p].op # "delete" => call[p].saved \in Record
    /\ call[p].at \in Kept \cup {"config"} => call[p].op = "delete"
    /\ call[p].at \in {"get", "grant", "read"} => call[p].op # "create"
    /\ call[p].at \in {"grant", "read", "put"} => call[p].op # "delete"

\* Nothing is known of a directory before its record is put, and no other call
\* is about it.
Unborn ==
  /\ \A d \in DirectoryId \ born : config[d] = None /\ want[d] = New
  /\ \A p \in Caller : call[p] # None =>
       IF call[p].op = "create" /\ call[p].at = "put"
       THEN /\ call[p].on \notin born
            /\ \A q \in Caller \ {p} : call[q] # None => call[q].on # call[p].on
       ELSE call[p].on \in born

\* A record about to be put is the one that is stored, with nobody else about
\* to put, unless updates met each other or a deletion.
PutsAlone ==
  \A p \in Caller :
    /\ call[p] # None
    /\ call[p].at = "put" /\ call[p].op # "create" /\ call[p].on \notin crossed
    => call[p].saved = config[call[p].on] /\ ~Meets(p, {"put"})

\* A stored record is what was asked for, whole and in the index.
Intact ==
  \A d \in born \ crossed : config[d] # None =>
    config[d] = want[d] /\ config[d].whole /\ d \in listed

\* What a deletion has still to delete when it is at some place.
Left(label) == CASE label = "groups" -> Kept [] label = "users" -> {"users", "logs"}
                 [] label = "logs" -> {"logs"} [] OTHER -> {}

LeftIsPending ==
  \A e \in kept : config[e[1]] = None =>
    \/ e[1] \in abandoned
    \/ \E p \in Caller : call[p] # None /\ call[p].on = e[1] /\ e[2] \in Left(call[p].at)

\* What is the case with a directory, as the webhook is to know it.
StateOf(d) ==
  IF config[d] = None THEN "gone" ELSE IF config[d].active THEN "active" ELSE "inactive"

\* The webhook knows that, or one call is about to tell it.
TellersRight ==
  \A d \in born \ (crossed \cup unheard) :
    /\ \A p \in Caller : call[p] # None /\ call[p].on = d /\ call[p].at \in Telling =>
         EventOf(p) = StateOf(d) /\ ~Meets(p, Telling)
    /\ \/ heard[d] = StateOf(d)
       \/ \E p \in Caller : call[p] # None /\ call[p].on = d /\ call[p].at \in Telling

RecordsInv ==
  /\ RecordsTypeOK /\ CallsFit /\ Unborn /\ PutsAlone /\ Intact /\ LeftIsPending
  /\ TellersRight

-----------------------------------------------------------------------------
\* The record that an update puts.
LEMMA WithFacts ==
  ASSUME NEW record \in Record, NEW change \in Change \cup Granted
  PROVE  /\ With(record, change) \in Record
         /\ With(record, change).whole = record.whole
         /\ change.of # "active" => With(record, change).active = record.active
<1>1. CASE change \in Change /\ change.of = "active"
  <2>1. change.to \in BOOLEAN
    BY <1>1 DEF Change
  <2>. QED
    BY <1>1, <2>1 DEF With, Record
<1>2. CASE change \in Change /\ change.of = "webhook"
  <2>1. change.to \in BOOLEAN
    BY <1>2 DEF Change
  <2>. QED
    BY <1>2, <2>1 DEF With, Record
<1>3. CASE change \in Granted
  <2>1. change.of = "grant" /\ change.to \in Grant
    BY <1>3 DEF Granted
  <2>. QED
    BY <1>3, <2>1 DEF With, Record
<1>. QED
  BY <1>1, <1>2, <1>3 DEF Change

LEMMA NewFacts == New \in Record /\ New.whole /\ New.active
BY DEF New, Empty, Record

LEMMA Moved ==
  ASSUME RecordsInv, NEW p \in Caller, NEW c, Move(p, c)
  PROVE  call'[p] = c /\ \A q \in Caller \ {p} : call'[q] = call[q]
BY DEF Move, RecordsInv, RecordsTypeOK

LEMMA InitInv == RecordsAssumption /\ RecordsInit => RecordsInv
<1>. SUFFICES ASSUME RecordsAssumption, RecordsInit PROVE RecordsInv
  OBVIOUS
<1>1. RecordsTypeOK
  BY NewFacts DEF RecordsInit, RecordsTypeOK, RecordsAssumption
<1>. QED
  BY <1>1 DEF RecordsInit, RecordsInv, CallsFit, Unborn, PutsAlone, Intact, LeftIsPending,
              TellersRight

\* A call arrives: it is the only one to create its directory, or about one
\* that is known.
LEMMA ArriveStep ==
  ASSUME RecordsAssumption, RecordsInv, NEW p \in Caller,
         NEW op \in {"create", "update", "authorize", "delete"}, NEW d \in DirectoryId,
         NEW change \in Change \cup {None}, NEW label \in {"put", "read", "get"},
         Arrive(p, op, d, change, label),
         IF op = "create"
         THEN /\ label = "put" /\ d \notin born
              /\ \A q \in Caller : call[q] # None => call[q].on # d
         ELSE d \in born /\ (label = "get" \/ (label = "read" /\ op = "update" /\ change \in Change))
  PROVE  RecordsInv'
<1>. DEFINE c == [op |-> op, on |-> d, change |-> change, saved |-> None, at |-> label]
<1>1. c \in Call /\ c # None
  <2>1. c \in Call
    BY DEF Call
  <2>. QED
    BY <2>1 DEF RecordsAssumption
<1>2. /\ call[p] = None /\ Move(p, c) /\ calls' \in 0..MaxCalls
      /\ UNCHANGED <<faults, config, listed, kept, serving, born, history>>
  BY DEF Arrive, NoFault, RecordsInv, RecordsTypeOK, RecordsAssumption
<1>3. c.op = op /\ c.on = d /\ c.change = change /\ c.at = label
  OBVIOUS
<1>. HIDE DEF c
<1>4. call'[p] = c /\ \A q \in Caller \ {p} : call'[q] = call[q]
  BY <1>2, Moved
<1>5. RecordsTypeOK'
  BY <1>1, <1>2 DEF Move, RecordsInv, RecordsTypeOK, history
<1>6. CallsFit'
  BY <1>3, <1>4 DEF RecordsInv, CallsFit, Kept
<1>7. Unborn'
  BY <1>2, <1>3, <1>4 DEF RecordsInv, Unborn, history
<1>8. PutsAlone'
  BY <1>2, <1>3, <1>4 DEF RecordsInv, PutsAlone, Meets, Unborn, history
<1>9. Intact'
  BY <1>2 DEF RecordsInv, Intact, history
<1>10. LeftIsPending'
  BY <1>2, <1>4 DEF RecordsInv, LeftIsPending, history
<1>11. TellersRight'
  BY <1>2, <1>3, <1>4
     DEF RecordsInv, TellersRight, StateOf, EventOf, Meets, Telling, Kept, history
<1>. QED
  BY <1>5, <1>6, <1>7, <1>8, <1>9, <1>10, <1>11 DEF RecordsInv

LEMMA BeginStep ==
  ASSUME RecordsAssumption, RecordsInv, NEW p \in Caller, Begin(p) PROVE RecordsInv'
<1>1. born \subseteq DirectoryId
  BY DEF RecordsInv, RecordsTypeOK
<1>2. ASSUME NEW d \in DirectoryId \ born,
             \A q \in Caller : call[q] # None => call[q].on # d,
             Arrive(p, "create", d, None, "put")
      PROVE  RecordsInv'
  BY <1>2, ArriveStep
<1>3. ASSUME NEW d \in born, NEW change \in Change, Arrive(p, "update", d, change, "read")
      PROVE  RecordsInv'
  BY <1>1, <1>3, ArriveStep
<1>4. ASSUME NEW d \in born, Arrive(p, "authorize", d, None, "get") \/ Arrive(p, "delete", d, None, "get")
      PROVE  RecordsInv'
  BY <1>1, <1>4, ArriveStep
<1>. QED
  BY <1>2, <1>3, <1>4 DEF Begin

\* A call moves on or ends without a change of any record; what it leaves
\* undone is in the history.
LEMMA QuietStep ==
  ASSUME RecordsAssumption, RecordsInv, NEW p \in Caller, call[p] # None,
         NEW c \in Call \cup {None}, Move(p, c),
         UNCHANGED <<config, listed, kept, serving, born, heard, want>>,
         calls' \in 0..MaxCalls, faults' \in 0..MaxFaults,
         crossed \subseteq crossed', crossed' \subseteq born,
         unheard \subseteq unheard', unheard' \subseteq born,
         abandoned \subseteq abandoned', abandoned' \subseteq born,
         c # None => /\ c.on = call[p].on /\ c.op = call[p].op /\ c.op # "create"
                     /\ c.at \in {"grant", "read", "config"}
                     /\ c.at = "read" => c.change \in Change \cup Granted
                     /\ c.at = "config" <=> c.op = "delete",
         call[p].at \in Telling => call[p].on \in unheard',
         call[p].at \in Kept => call[p].on \in abandoned'
  PROVE  RecordsInv'
<1>1. call'[p] = c /\ \A q \in Caller \ {p} : call'[q] = call[q]
  BY Moved
<1>2. RecordsTypeOK'
  BY DEF Move, RecordsInv, RecordsTypeOK
<1>3. CallsFit'
  BY <1>1 DEF RecordsInv, CallsFit, Kept
<1>4. Unborn'
  BY <1>1 DEF RecordsInv, Unborn
<1>5. PutsAlone'
  BY <1>1 DEF RecordsInv, PutsAlone, Meets
<1>6. Intact'
  BY DEF RecordsInv, Intact
<1>7. LeftIsPending'
  <2>. SUFFICES ASSUME NEW e \in kept, config[e[1]] = None, e[1] \notin abandoned'
                PROVE  \E q \in Caller : /\ call'[q] # None /\ call'[q].on = e[1]
                                         /\ e[2] \in Left(call'[q].at)
    BY DEF LeftIsPending
  <2>1. PICK q \in Caller : call[q] # None /\ call[q].on = e[1] /\ e[2] \in Left(call[q].at)
    BY DEF RecordsInv, LeftIsPending
  <2>2. call[q].at \in Kept
    BY <2>1 DEF Left, Kept
  <2>3. q # p
    BY <2>1, <2>2
  <2>. QED
    BY <1>1, <2>1, <2>3
<1>8. TellersRight'
  BY <1>1 DEF RecordsInv, TellersRight, StateOf, EventOf, Meets, Telling, Kept
<1>. QED
  BY <1>2, <1>3, <1>4, <1>5, <1>6, <1>7, <1>8 DEF RecordsInv

\* Every call but a create before its put is about a directory that is known.
LEMMA OnBorn ==
  ASSUME RecordsInv, NEW p \in Caller, call[p] # None,
         call[p].op # "create" \/ call[p].at # "put"
  PROVE  call[p] \in Call /\ call[p].on \in born
BY DEF RecordsInv, RecordsTypeOK, Unborn

LEMMA FailStep ==
  ASSUME RecordsAssumption, RecordsInv, NEW p \in Caller, Fail(p) PROVE RecordsInv'
<1>1. /\ call[p] # None /\ Move(p, None)
      /\ UNCHANGED <<config, listed, kept, serving, born, heard, want, calls, crossed>>
      /\ unheard' = Mark(unheard, p, call[p].at \in Telling)
      /\ abandoned' = Mark(abandoned, p, call[p].at \in Kept)
  BY DEF Fail, Ends, Frame
<1>2. calls' \in 0..MaxCalls /\ faults' \in 0..MaxFaults
  BY DEF Fail, Frame, RecordsInv, RecordsTypeOK, RecordsAssumption
<1>3. call[p].at \in Telling => call[p].on \in born
  BY <1>1, OnBorn DEF Telling, Kept
<1>4. call[p].at \in Kept => call[p].at \in Telling
  BY DEF Telling
<1>5. /\ crossed \subseteq crossed' /\ crossed' \subseteq born
      /\ unheard \subseteq unheard' /\ unheard' \subseteq born
      /\ abandoned \subseteq abandoned' /\ abandoned' \subseteq born
      /\ call[p].at \in Telling => call[p].on \in unheard'
      /\ call[p].at \in Kept => call[p].on \in abandoned'
  BY <1>1, <1>3, <1>4 DEF Mark, RecordsInv, RecordsTypeOK
<1>. QED
  BY <1>1, <1>2, <1>5, QuietStep

\* A call reads a directory or asks Google.
LEMMA ReadsStep ==
  ASSUME RecordsAssumption, RecordsInv, NEW p \in Caller,
         GetDirectory(p) \/ ExchangeCode(p)
  PROVE  RecordsInv'
<1>1. /\ call[p] # None /\ call[p].at \in {"get", "grant"}
      /\ UNCHANGED <<config, listed, kept, serving, born, calls, faults, history>>
  BY DEF GetDirectory, ExchangeCode, At, Frame, NoFault
<1>2. call[p] \in Call /\ call[p].op # "create"
  BY <1>1 DEF RecordsInv, RecordsTypeOK, CallsFit
<1>3. PICK c \in Call \cup {None} :
        /\ Move(p, c)
        /\ c # None => /\ c.on = call[p].on /\ c.op = call[p].op
                       /\ c.at \in {"grant", "read", "config"}
                       /\ c.at = "read" => c.change \in Change \cup Granted
                       /\ c.at = "config" <=> c.op = "delete"
  <2>1. CASE GetDirectory(p)
    <3>1. \/ Move(p, None)
          \/ call[p].op = "delete" /\ Move(p, [call[p] EXCEPT !.at = "config"])
          \/ call[p].op # "delete" /\ Move(p, [call[p] EXCEPT !.at = "grant"])
      BY <2>1 DEF GetDirectory, Continue, Ends, After
    <3>2. ASSUME NEW label \in {"config", "grant"}
          PROVE  LET c == [call[p] EXCEPT !.at = label] IN
                 c \in Call /\ c.on = call[p].on /\ c.op = call[p].op /\ c.at = label
      BY <1>2 DEF Call
    <3>3. CASE Move(p, None)
      BY <3>3
    <3>4. CASE call[p].op = "delete" /\ Move(p, [call[p] EXCEPT !.at = "config"])
      BY <3>2, <3>4
    <3>5. CASE call[p].op # "delete" /\ Move(p, [call[p] EXCEPT !.at = "grant"])
      BY <3>2, <3>5
    <3>. QED
      BY <3>1, <3>3, <3>4, <3>5
  <2>2. CASE ExchangeCode(p)
    <3>1. PICK change \in Granted : Move(p, [call[p] EXCEPT !.change = change, !.at = "read"])
      BY <2>2 DEF ExchangeCode
    <3>. DEFINE new == [call[p] EXCEPT !.change = change, !.at = "read"]
    <3>2. /\ new \in Call /\ new.on = call[p].on /\ new.op = call[p].op /\ new.at = "read"
          /\ new.change = change
      BY <1>2 DEF Call
    <3>3. call[p].op # "delete"
      BY <1>1, <2>2 DEF ExchangeCode, At, RecordsInv, CallsFit
    <3>. QED
      BY <3>1, <3>2, <3>3
  <2>. QED
    BY <2>1, <2>2
<1>4. /\ call[p].at \notin Telling /\ call[p].at \notin Kept
      /\ UNCHANGED <<config, listed, kept, serving, born, heard, want>>
      /\ calls' \in 0..MaxCalls /\ faults' \in 0..MaxFaults
      /\ crossed \subseteq crossed' /\ crossed' \subseteq born
      /\ unheard \subseteq unheard' /\ unheard' \subseteq born
      /\ abandoned \subseteq abandoned' /\ abandoned' \subseteq born
  BY <1>1 DEF history, Telling, Kept, RecordsInv, RecordsTypeOK
<1>. QED
  BY <1>1, <1>2, <1>3, <1>4, QuietStep

\* An update has read the record and is about to put it back: if that was not
\* whole, or another is, the directory counts as crossed.
LEMMA ReadSavedStep ==
  ASSUME RecordsAssumption, RecordsInv, NEW p \in Caller, ReadSaved(p) PROVE RecordsInv'
<1>. DEFINE d == call[p].on
            found == IF config[d] = None THEN Empty ELSE config[d]
            c == [call[p] EXCEPT !.at = "put", !.saved = found]
<1>1. /\ call[p] # None /\ call[p].at = "read"
      /\ crossed' = Mark(crossed, p, ~found.whole \/ Meets(p, {"put"}))
      /\ UNCHANGED <<config, listed, kept, serving, born, calls, faults, heard, want,
                     unheard, abandoned>>
  BY DEF ReadSaved, At, Frame, NoFault
<1>2. /\ call[p] \in Call /\ d \in born /\ d \in DirectoryId /\ call[p].op # "create"
      /\ call[p].change \in Change \cup Granted
  BY <1>1, OnBorn DEF RecordsInv, RecordsTypeOK, CallsFit, Call
<1>3. crossed \subseteq crossed' /\ crossed' \subseteq born
  BY <1>1, <1>2 DEF Mark, RecordsInv, RecordsTypeOK
<1>4. calls' \in 0..MaxCalls /\ faults' \in 0..MaxFaults
  BY <1>1 DEF RecordsInv, RecordsTypeOK
<1>5. CASE Move(p, None)
  <2>1. /\ call[p].at \notin Telling /\ call[p].at \notin Kept
        /\ unheard \subseteq unheard' /\ unheard' \subseteq born
        /\ abandoned \subseteq abandoned' /\ abandoned' \subseteq born
    BY <1>1 DEF Telling, Kept, RecordsInv, RecordsTypeOK
  <2>. QED
    BY <1>1, <1>3, <1>4, <1>5, <2>1, QuietStep
<1>6. CASE Move(p, c)
  <2>1. found \in Record
    BY <1>2 DEF RecordsInv, RecordsTypeOK, Empty, Record
  <2>2. c \in Call /\ c.on = d /\ c.op = call[p].op /\ c.at = "put" /\ c.saved = found
        /\ c.change = call[p].change /\ c # None
    BY <1>2, <2>1 DEF Call, RecordsAssumption
  <2>3. call'[p] = c /\ \A q \in Caller \ {p} : call'[q] = call[q]
    BY <1>6, Moved
  <2>4. d \notin crossed' => config[d] # None /\ found = config[d] /\ ~Meets(p, {"put"})
    BY <1>1 DEF Mark, Empty
  <2>. HIDE DEF c, found
  <2>5. RecordsTypeOK'
    BY <1>1, <1>3, <1>6, <2>2 DEF Move, RecordsInv, RecordsTypeOK
  <2>6. CallsFit'
    BY <1>1, <1>2, <2>1, <2>2, <2>3 DEF RecordsInv, CallsFit, Kept
  <2>7. Unborn'
    BY <1>1, <1>2, <2>2, <2>3 DEF RecordsInv, Unborn
  <2>8. PutsAlone'
    <3>. SUFFICES ASSUME NEW q \in Caller, call'[q] # None, call'[q].at = "put",
                         call'[q].op # "create", call'[q].on \notin crossed'
                  PROVE  call'[q].saved = config[call'[q].on] /\ ~Meets(q, {"put"})'
      BY <1>1 DEF PutsAlone
    <3>1. CASE q = p
      BY <2>2, <2>3, <2>4, <3>1 DEF Meets
    <3>2. CASE q # p
      <4>1. call'[q].on # d
        <5>. SUFFICES ASSUME call[q].on = d PROVE FALSE
          BY <2>3, <3>2
        <5>. QED
          BY <2>3, <2>4, <3>2 DEF Meets
      <4>. QED
        BY <1>3, <2>2, <2>3, <3>2, <4>1 DEF RecordsInv, PutsAlone, Meets
    <3>. QED
      BY <3>1, <3>2
  <2>9. Intact'
    BY <1>1, <1>3 DEF RecordsInv, Intact
  <2>10. LeftIsPending'
    <3>1. call[p].at \notin Kept /\ \A k : k \notin Left(call[p].at)
      BY <1>1 DEF Kept, Left
    <3>. QED
      BY <1>1, <2>3, <3>1 DEF RecordsInv, LeftIsPending
  <2>11. TellersRight'
    BY <1>1, <1>3, <2>2, <2>3
       DEF RecordsInv, TellersRight, StateOf, EventOf, Meets, Telling, Kept
  <2>. QED
    BY <2>5, <2>6, <2>7, <2>8, <2>9, <2>10, <2>11 DEF RecordsInv
<1>. QED
  BY <1>5, <1>6 DEF ReadSaved, Ends

\* create puts a record of its own.
LEMMA PutRecordStep ==
  ASSUME RecordsAssumption, RecordsInv, NEW p \in Caller, PutRecord(p) PROVE RecordsInv'
<1>. DEFINE d == call[p].on
            c == [call[p] EXCEPT !.at = "notify", !.saved = New]
<1>1. /\ call[p] # None /\ call[p].at = "put" /\ call[p].op = "create"
      /\ config' = [config EXCEPT ![d] = New] /\ listed' = listed \cup {d}
      /\ born' = born \cup {d} /\ Move(p, c)
      /\ UNCHANGED <<kept, serving, calls, faults, history>>
  BY DEF PutRecord, At, NoFault
<1>2. call[p] \in Call /\ d \in DirectoryId /\ d \notin born
      /\ \A q \in Caller \ {p} : call[q] # None => call[q].on # d
  BY <1>1 DEF RecordsInv, RecordsTypeOK, Unborn, Call
<1>3. c \in Call /\ c.on = d /\ c.op = "create" /\ c.at = "notify" /\ c.saved = New /\ c # None
  BY <1>1, <1>2, NewFacts DEF Call, RecordsAssumption
<1>4. call'[p] = c /\ \A q \in Caller \ {p} : call'[q] = call[q]
  BY <1>1, Moved
<1>5. New # None /\ config'[d] = New /\ \A e \in DirectoryId \ {d} : config'[e] = config[e]
  BY <1>1, <1>2, NewFacts DEF RecordsInv, RecordsTypeOK, RecordsAssumption
<1>. HIDE DEF c
<1>6. RecordsTypeOK'
  BY <1>1, <1>2, <1>3, <1>5, NewFacts DEF Move, RecordsInv, RecordsTypeOK, history
<1>7. CallsFit'
  BY <1>3, <1>4, NewFacts DEF RecordsInv, CallsFit, Kept
<1>8. Unborn'
  <2>1. \A e \in DirectoryId \ born' : config'[e] = None /\ want'[e] = New
    BY <1>1, <1>5 DEF RecordsInv, Unborn, history
  <2>2. ASSUME NEW q \in Caller, call'[q] # None
        PROVE  IF call'[q].op = "create" /\ call'[q].at = "put"
               THEN /\ call'[q].on \notin born'
                    /\ \A r \in Caller \ {q} : call'[r] # None => call'[r].on # call'[q].on
               ELSE call'[q].on \in born'
    <3>1. CASE q = p
      BY <1>1, <1>3, <1>4, <3>1
    <3>2. CASE q # p
      BY <1>1, <1>2, <1>3, <1>4, <2>2, <3>2 DEF RecordsInv, Unborn
    <3>. QED
      BY <3>1, <3>2
  <2>. QED
    BY <2>1, <2>2 DEF Unborn
<1>9. PutsAlone'
  <2>. SUFFICES ASSUME NEW q \in Caller, call'[q] # None, call'[q].at = "put",
                       call'[q].op # "create", call'[q].on \notin crossed'
                PROVE  call'[q].saved = config'[call'[q].on] /\ ~Meets(q, {"put"})'
    BY DEF PutsAlone
  <2>1. q # p /\ call[q].on # d /\ call'[q] = call[q]
    BY <1>2, <1>3, <1>4
  <2>2. call[q].on \in DirectoryId
    BY <2>1 DEF RecordsInv, RecordsTypeOK, Call
  <2>. QED
    BY <1>1, <1>3, <1>4, <1>5, <2>1, <2>2 DEF RecordsInv, PutsAlone, Meets, history
<1>10. Intact'
  BY <1>1, <1>2, <1>5, NewFacts DEF RecordsInv, RecordsTypeOK, Intact, Unborn, history
<1>11. LeftIsPending'
  <2>. SUFFICES ASSUME NEW e \in kept, config'[e[1]] = None, e[1] \notin abandoned
                PROVE  \E q \in Caller : /\ call'[q] # None /\ call'[q].on = e[1]
                                         /\ e[2] \in Left(call'[q].at)
    BY <1>1 DEF LeftIsPending, history
  <2>1. e[1] \in born
    BY DEF RecordsInv, RecordsTypeOK
  <2>2. config[e[1]] = None
    BY <1>2, <1>5, <2>1 DEF RecordsInv, RecordsTypeOK
  <2>3. PICK q \in Caller : call[q] # None /\ call[q].on = e[1] /\ e[2] \in Left(call[q].at)
    BY <2>2 DEF RecordsInv, LeftIsPending
  <2>. QED
    BY <1>2, <1>4, <2>1, <2>3
<1>12. TellersRight'
  <2>. SUFFICES ASSUME NEW e \in born' \ (crossed' \cup unheard')
                PROVE  /\ \A q \in Caller :
                            call'[q] # None /\ call'[q].on = e /\ call'[q].at \in Telling =>
                              EventOf(q)' = StateOf(e)' /\ ~Meets(q, Telling)'
                       /\ \/ heard'[e] = StateOf(e)'
                          \/ \E q \in Caller :
                               call'[q] # None /\ call'[q].on = e /\ call'[q].at \in Telling
    BY DEF TellersRight, Telling, Kept
  <2>1. CASE e = d
    BY <1>2, <1>3, <1>4, <1>5, <2>1, NewFacts DEF EventOf, StateOf, Meets, Telling
  <2>2. CASE e # d
    <3>1. e \in born \ (crossed \cup unheard) /\ e \in DirectoryId
      BY <1>1, <2>2 DEF history, RecordsInv, RecordsTypeOK
    <3>2. StateOf(e)' = StateOf(e)
      BY <1>5, <2>2, <3>1 DEF StateOf
    <3>. QED
      BY <1>1, <1>3, <1>4, <2>2, <3>1, <3>2 DEF RecordsInv, TellersRight, EventOf, Meets, history
  <2>. QED
    BY <2>1, <2>2
<1>. QED
  BY <1>6, <1>7, <1>8, <1>9, <1>10, <1>11, <1>12 DEF RecordsInv

\* update puts the record it has read, with its change.
LEMMA PutSavedStep ==
  ASSUME RecordsAssumption, RecordsInv, NEW p \in Caller, PutSaved(p) PROVE RecordsInv'
<1>. DEFINE d == call[p].on
            record == With(call[p].saved, call[p].change)
            tells == call[p].change.of = "active" /\ record.whole
            c == [call[p] EXCEPT !.at = "notify", !.saved = record]
<1>1. /\ call[p] # None /\ call[p].at = "put" /\ call[p].op # "create"
      /\ config' = [config EXCEPT ![d] = record]
      /\ IF tells THEN Move(p, c) ELSE Move(p, None)
      /\ want' = [want EXCEPT ![d] = With(@, call[p].change)]
      /\ unheard' = Mark(unheard, p, tells /\ Meets(p, Telling))
      /\ UNCHANGED <<serving, calls, born, faults, listed, kept, heard, crossed, abandoned>>
  BY DEF PutSaved, At, Frame, NoFault, Ends
<1>2. /\ call[p] \in Call /\ d \in born /\ d \in DirectoryId
      /\ call[p].saved \in Record /\ call[p].change \in Change \cup Granted
  BY <1>1, OnBorn DEF RecordsInv, RecordsTypeOK, CallsFit, Call
<1>3. /\ record \in Record /\ record.whole = call[p].saved.whole /\ record # None
      /\ call[p].change.of # "active" => record.active = call[p].saved.active
  BY <1>2, WithFacts DEF RecordsAssumption
<1>4. want[d] \in Record /\ With(want[d], call[p].change) \in Record
  BY <1>2, WithFacts DEF RecordsInv, RecordsTypeOK
<1>5. /\ c \in Call /\ c.on = d /\ c.op = call[p].op /\ c.at = "notify" /\ c.saved = record
      /\ c # None
  BY <1>2, <1>3 DEF Call, RecordsAssumption
<1>6. PICK new \in {None, c} : Move(p, new) /\ (new = c <=> tells)
  BY <1>1, <1>5
<1>7. call'[p] = new /\ \A q \in Caller \ {p} : call'[q] = call[q]
  BY <1>6, Moved
<1>8. /\ config'[d] = record /\ \A e \in DirectoryId \ {d} : config'[e] = config[e]
      /\ want'[d] = With(want[d], call[p].change)
      /\ \A e \in DirectoryId \ {d} : want'[e] = want[e]
  BY <1>1, <1>2 DEF RecordsInv, RecordsTypeOK
<1>9. unheard \subseteq unheard' /\ unheard' \subseteq born
  BY <1>1, <1>2 DEF Mark, RecordsInv, RecordsTypeOK
<1>10. d \notin crossed =>
         /\ config[d] # None /\ call[p].saved = config[d] /\ config[d] = want[d]
         /\ record.whole /\ d \in listed /\ ~Meets(p, {"put"})
  <2>. SUFFICES ASSUME d \notin crossed PROVE
         /\ config[d] # None /\ call[p].saved = config[d] /\ config[d] = want[d]
         /\ record.whole /\ d \in listed /\ ~Meets(p, {"put"})
    OBVIOUS
  <2>1. call[p].saved = config[d] /\ ~Meets(p, {"put"})
    BY <1>1 DEF RecordsInv, PutsAlone
  <2>2. config[d] # None
    BY <1>2, <2>1 DEF RecordsAssumption
  <2>. QED
    BY <1>2, <1>3, <2>1, <2>2 DEF RecordsInv, Intact
<1>. HIDE DEF c, record
<1>11. RecordsTypeOK'
  BY <1>1, <1>2, <1>3, <1>4, <1>5, <1>6, <1>8, <1>9 DEF Move, RecordsInv, RecordsTypeOK
<1>12. CallsFit'
  BY <1>1, <1>3, <1>5, <1>7 DEF RecordsInv, CallsFit, Kept
<1>13. Unborn'
  <2>1. \A e \in DirectoryId \ born' : config'[e] = None /\ want'[e] = New
    BY <1>1, <1>2, <1>8 DEF RecordsInv, Unborn
  <2>. QED
    BY <1>1, <1>2, <1>5, <1>7, <2>1 DEF RecordsInv, Unborn
<1>14. PutsAlone'
  <2>. SUFFICES ASSUME NEW q \in Caller, call'[q] # None, call'[q].at = "put",
                       call'[q].op # "create", call'[q].on \notin crossed
                PROVE  call'[q].saved = config'[call'[q].on] /\ ~Meets(q, {"put"})'
    BY <1>1 DEF PutsAlone
  <2>1. q # p /\ call'[q] = call[q]
    BY <1>5, <1>7
  <2>2. call[q].on \in DirectoryId /\ call[q].saved = config[call[q].on] /\ ~Meets(q, {"put"})
    BY <2>1 DEF RecordsInv, RecordsTypeOK, Call, PutsAlone
  <2>3. call[q].on # d
    BY <1>1, <2>1, <2>2 DEF Meets
  <2>. QED
    BY <1>5, <1>7, <1>8, <2>1, <2>2, <2>3 DEF Meets
<1>15. Intact'
  <2>. SUFFICES ASSUME NEW e \in born \ crossed, config'[e] # None
                PROVE  config'[e] = want'[e] /\ config'[e].whole /\ e \in listed
    BY <1>1 DEF Intact
  <2>1. CASE e = d
    BY <1>8, <1>10, <2>1 DEF record
  <2>2. CASE e # d
    BY <1>8, <2>2 DEF RecordsInv, RecordsTypeOK, Intact
  <2>. QED
    BY <2>1, <2>2
<1>16. LeftIsPending'
  <2>. SUFFICES ASSUME NEW e \in kept, config'[e[1]] = None, e[1] \notin abandoned
                PROVE  \E q \in Caller : /\ call'[q] # None /\ call'[q].on = e[1]
                                         /\ e[2] \in Left(call'[q].at)
    BY <1>1 DEF LeftIsPending
  <2>1. e[1] \in DirectoryId /\ e[1] # d
    BY <1>3, <1>8 DEF RecordsInv, RecordsTypeOK
  <2>2. PICK q \in Caller : call[q] # None /\ call[q].on = e[1] /\ e[2] \in Left(call[q].at)
    BY <1>8, <2>1 DEF RecordsInv, LeftIsPending
  <2>. QED
    BY <1>7, <2>1, <2>2
<1>17. TellersRight'
  <2>. SUFFICES ASSUME NEW e \in born \ (crossed \cup unheard')
                PROVE  /\ \A q \in Caller :
                            call'[q] # None /\ call'[q].on = e /\ call'[q].at \in Telling =>
                              EventOf(q)' = StateOf(e)' /\ ~Meets(q, Telling)'
                       /\ \/ heard[e] = StateOf(e)'
                          \/ \E q \in Caller :
                               call'[q] # None /\ call'[q].on = e /\ call'[q].at \in Telling
    BY <1>1 DEF TellersRight, Telling, Kept
  <2>1. e \in born \ (crossed \cup unheard)
    BY <1>9
  <2>2. CASE e = d /\ tells
    <3>1. ~Meets(p, Telling)
      BY <1>1, <2>2 DEF Mark
    <3>2. call'[p] = c /\ call'[p].at \in Telling
      BY <1>5, <1>6, <1>7, <2>2 DEF Telling
    <3>3. EventOf(p)' = StateOf(e)'
      <4>1. call[p].op # "delete"
        BY <1>1 DEF RecordsInv, CallsFit
      <4>. QED
        BY <1>3, <1>5, <1>8, <2>2, <3>2, <4>1 DEF EventOf, StateOf
    <3>. QED
      BY <1>7, <2>2, <3>1, <3>2, <3>3, <1>5 DEF Meets
  <2>3. CASE e = d /\ ~tells
    <3>1. call'[p] = None
      BY <1>5, <1>6, <1>7, <2>3
    <3>2. StateOf(e)' = StateOf(e)
      BY <1>3, <1>8, <1>10, <2>3 DEF StateOf
    <3>3. call[p].at \notin Telling
      BY <1>1 DEF Telling, Kept
    <3>. QED
      BY <1>7, <2>1, <3>1, <3>2, <3>3 DEF RecordsInv, TellersRight, EventOf, Meets
  <2>4. CASE e # d
    <3>1. StateOf(e)' = StateOf(e)
      BY <1>8, <2>1, <2>4 DEF StateOf, RecordsInv, RecordsTypeOK
    <3>. QED
      BY <1>5, <1>6, <1>7, <2>1, <2>4, <3>1 DEF RecordsInv, TellersRight, EventOf, Meets
  <2>. QED
    BY <2>2, <2>3, <2>4
<1>. QED
  BY <1>11, <1>12, <1>13, <1>14, <1>15, <1>16, <1>17 DEF RecordsInv

\* A deletion deletes the record with its indexes.
LEMMA DropRecordStep ==
  ASSUME RecordsAssumption, RecordsInv, NEW p \in Caller, DropRecord(p) PROVE RecordsInv'
<1>. DEFINE d == call[p].on
            c == [call[p] EXCEPT !.at = "groups"]
<1>1. /\ call[p] # None /\ call[p].at = "config"
      /\ config' = [config EXCEPT ![d] = None] /\ listed' = listed \ {d}
      /\ Move(p, c)
      /\ crossed' = Mark(crossed, p, Meets(p, {"put"}))
      /\ unheard' = Mark(unheard, p, Meets(p, Telling))
      /\ UNCHANGED <<serving, calls, born, faults, kept, heard, want, abandoned>>
  BY DEF DropRecord, At, Continue, After, Frame, NoFault
<1>2. call[p] \in Call /\ d \in born /\ d \in DirectoryId /\ call[p].op = "delete"
  BY <1>1, OnBorn DEF RecordsInv, RecordsTypeOK, CallsFit, Call
<1>3. c \in Call /\ c.on = d /\ c.op = "delete" /\ c.at = "groups" /\ c # None
  BY <1>2 DEF Call, RecordsAssumption, Kept
<1>4. call'[p] = c /\ \A q \in Caller \ {p} : call'[q] = call[q]
  BY <1>1, Moved
<1>5. config'[d] = None /\ \A e \in DirectoryId \ {d} : config'[e] = config[e]
  BY <1>1, <1>2 DEF RecordsInv, RecordsTypeOK
<1>6. /\ crossed \subseteq crossed' /\ crossed' \subseteq born
      /\ unheard \subseteq unheard' /\ unheard' \subseteq born
  BY <1>1, <1>2 DEF Mark, RecordsInv, RecordsTypeOK
<1>. HIDE DEF c
<1>7. RecordsTypeOK'
  BY <1>1, <1>2, <1>3, <1>5, <1>6 DEF Move, RecordsInv, RecordsTypeOK
<1>8. CallsFit'
  BY <1>3, <1>4 DEF RecordsInv, CallsFit, Kept
<1>9. Unborn'
  <2>1. \A e \in DirectoryId \ born' : config'[e] = None /\ want'[e] = New
    BY <1>1, <1>2, <1>5 DEF RecordsInv, Unborn
  <2>. QED
    BY <1>1, <1>2, <1>3, <1>4, <2>1 DEF RecordsInv, Unborn
<1>10. PutsAlone'
  <2>. SUFFICES ASSUME NEW q \in Caller, call'[q] # None, call'[q].at = "put",
                       call'[q].op # "create", call'[q].on \notin crossed'
                PROVE  call'[q].saved = config'[call'[q].on] /\ ~Meets(q, {"put"})'
    BY DEF PutsAlone
  <2>1. q # p /\ call'[q] = call[q]
    BY <1>3, <1>4
  <2>2. call[q].on \in DirectoryId /\ call[q].saved = config[call[q].on] /\ ~Meets(q, {"put"})
    BY <1>6, <2>1 DEF RecordsInv, RecordsTypeOK, Call, PutsAlone
  <2>3. call[q].on # d
    BY <1>1, <2>1 DEF Meets, Mark
  <2>. QED
    BY <1>3, <1>4, <1>5, <2>1, <2>2, <2>3 DEF Meets
<1>11. Intact'
  <2>. SUFFICES ASSUME NEW e \in born \ crossed', config'[e] # None
                PROVE  config'[e] = want[e] /\ config'[e].whole /\ e \in listed'
    BY <1>1 DEF Intact
  <2>1. e \in DirectoryId /\ e # d
    BY <1>5 DEF RecordsInv, RecordsTypeOK
  <2>. QED
    BY <1>1, <1>5, <1>6, <2>1 DEF RecordsInv, Intact
<1>12. LeftIsPending'
  <2>. SUFFICES ASSUME NEW e \in kept, config'[e[1]] = None, e[1] \notin abandoned
                PROVE  \E q \in Caller : /\ call'[q] # None /\ call'[q].on = e[1]
                                         /\ e[2] \in Left(call'[q].at)
    BY <1>1 DEF LeftIsPending
  <2>1. e[1] \in DirectoryId /\ e[2] \in Kept
    BY DEF RecordsInv, RecordsTypeOK
  <2>2. CASE e[1] = d
    BY <1>3, <1>4, <2>1, <2>2 DEF Left
  <2>3. CASE e[1] # d
    <3>1. PICK q \in Caller : call[q] # None /\ call[q].on = e[1] /\ e[2] \in Left(call[q].at)
      BY <1>5, <2>1, <2>3 DEF RecordsInv, LeftIsPending
    <3>. QED
      BY <1>4, <2>3, <3>1
  <2>. QED
    BY <2>2, <2>3
<1>13. TellersRight'
  <2>. SUFFICES ASSUME NEW e \in born \ (crossed' \cup unheard')
                PROVE  /\ \A q \in Caller :
                            call'[q] # None /\ call'[q].on = e /\ call'[q].at \in Telling =>
                              EventOf(q)' = StateOf(e)' /\ ~Meets(q, Telling)'
                       /\ \/ heard[e] = StateOf(e)'
                          \/ \E q \in Caller :
                               call'[q] # None /\ call'[q].on = e /\ call'[q].at \in Telling
    BY <1>1 DEF TellersRight, Telling, Kept
  <2>1. CASE e = d
    <3>1. ~Meets(p, Telling)
      BY <1>1, <2>1 DEF Mark
    <3>2. call'[p].at \in Telling /\ EventOf(p)' = "gone" /\ StateOf(e)' = "gone"
      BY <1>3, <1>4, <1>5, <2>1 DEF Telling, Kept, EventOf, StateOf
    <3>. QED
      BY <1>3, <1>4, <2>1, <3>1, <3>2 DEF Meets
  <2>2. CASE e # d
    <3>1. StateOf(e)' = StateOf(e) /\ e \in born \ (crossed \cup unheard)
      BY <1>5, <1>6, <2>2 DEF StateOf, RecordsInv, RecordsTypeOK
    <3>. QED
      BY <1>3, <1>4, <2>2, <3>1 DEF RecordsInv, TellersRight, EventOf, Meets
  <2>. QED
    BY <2>1, <2>2
<1>. QED
  BY <1>7, <1>8, <1>9, <1>10, <1>11, <1>12, <1>13 DEF RecordsInv

\* A deletion goes on to what is stored besides: the webhook is told at the end.
LEMMA DropContentStep ==
  ASSUME RecordsAssumption, RecordsInv, NEW p \in Caller, DropContent(p) PROVE RecordsInv'
<1>. DEFINE d == call[p].on
<1>1. PICK k \in Kept :
        /\ call[p] # None /\ call[p].at = k
        /\ kept' = kept \ {<<d, k>>}
        /\ Move(p, [call[p] EXCEPT !.at = After(k)])
        /\ UNCHANGED <<serving, calls, born, faults, config, listed, history>>
  BY DEF DropContent, At, Continue, Frame, NoFault
<1>. DEFINE c == [call[p] EXCEPT !.at = After(k)]
<1>2. /\ call[p] \in Call /\ d \in born /\ call[p].op = "delete"
      /\ call[p].at \in Telling
  BY <1>1, OnBorn DEF RecordsInv, RecordsTypeOK, CallsFit, Call, Telling
<1>3. /\ After(k) \in {"users", "logs", "notify"}
      /\ \A l \in Left(k) : l = k \/ l \in Left(After(k))
  BY DEF After, Kept, Left
<1>4. c \in Call /\ c.on = d /\ c.op = "delete" /\ c.at = After(k) /\ c # None
  BY <1>2, <1>3 DEF Call, Kept, RecordsAssumption
<1>5. call'[p] = c /\ \A q \in Caller \ {p} : call'[q] = call[q]
  BY <1>1, Moved
<1>6. c.at \in Telling /\ c.at \notin {"put", "read", "get", "grant", "config"}
  BY <1>3, <1>4 DEF Telling, Kept
<1>. HIDE DEF c
<1>7. RecordsTypeOK'
  <2>1. kept' \subseteq born \X Kept /\ call' \in [Caller -> Call \cup {None}]
    BY <1>1, <1>4 DEF c, Move, RecordsInv, RecordsTypeOK
  <2>. QED
    BY <1>1, <2>1 DEF RecordsInv, RecordsTypeOK, history
<1>8. CallsFit'
  BY <1>4, <1>5, <1>6 DEF RecordsInv, CallsFit
<1>9. Unborn'
  BY <1>1, <1>2, <1>4, <1>5 DEF RecordsInv, Unborn, history
<1>10. PutsAlone'
  BY <1>1, <1>4, <1>5, <1>6 DEF RecordsInv, PutsAlone, Meets, history
<1>11. Intact'
  BY <1>1 DEF RecordsInv, Intact, history
<1>12. LeftIsPending'
  <2>. SUFFICES ASSUME NEW e \in kept', config[e[1]] = None, e[1] \notin abandoned
                PROVE  \E q \in Caller : /\ call'[q] # None /\ call'[q].on = e[1]
                                         /\ e[2] \in Left(call'[q].at)
    BY <1>1 DEF LeftIsPending, history
  <2>1. e \in kept /\ e = <<e[1], e[2]>> /\ e # <<d, k>>
    BY <1>1 DEF RecordsInv, RecordsTypeOK
  <2>2. PICK q \in Caller : call[q] # None /\ call[q].on = e[1] /\ e[2] \in Left(call[q].at)
    BY <2>1 DEF RecordsInv, LeftIsPending
  <2>3. CASE q = p
    BY <1>1, <1>3, <1>4, <1>5, <2>1, <2>2, <2>3
  <2>4. CASE q # p
    BY <1>5, <2>2, <2>4
  <2>. QED
    BY <2>3, <2>4
<1>13. TellersRight'
  <2>. SUFFICES ASSUME NEW e \in born \ (crossed \cup unheard)
                PROVE  /\ \A q \in Caller :
                            call'[q] # None /\ call'[q].on = e /\ call'[q].at \in Telling =>
                              EventOf(q)' = StateOf(e) /\ ~Meets(q, Telling)'
                       /\ \/ heard[e] = StateOf(e)
                          \/ \E q \in Caller :
                               call'[q] # None /\ call'[q].on = e /\ call'[q].at \in Telling
    BY <1>1 DEF TellersRight, Telling, Kept, history, StateOf
  <2>1. EventOf(p)' = EventOf(p)
    BY <1>2, <1>4, <1>5 DEF EventOf
  <2>2. \A q \in Caller : call'[q] # None /\ call'[q].on = e /\ call'[q].at \in Telling <=>
                          call[q] # None /\ call[q].on = e /\ call[q].at \in Telling
    BY <1>1, <1>2, <1>4, <1>5, <1>6
  <2>3. \A q \in Caller : EventOf(q)' = EventOf(q)
    BY <1>5, <2>1 DEF EventOf
  <2>. QED
    BY <1>1, <1>2, <1>4, <1>5, <1>6, <2>2, <2>3 DEF RecordsInv, TellersRight, Meets
<1>. QED
  BY <1>7, <1>8, <1>9, <1>10, <1>11, <1>12, <1>13 DEF RecordsInv

\* The webhook is told, and the call is over.
LEMMA NotifyStep ==
  ASSUME RecordsAssumption, RecordsInv, NEW p \in Caller, Notify(p) PROVE RecordsInv'
<1>. DEFINE d == call[p].on
<1>1. /\ call[p] # None /\ call[p].at = "notify" /\ Move(p, None)
      /\ heard' = [heard EXCEPT ![d] = EventOf(p)]
      /\ UNCHANGED <<serving, calls, born, faults, config, listed, kept, want, crossed,
                     unheard, abandoned>>
  BY DEF Notify, At, Ends, Frame, NoFault
<1>2. call[p] \in Call /\ d \in born /\ d \in DirectoryId /\ call[p].at \in Telling
  BY <1>1, OnBorn DEF RecordsInv, RecordsTypeOK, Telling
<1>3. call'[p] = None /\ \A q \in Caller \ {p} : call'[q] = call[q]
  BY <1>1, Moved
<1>4. heard'[d] = EventOf(p) /\ \A e \in DirectoryId \ {d} : heard'[e] = heard[e]
  BY <1>1, <1>2 DEF RecordsInv, RecordsTypeOK
<1>5. EventOf(p) \in {"gone", "active", "inactive"}
  BY DEF EventOf
<1>6. RecordsTypeOK'
  BY <1>1, <1>5 DEF Move, RecordsInv, RecordsTypeOK
<1>7. CallsFit' /\ Unborn' /\ Intact'
  BY <1>1, <1>3 DEF RecordsInv, CallsFit, Unborn, Intact
<1>8. PutsAlone'
  BY <1>1, <1>3 DEF RecordsInv, PutsAlone, Meets
<1>9. LeftIsPending'
  <2>1. \A k : k \notin Left(call[p].at)
    BY <1>1 DEF Left
  <2>. QED
    BY <1>1, <1>3, <2>1 DEF RecordsInv, LeftIsPending
<1>10. TellersRight'
  <2>. SUFFICES ASSUME NEW e \in born \ (crossed \cup unheard)
                PROVE  /\ \A q \in Caller :
                            call'[q] # None /\ call'[q].on = e /\ call'[q].at \in Telling =>
                              EventOf(q)' = StateOf(e) /\ ~Meets(q, Telling)'
                       /\ \/ heard'[e] = StateOf(e)
                          \/ \E q \in Caller :
                               call'[q] # None /\ call'[q].on = e /\ call'[q].at \in Telling
    BY <1>1 DEF TellersRight, Telling, Kept, StateOf
  <2>1. CASE e = d
    BY <1>1, <1>2, <1>3, <1>4, <2>1 DEF RecordsInv, TellersRight, Meets, EventOf
  <2>2. CASE e # d
    <3>1. e \in DirectoryId
      BY DEF RecordsInv, RecordsTypeOK
    <3>. QED
      BY <1>1, <1>2, <1>3, <1>4, <2>2, <3>1 DEF RecordsInv, TellersRight, Meets, EventOf
  <2>. QED
    BY <2>1, <2>2
<1>. QED
  BY <1>6, <1>7, <1>8, <1>9, <1>10 DEF RecordsInv

\* The provider's requests find directories and store things for them.
LEMMA ProviderStep ==
  ASSUME RecordsAssumption, RecordsInv, NEW d \in DirectoryId,
         Serve(d) \/ \E k \in Kept : StoreLate(d, k)
  PROVE  RecordsInv'
<1>1. UNCHANGED <<config, listed, call, calls, faults, born, heard, want, crossed, unheard>>
  BY DEF Serve, StoreLate, history
<1>2. d \in born
  BY DEF Serve, StoreLate, Whole, RecordsInv, RecordsTypeOK, Unborn
<1>3. /\ kept' \subseteq born \X Kept /\ serving' \subseteq born
      /\ abandoned \subseteq abandoned' /\ abandoned' \subseteq born
      /\ \A e \in kept' \ kept : config[e[1]] = None => e[1] \in abandoned'
  BY <1>2 DEF Serve, StoreLate, history, RecordsInv, RecordsTypeOK
<1>4. RecordsTypeOK'
  BY <1>1, <1>3 DEF RecordsInv, RecordsTypeOK
<1>5. CallsFit' /\ Unborn' /\ Intact'
  BY <1>1 DEF RecordsInv, CallsFit, Unborn, Intact
<1>6. PutsAlone' /\ TellersRight'
  BY <1>1 DEF RecordsInv, PutsAlone, Meets, TellersRight, StateOf, EventOf, Telling, Kept
<1>7. LeftIsPending'
  BY <1>1, <1>3 DEF RecordsInv, LeftIsPending
<1>. QED
  BY <1>4, <1>5, <1>6, <1>7 DEF RecordsInv

LEMMA InvStep == RecordsAssumption /\ RecordsInv /\ [RecordsNext]_recordsVars => RecordsInv'
<1>. SUFFICES ASSUME RecordsAssumption, RecordsInv, [RecordsNext]_recordsVars
              PROVE  RecordsInv'
  OBVIOUS
<1>1. ASSUME NEW p \in Caller, CallStep(p) PROVE RecordsInv'
  BY <1>1, PutRecordStep, ReadsStep, ReadSavedStep, PutSavedStep, DropRecordStep,
     DropContentStep, NotifyStep, FailStep DEF CallStep
<1>2. CASE UNCHANGED recordsVars
  <2>1. RecordsTypeOK' /\ CallsFit' /\ Unborn' /\ Intact' /\ LeftIsPending'
    BY <1>2 DEF recordsVars, history, RecordsInv, RecordsTypeOK, CallsFit, Unborn, Intact,
                LeftIsPending
  <2>2. PutsAlone' /\ TellersRight'
    BY <1>2 DEF recordsVars, history, RecordsInv, PutsAlone, Meets, TellersRight, StateOf,
                EventOf, Telling, Kept
  <2>. QED
    BY <2>1, <2>2 DEF RecordsInv
<1>. QED
  BY <1>1, <1>2, BeginStep, ProviderStep DEF RecordsNext

LEMMA Invariant == ASSUME RecordsAssumption PROVE RecordsSpec => []RecordsInv
BY InitInv, InvStep, PTL DEF RecordsSpec

(***************************************************************************)
(* Every reachable state is well typed; in each the indexes list stored    *)
(* records of created directories only.                                    *)
(***************************************************************************)
THEOREM TypeCorrect == ASSUME RecordsAssumption PROVE RecordsSpec => []RecordsTypeOK
BY Invariant, PTL DEF RecordsInv

(***************************************************************************)
(* Whatever calls overlap or fail: unless an update met another one or a   *)
(* deletion, every setting of a directory is the one put last.             *)
(***************************************************************************)
THEOREM SettingsStay == ASSUME RecordsAssumption PROVE RecordsSpec => []SettingsKept
<1>1. RecordsInv => SettingsKept
  BY DEF RecordsInv, Intact, SettingsKept, Whole
<1>. QED
  BY <1>1, Invariant, PTL

(***************************************************************************)
(* A stored directory is a whole one and is listed, and a deleted one      *)
(* leaves nothing that is not named as left by a failure or stored late.   *)
(***************************************************************************)
THEOREM StoredWhole == ASSUME RecordsAssumption PROVE RecordsSpec => []StoredAsAWhole
<1>1. RecordsInv => StoredIsListed
  BY DEF RecordsInv, Intact, StoredIsListed, Whole
<1>2. RecordsInv => LeftByFailureOnly
  <2>1. \A label, k : k \in Left(label) => label \in Kept
    BY DEF Left, Kept
  <2>. QED
    BY <2>1 DEF RecordsInv, LeftIsPending, LeftByFailureOnly
<1>. QED
  BY <1>1, <1>2, Invariant, PTL DEF StoredAsAWhole

(***************************************************************************)
(* When no call has anything left to tell, the webhook knows whether the   *)
(* directory is there and active, unless events crossed or failed.         *)
(***************************************************************************)
THEOREM WebhookKnows == ASSUME RecordsAssumption PROVE RecordsSpec => []EventsFollow
<1>1. RecordsInv => EventsFollow
  BY DEF RecordsInv, TellersRight, EventsFollow, StateOf
<1>. QED
  BY <1>1, Invariant, PTL

-----------------------------------------------------------------------------
(***************************************************************************)
(* Then DirectorySync: SCIM requests and the deletion of directories.  The *)
(* controllers keep one tenant that all requests set (Users.ts and         *)
(* Groups.ts, setTenantAndProduct), so all that follows is for directories *)
(* of one tenant and product; with two, the run dsync_tenants shows a      *)
(* request reading and writing under the wrong one.                        *)
(*                                                                         *)
(* The invariant has a part for what each request relies on (RequestInv)   *)
(* and one for each thing that several requests share: the users and       *)
(* groups they are about, the records, the memberships, the directories    *)
(* deleted in quiet and the webhook's picture.                             *)
(***************************************************************************)
\* The tenant and product of every directory, where they are all of one.
Sole == CHOOSE t \in Tenant : \A d \in Directory : TenantOf[d] = t
OnlyTenant == Sole \in Tenant /\ \A d \in Directory : TenantOf[d] = Sole

Rec(x) == rec[Sole][x]
Gone(d) == dir[d] = "gone"
For(s, d) == pc[s] # "idle" /\ req[s].dir = d
On(s, ops, places) == pc[s] \in places /\ req[s].op \in ops

\* What a request asks for.
AskFits(s) ==
  /\ req[s].op \in {"create", "update"} => req[s].label \in Label
  /\ req[s].op = "delete" => req[s].label = None
  /\ req[s].op = "create" /\ pc[s] # "event" => req[s].x = None
  /\ req[s].op \in IdOps \/ On(s, {"create"}, {"event"}) =>
       req[s].x \in InStore(req[s].in) /\ home[req[s].x] = req[s].dir
  /\ req[s].op = "drop" => req[s].x = None
  /\ req[s].op \in {"add", "remove", "drop"} => req[s].in = "groups"
  /\ \A u \in req[s].who : req[s].op \in {"add", "remove"} /\ home[u] = req[s].dir

\* Where it may be ...
PlaceFits(s) ==
  /\ req[s].op \in {"create", "update"} => pc[s] \in {"lookup", "put", "event"}
  /\ req[s].op = "delete" =>
       pc[s] \in {"lookup", "check", "delete", "purge", "unlink", "event"}
  /\ req[s].op \in {"add", "remove"} =>
       pc[s] \in {"lookup", "member", "link", "whom", "event"}
  /\ req[s].op = "drop" =>
       pc[s] \in {"config", "groups", "groupPage", "purge", "unlink", "users", "userPage"}

\* ... and what it has in hand there.
HandFits(s) ==
  /\ On(s, {"delete"}, {"purge", "unlink"}) => todo[s] = {req[s].x} /\ req[s].x \in Group
  /\ On(s, {"drop"}, {"purge", "unlink"}) => \A g \in todo[s] : home[g] = req[s].dir
  /\ pc[s] = "unlink" => \A g \in page[s] \cap Group : g \in todo[s]
  /\ On(s, {"add", "remove"}, {"link", "whom", "event"}) =>
       \E u \in req[s].who : page[s] = {u}
  /\ pc[s] = "groupPage" => \A x \in page[s] : x \in Group /\ home[x] = req[s].dir
  /\ pc[s] = "userPage" => \A x \in page[s] : x \in User /\ home[x] = req[s].dir

TenantFits(s) == pc[s] \notin {"lookup", "config"} =>
  /\ req[s].in = "groups" => tenant["groups"] = Sole
  /\ req[s].op # "drop" \/ pc[s] \in {"users", "userPage"} => tenant["users"] = Sole

\* What it has read still holds when it goes on, unless its directory is gone.
StillHolds(s) ==
  /\ req[s].op = "drop" => pc[s] = "config" \/ Gone(req[s].dir)
  /\ req[s].op # "drop" /\ ~Gone(req[s].dir) =>
       /\ On(s, {"create", "update"}, {"event"}) =>
            Rec(req[s].x) # None /\ Rec(req[s].x).label = req[s].label
       /\ \/ On(s, {"update"}, {"put"}) \/ On(s, {"delete"}, {"check", "delete"})
          \/ On(s, {"add", "remove"}, {"member", "link", "whom", "event"})
          => Rec(req[s].x) # None
       /\ On(s, {"delete"}, {"purge", "unlink", "event"}) => Rec(req[s].x) = None
       /\ On(s, {"add", "remove"}, {"event"}) => \A u \in page[s] : Rec(u) # None
       /\ On(s, {"add"}, {"whom", "event"}) =>
            \A u \in page[s] : <<Sole, req[s].x, u>> \in member
       /\ On(s, {"remove"}, {"whom", "event"}) =>
            \A u \in page[s] : <<Sole, req[s].x, u>> \notin member

RequestInv(s) == pc[s] # "idle" =>
  AskFits(s) /\ PlaceFits(s) /\ HandFits(s) /\ TenantFits(s) /\ StillHolds(s)

\* No two requests are about the same user or group.
Alone == \A r, s \in Slot : r # s /\ pc[r] # "idle" /\ pc[s] # "idle" =>
  Touches(req[r]) \cap Touches(req[s]) \subseteq {None}

\* Directories of which every record can still be found.
Findable(d) == ~Gone(d) \/ d \in quiet
RecordInv == \A t \in Tenant, x \in Resource : rec[t][x] # None =>
  /\ t = Sole /\ home[x] \in Directory
  /\ rec[t][x].index # None => rec[t][x].index[1] = home[x]
  /\ Findable(home[x]) => rec[t][x].index # None

\* A membership without its group is about to be deleted.
Purges(s, g) == pc[s] \in {"purge", "unlink"} /\ g \in todo[s]
Purging(g) == \E s \in Slot : Purges(s, g)
MemberInv == \A t \in Tenant, g \in Group, u \in User : <<t, g, u>> \in member =>
  /\ t = Sole /\ home[g] \in Directory /\ home[u] \in Directory
  /\ Findable(home[g]) => Rec(g) # None \/ Purging(g)

\* A directory deleted in quiet has one request, its deletion, which leaves
\* nothing of the groups before it goes on to the users.
Deleted(d, S) == \A x \in S : home[x] = d => Rec(x) = None
Unlinked(d) == \A t \in Tenant, g \in Group, u \in User : <<t, g, u>> \in member => home[g] # d
QuietInv == \A d \in quiet :
  /\ Gone(d)
  /\ \A s \in Slot : For(s, d) => req[s].op = "drop" /\ pc[s] # "config"
  /\ \A r, s \in Slot : For(r, d) /\ For(s, d) => r = s
  /\ (\A s \in Slot : For(s, d) => pc[s] \in {"users", "userPage"}) =>
       Deleted(d, Group) /\ Unlinked(d)
  /\ (\A s \in Slot : ~For(s, d)) => Deleted(d, User)

\* The webhook knows each item as it is, unless a request has yet to tell.
Deletes(s, x) == On(s, {"delete"}, {"purge", "unlink", "event"}) /\ req[s].x = x
Deleting(x) == \E s \in Slot : Deletes(s, x)
Tells(s, x) == Deletes(s, x) \/ (On(s, {"create", "update"}, {"event"}) /\ req[s].x = x)
Untold(x) == \E s \in Slot : Tells(s, x)
Links(s, g, u) ==
  On(s, {"add", "remove"}, {"whom", "event"}) /\ req[s].x = g /\ u \in page[s]
Linking(g, u) == \E s \in Slot : Links(s, g, u)
LabelOf(x) == IF Rec(x) = None THEN None ELSE Rec(x).label
In(g, u) == Rec(g) # None /\ Rec(u) # None /\ <<Sole, g, u>> \in member
ToldInv == \A x \in Resource : Living(x) => told[x] = LabelOf(x) \/ Untold(x)
LinkFits(g, u) ==
  /\ <<g, u>> \in links => (Rec(g) # None \/ Deleting(g)) /\ (Rec(u) # None \/ Deleting(u))
  /\ (<<g, u>> \in links <=> In(g, u)) \/ Deleting(g) \/ Deleting(u) \/ Linking(g, u)
LinksInv == \A g \in Group, u \in User : Living(g) /\ Living(u) => LinkFits(g, u)

SyncInv ==
  /\ TypeOK /\ (\A s \in Slot : RequestInv(s)) /\ Alone
  /\ RecordInv /\ MemberInv /\ QuietInv /\ ToldInv /\ LinksInv

-----------------------------------------------------------------------------
\* The facts about requests that the proofs of all actions need.
Place == {"idle", "lookup", "put", "check", "delete", "purge",
          "unlink", "member", "link", "whom", "event", "config",
          "groups", "groupPage", "users", "userPage"}

\* What a step of s leaves as it was: the other requests.
Others(s) == \A r \in Slot \ {s} :
  pc'[r] = pc[r] /\ req'[r] = req[r] /\ page'[r] = page[r] /\ todo'[r] = todo[r]

\* The types of what requests hold.
SlotTypes ==
  /\ pc \in [Slot -> Place]
  /\ req \in [Slot -> Request \cup {None}]
  /\ page \in [Slot -> SUBSET Resource]
  /\ todo \in [Slot -> SUBSET Group]
  /\ \A s \in Slot : (pc[s] = "idle") <=> (req[s] = None)
  /\ \A s \in Slot : pc[s] = "idle" => page[s] = {} /\ todo[s] = {}

\* The types, those of the requests apart.
LEMMA TypeSplits ==
  TypeOK <=> /\ tenant \in [Store -> Tenant \cup {None}]
             /\ dir \in [Directory -> {"active", "inactive", "gone"}]
             /\ rec \in [Tenant -> [Resource -> Entry \cup {None}]]
             /\ member \subseteq Tenant \X Group \X User
             /\ home \in [Resource -> Directory \cup {None}]
             /\ told \in [Resource -> Label \cup {None}]
             /\ links \subseteq Group \X User
             /\ quiet \subseteq Directory
             /\ SlotTypes
BY DEF TypeOK, SlotTypes, Place

\* What a request under way holds.
LEMMA Requested ==
  ASSUME SlotTypes, NEW s \in Slot, pc[s] # "idle"
  PROVE  /\ req[s] \in Request /\ req[s] # None
         /\ req[s].op \in {"create", "drop"} \cup IdOps
         /\ req[s].dir \in Directory /\ req[s].in \in Store
         /\ req[s].x \in Resource \cup {None} /\ req[s].label \in Label \cup {None}
         /\ req[s].who \subseteq User
         /\ page[s] \subseteq Resource /\ todo[s] \subseteq Group
<1>1. req[s] \in Request /\ req[s] # None
  BY DEF SlotTypes
<1>2. page[s] \subseteq Resource /\ todo[s] \subseteq Group
  BY DEF SlotTypes
<1>. QED
  BY <1>1, <1>2 DEF Request

\* A request that goes on, with what it has in hand.
LEMMA Moves ==
  ASSUME SlotTypes, NEW s \in Slot,
         NEW to \in Place, NEW r \in Request \cup {None},
         NEW p \in SUBSET Resource, NEW t \in SUBSET Group,
         pc' = [pc EXCEPT ![s] = to], req' = [req EXCEPT ![s] = r],
         page' = [page EXCEPT ![s] = p], todo' = [todo EXCEPT ![s] = t],
         (to = "idle") <=> (r = None),
         to = "idle" => p = {} /\ t = {}
  PROVE  /\ SlotTypes' /\ Others(s)
         /\ pc'[s] = to /\ req'[s] = r /\ page'[s] = p /\ todo'[s] = t
<1>1. pc'[s] = to /\ req'[s] = r /\ page'[s] = p /\ todo'[s] = t
  BY DEF SlotTypes
<1>2. Others(s)
  BY DEF SlotTypes, Others
<1>3. /\ pc' \in [Slot -> Place] /\ req' \in [Slot -> Request \cup {None}]
      /\ page' \in [Slot -> SUBSET Resource] /\ todo' \in [Slot -> SUBSET Group]
  BY DEF SlotTypes
<1>4. ASSUME NEW q \in Slot
      PROVE  /\ (pc'[q] = "idle") <=> (req'[q] = None)
             /\ pc'[q] = "idle" => page'[q] = {} /\ todo'[q] = {}
  <2>1. CASE q = s
    BY <2>1, <1>1
  <2>2. CASE q # s
    BY <2>2, <1>2 DEF Others, SlotTypes
  <2>. QED
    BY <2>1, <2>2
<1>. QED
  BY <1>1, <1>2, <1>3, <1>4 DEF SlotTypes

\* What a slot holds it may keep.
LEMMA Stays ==
  ASSUME SlotTypes, NEW s \in Slot
  PROVE  /\ req = [req EXCEPT ![s] = req[s]] /\ page = [page EXCEPT ![s] = page[s]]
         /\ todo = [todo EXCEPT ![s] = todo[s]]
         /\ req[s] \in Request \cup {None}
         /\ page[s] \in SUBSET Resource /\ todo[s] \in SUBSET Group
         /\ pc[s] # "idle" => req[s] # None
BY DEF SlotTypes

\* A request that goes to another place with what it has in hand,
LEMMA Goes ==
  ASSUME SlotTypes, NEW s \in Slot, pc[s] # "idle",
         NEW to \in Place \ {"idle"}, Goto(s, to)
  PROVE  /\ SlotTypes' /\ Others(s)
         /\ pc'[s] = to /\ req'[s] = req[s] /\ page'[s] = page[s] /\ todo'[s] = todo[s]
<1>. HIDE DEF Place
<1>1. /\ pc' = [pc EXCEPT ![s] = to] /\ req' = req /\ page' = page /\ todo' = todo
  BY DEF Goto
<1>. QED
  BY <1>1, Stays, Moves

\* one that begins or changes,
LEMMA Begins ==
  ASSUME SlotTypes, NEW s \in Slot, NEW to \in Place \ {"idle"}, NEW r \in Request,
         pc' = [pc EXCEPT ![s] = to], req' = [req EXCEPT ![s] = r],
         page' = page, todo' = todo
  PROVE  /\ SlotTypes' /\ Others(s)
         /\ pc'[s] = to /\ req'[s] = r /\ page'[s] = page[s] /\ todo'[s] = todo[s]
<1>1. r # None /\ r \in Request \cup {None} /\ to \in Place /\ to # "idle"
  BY SyncAssumption
<1>. HIDE DEF Place
<1>. QED
  BY <1>1, Stays, Moves

\* and one that is answered.
LEMMA Answers ==
  ASSUME SlotTypes, NEW s \in Slot, Answer(s)
  PROVE  SlotTypes' /\ Others(s) /\ pc'[s] = "idle"
<1>1. /\ "idle" \in Place /\ None \in Request \cup {None}
      /\ {} \in SUBSET Resource /\ {} \in SUBSET Group
  BY DEF Place
<1>2. /\ pc' = [pc EXCEPT ![s] = "idle"] /\ req' = [req EXCEPT ![s] = None]
      /\ page' = [page EXCEPT ![s] = {}] /\ todo' = [todo EXCEPT ![s] = {}]
  BY DEF Answer
<1>. QED
  BY <1>1, <1>2, Moves

LEMMA Sets == User \cap Group = {} /\ Resource = User \cup Group
              /\ \A d \in Directory : d # None
              /\ \A x \in Resource : x # None
BY SyncAssumption DEF Resource

\* A resource is in one store.
LEMMA Stored ==
  ASSUME NEW c \in Store, NEW x \in InStore(c)
  PROVE  x \in Resource /\ x # None /\ (c = "groups" <=> x \in Group) /\ StoreOf(x) = c
<1>1. x \in Resource /\ (c = "groups" <=> x \in Group) /\ StoreOf(x) = c
  BY SyncAssumption DEF InStore, StoreOf, Store, Resource
<1>. QED
  BY <1>1, SyncAssumption

\* The controllers of a request's store are of its tenant.
LEMMA Controllers ==
  ASSUME SyncInv, NEW s \in Slot, pc[s] \notin {"idle", "lookup", "config"},
         req[s].op # "drop"
  PROVE  /\ tenant["users"] = Sole
         /\ req[s].x # None =>
              /\ req[s].x \in Resource
              /\ tenant[StoreOf(req[s].x)] = Sole
              /\ Found(req[s].x) = Rec(req[s].x)
<1>1. SlotTypes /\ RequestInv(s)
  BY TypeSplits DEF SyncInv
<1>2. AskFits(s) /\ TenantFits(s) /\ PlaceFits(s)
  BY <1>1 DEF RequestInv
<1>3. tenant["users"] = Sole /\ (req[s].in = "groups" => tenant["groups"] = Sole)
  BY <1>2 DEF TenantFits
<1>4. ASSUME req[s].x # None PROVE req[s].x \in InStore(req[s].in)
  BY <1>1, <1>2, <1>4, Requested DEF AskFits, PlaceFits, On
<1>5. ASSUME req[s].x # None PROVE tenant[StoreOf(req[s].x)] = Sole
  BY <1>1, <1>3, <1>4, <1>5, Sets, Requested DEF InStore, StoreOf, Store
<1>. QED
  BY <1>1, <1>3, <1>5, Requested DEF Found, Rec

\* A put or a deletion of one record.
LEMMA PutsOne ==
  ASSUME rec \in [Tenant -> [Resource -> Entry \cup {None}]],
         Sole \in Tenant,
         NEW x \in Resource, tenant[StoreOf(x)] = Sole,
         NEW e \in Entry \cup {None}, SetRec(x, e)
  PROVE  /\ rec' \in [Tenant -> [Resource -> Entry \cup {None}]]
         /\ rec'[Sole][x] = e
         /\ \A y \in Resource : y # x => rec'[Sole][y] = rec[Sole][y]
         /\ \A t \in Tenant, y \in Resource : t # Sole \/ y # x => rec'[t][y] = rec[t][y]
BY DEF SetRec

-----------------------------------------------------------------------------
Rests == UNCHANGED <<dir, rec, member, home, told, links, quiet>>
Same(s) == req'[s] = req[s] /\ page'[s] = page[s] /\ todo'[s] = todo[s]
KeepsTenant == \A c \in Store : tenant'[c] = tenant[c] \/ tenant'[c] = Sole

\* The invariant, for a request under way.
LEMMA Known ==
  ASSUME SyncInv, NEW s \in Slot, pc[s] # "idle"
  PROVE  /\ SlotTypes
         /\ AskFits(s) /\ PlaceFits(s) /\ HandFits(s) /\ TenantFits(s) /\ StillHolds(s)
BY TypeSplits DEF SyncInv, RequestInv

\* A request in which only the place changes, and what holds there.
LEMMA StillFits ==
  ASSUME SyncInv, NEW s \in Slot, pc[s] # "idle", pc'[s] # "idle",
         Same(s), \A x \in Resource : home[x] # None => home'[x] = home[x],
         (req[s].op = "create") => (pc'[s] = "event" <=> pc[s] = "event")
  PROVE  AskFits(s)'
<1>1. AskFits(s) /\ SlotTypes /\ PlaceFits(s)
  BY Known
<1>2. /\ req[s].dir # None /\ req[s].dir \in Directory
      /\ req[s].x \in Resource \cup {None}
      /\ req[s].who \subseteq User
      /\ req'[s] = req[s] /\ req[s].op \in {"create", "drop"} \cup IdOps
  BY <1>1, Requested, Sets DEF Same
<1>3. req[s].op \in IdOps \/ On(s, {"create"}, {"event"}) =>
         req[s].x \in InStore(req[s].in) /\ home[req[s].x] = req[s].dir
         /\ req[s].x \in Resource
  BY <1>1, Sets DEF AskFits, InStore
<1>4. req[s].op \in IdOps \/ On(s, {"create"}, {"event"})' =>
         req[s].x \in InStore(req[s].in) /\ home'[req[s].x] = req[s].dir
  BY <1>2, <1>3 DEF On
<1>5. \A u \in req[s].who : req[s].op \in {"add", "remove"} /\ home'[u] = req[s].dir
  BY <1>1, <1>2, Sets DEF AskFits
<1>. QED
  BY <1>1, <1>2, <1>4, <1>5 DEF AskFits, On

\* setTenantAndProduct, where there is only one.
LEMMA SetsTenant ==
  ASSUME SyncInv, OnlyTenant, NEW s \in Slot, pc[s] # "idle", SetTenant(s)
  PROVE  /\ tenant' \in [Store -> Tenant \cup {None}] /\ KeepsTenant
         /\ tenant'["users"] = Sole
         /\ req[s].in = "groups" => tenant'["groups"] = Sole
<1>1. TenantOf[req[s].dir] = Sole /\ Sole \in Tenant
  BY Known, Requested DEF OnlyTenant
<1>2. tenant \in [Store -> Tenant \cup {None}]
  BY TypeSplits DEF SyncInv
<1>. QED
  BY <1>1, <1>2 DEF SetTenant, KeepsTenant, Store

\* What each action does, by itself: it keeps the types and what the invariant
\* says of its own request, and leaves the others alone.
LEMMA LookupStep ==
  ASSUME SyncInv, OnlyTenant, NEW s \in Slot, Lookup(s)
  PROVE  /\ TypeOK' /\ RequestInv(s)' /\ Others(s) /\ KeepsTenant /\ Rests
         /\ pc[s] = "lookup"
         /\ \/ pc'[s] = "idle" /\ req[s].op \in IdOps
            \/ pc'[s] \in {"put", "check", "member"} /\ Same(s)
<1>1. /\ pc[s] = "lookup" /\ req[s].op \in IdOps /\ SetTenant(s) /\ Rests
  BY DEF Lookup, Rests, webhookVars
<1>2. /\ SlotTypes /\ AskFits(s) /\ PlaceFits(s)
      /\ req[s].dir \in Directory /\ TenantOf[req[s].dir] = Sole /\ Sole \in Tenant
  BY <1>1, Known, Requested DEF OnlyTenant
<1>3. /\ tenant' \in [Store -> Tenant \cup {None}] /\ KeepsTenant
      /\ tenant'["users"] = Sole
      /\ req[s].in = "groups" => tenant'["groups"] = Sole
  BY <1>1, SetsTenant
<1>4. CASE Rec(req[s].x) = None
  <2>1. Answer(s)
    BY <1>2, <1>4 DEF Lookup, Rec
  <2>2. SlotTypes' /\ Others(s) /\ pc'[s] = "idle"
    BY <1>2, <2>1, Answers
  <2>3. RequestInv(s)'
    BY <2>2 DEF RequestInv
  <2>4. TypeOK'
    BY <1>1, <1>3, <2>2, TypeSplits DEF SyncInv, TypeOK, Rests, SlotTypes, Place
  <2>. QED
    BY <1>1, <1>3, <2>2, <2>3, <2>4
<1>5. CASE Rec(req[s].x) # None
  <2>. DEFINE to == CASE req[s].op = "update" -> "put"
                      [] req[s].op = "delete" -> "check"
                      [] OTHER -> "member"
  <2>1. Goto(s, to)
    BY <1>2, <1>5 DEF Lookup, Rec
  <2>2. /\ req[s].op = "update" => to = "put"
        /\ req[s].op = "delete" => to = "check"
        /\ req[s].op \in {"add", "remove"} => to = "member"
        /\ to \in {"put", "check", "member"} /\ to \in Place \ {"idle"}
    BY <1>1 DEF IdOps, Place
  <2>. HIDE DEF to
  <2>3. SlotTypes' /\ Others(s) /\ Same(s) /\ pc'[s] = to
    BY <1>1, <1>2, <2>1, <2>2, Goes DEF Same
  <2>4. AskFits(s)'
    BY <1>1, <2>2, <2>3, StillFits DEF Rests, IdOps
  <2>5. PlaceFits(s)' /\ HandFits(s)' /\ TenantFits(s)'
    BY <1>1, <1>3, <2>2, <2>3 DEF PlaceFits, HandFits, TenantFits, On, Same, IdOps
  <2>6. StillHolds(s)'
    BY <1>1, <1>5, <2>2, <2>3 DEF StillHolds, On, Same, Rests, IdOps, Rec
  <2>7. TypeOK'
    BY <1>1, <1>3, <2>3, TypeSplits DEF SyncInv, TypeOK, Rests, SlotTypes, Place
  <2>. QED
    BY <1>1, <1>3, <2>2, <2>3, <2>4, <2>5, <2>6, <2>7 DEF RequestInv
<1>. QED
  BY <1>4, <1>5

\* A step that leaves store and webhook alone.
LEMMA RestsTyped ==
  ASSUME SyncInv, Rests, SlotTypes', tenant' \in [Store -> Tenant \cup {None}]
  PROVE  TypeOK'
BY TypeSplits DEF SyncInv, TypeOK, Rests, SlotTypes, Place

LEMMA TenantRests ==
  ASSUME SyncInv, tenant' = tenant
  PROVE  tenant' \in [Store -> Tenant \cup {None}] /\ KeepsTenant
BY TypeSplits DEF SyncInv, KeepsTenant

\* A request that is answered with nothing done.
LEMMA AnswerStep ==
  ASSUME SyncInv, NEW s \in Slot, pc[s] # "idle", Answer(s), Rests,
         tenant' \in [Store -> Tenant \cup {None}]
  PROVE  TypeOK' /\ RequestInv(s)' /\ Others(s) /\ pc'[s] = "idle"
BY Known, Answers, RestsTyped DEF RequestInv

LEMMA SearchStep ==
  ASSUME SyncInv, OnlyTenant, NEW s \in Slot, Search(s)
  PROVE  /\ TypeOK' /\ RequestInv(s)' /\ Others(s) /\ KeepsTenant /\ Rests
         /\ pc[s] = "lookup" /\ req[s].op = "create"
         /\ pc'[s] = "idle" \/ (pc'[s] = "put" /\ Same(s))
<1>1. /\ pc[s] = "lookup" /\ req[s].op = "create" /\ SetTenant(s) /\ Rests
      /\ Answer(s) \/ Goto(s, "put")
  BY DEF Search, Rests, webhookVars
<1>2. SlotTypes
  BY <1>1, Known
<1>3. /\ tenant' \in [Store -> Tenant \cup {None}] /\ KeepsTenant
      /\ tenant'["users"] = Sole
      /\ req[s].in = "groups" => tenant'["groups"] = Sole
  BY <1>1, SetsTenant
<1>4. CASE Answer(s)
  BY <1>1, <1>3, <1>4, AnswerStep
<1>5. CASE Goto(s, "put")
  <2>1. SlotTypes' /\ Others(s) /\ Same(s) /\ pc'[s] = "put"
    BY <1>1, <1>2, <1>5, Goes DEF Same, Place
  <2>2. AskFits(s)'
    BY <1>1, <2>1, StillFits DEF Rests
  <2>3. PlaceFits(s)' /\ HandFits(s)' /\ TenantFits(s)' /\ StillHolds(s)'
    BY <1>1, <1>3, <2>1 DEF PlaceFits, HandFits, TenantFits, StillHolds, On, Same
  <2>. QED
    BY <1>1, <1>3, <2>1, <2>2, <2>3, RestsTyped DEF RequestInv
<1>. QED
  BY <1>1, <1>4, <1>5

LEMMA CheckStep ==
  ASSUME SyncInv, OnlyTenant, NEW s \in Slot, Check(s)
  PROVE  /\ TypeOK' /\ RequestInv(s)' /\ Others(s) /\ KeepsTenant /\ Rests
         /\ pc[s] = "check" /\ req[s].op = "delete" /\ Same(s)
         /\ \/ pc'[s] = "event" /\ Gone(req[s].dir)
            \/ pc'[s] = "delete"
<1>1. /\ pc[s] = "check" /\ tenant' = tenant /\ Rests
      /\ Goto(s, IF Found(req[s].x) = None THEN "event" ELSE "delete")
  BY DEF Check, Rests, webhookVars
<1>2. /\ SlotTypes /\ AskFits(s) /\ PlaceFits(s) /\ StillHolds(s) /\ TenantFits(s)
      /\ req[s].op \in {"create", "drop"} \cup IdOps
  BY <1>1, Known, Requested
<1>3. /\ req[s].op = "delete"
  BY <1>1, <1>2 DEF PlaceFits, IdOps
<1>4. /\ req[s].x \in Resource /\ Found(req[s].x) = Rec(req[s].x)
  <2>1. req[s].x \in InStore(req[s].in)
    BY <1>2, <1>3 DEF AskFits, IdOps
  <2>2. req[s].x \in Resource /\ req[s].x # None
    BY <1>1, <1>2, <2>1, Stored, Requested
  <2>. QED
    BY <1>1, <1>3, <2>2, Controllers
<1>5. tenant' \in [Store -> Tenant \cup {None}] /\ KeepsTenant
  BY <1>1, TenantRests
<1>6. CASE Rec(req[s].x) = None
  <2>1. SlotTypes' /\ Others(s) /\ Same(s) /\ pc'[s] = "event"
    BY <1>1, <1>2, <1>4, <1>6, Goes DEF Same, Place
  <2>2. AskFits(s)'
    BY <1>1, <1>3, <2>1, StillFits DEF Rests
  <2>3. Gone(req[s].dir)
    BY <1>1, <1>2, <1>3, <1>6 DEF StillHolds, On
  <2>4. PlaceFits(s)' /\ HandFits(s)' /\ TenantFits(s)' /\ StillHolds(s)'
    BY <1>1, <1>2, <1>3, <2>1, <2>3 DEF PlaceFits, HandFits, TenantFits, StillHolds, On, Same,
      Rests, Gone
  <2>. QED
    BY <1>1, <1>3, <1>5, <2>1, <2>2, <2>3, <2>4, RestsTyped DEF RequestInv
<1>7. CASE Rec(req[s].x) # None
  <2>1. SlotTypes' /\ Others(s) /\ Same(s) /\ pc'[s] = "delete"
    BY <1>1, <1>2, <1>4, <1>7, Goes DEF Same, Place
  <2>2. AskFits(s)'
    BY <1>1, <1>3, <2>1, StillFits DEF Rests
  <2>4. PlaceFits(s)' /\ HandFits(s)' /\ TenantFits(s)' /\ StillHolds(s)'
    BY <1>1, <1>2, <1>3, <1>7, <2>1 DEF PlaceFits, HandFits, TenantFits, StillHolds, On, Same,
      Rests, Rec
  <2>. QED
    BY <1>1, <1>3, <1>5, <2>1, <2>2, <2>4, RestsTyped DEF RequestInv
<1>. QED
  BY <1>6, <1>7

LEMMA TakeMemberStep ==
  ASSUME SyncInv, OnlyTenant, NEW s \in Slot, TakeMember(s)
  PROVE  /\ TypeOK' /\ RequestInv(s)' /\ Others(s) /\ KeepsTenant /\ Rests
         /\ pc[s] = "member" /\ req[s].op \in {"add", "remove"}
         /\ req'[s] = req[s] /\ todo'[s] = todo[s] /\ pc'[s] \in {"whom", "link"}
<1>1. /\ pc[s] = "member" /\ tenant' = tenant /\ Rests /\ req' = req /\ todo' = todo
  BY DEF TakeMember, Rests, webhookVars
<1>2. /\ SlotTypes /\ AskFits(s) /\ PlaceFits(s) /\ StillHolds(s) /\ TenantFits(s)
      /\ req[s].op \in {"create", "drop"} \cup IdOps
      /\ req[s].who \subseteq User
  BY <1>1, Known, Requested
<1>3. req[s].op \in {"add", "remove"} /\ tenant["groups"] = Sole
  BY <1>1, <1>2 DEF PlaceFits, IdOps, AskFits, TenantFits
<1>4. tenant' \in [Store -> Tenant \cup {None}] /\ KeepsTenant
  BY <1>1, TenantRests
<1>5. PICK u \in req[s].who :
         /\ page' = [page EXCEPT ![s] = {u}]
         /\ pc' = [pc EXCEPT ![s] =
              IF req[s].op = "add" /\ u \in MembersOf(req[s].x) THEN "whom" ELSE "link"]
  BY DEF TakeMember
<1>. DEFINE to == IF req[s].op = "add" /\ u \in MembersOf(req[s].x) THEN "whom" ELSE "link"
<1>6. /\ to \in {"whom", "link"}
      /\ to = "whom" => req[s].op = "add" /\ <<Sole, req[s].x, u>> \in member
  BY <1>3 DEF MembersOf
<1>7. pc' = [pc EXCEPT ![s] = to]
  BY <1>5
<1>. HIDE DEF to
<1>8. /\ SlotTypes' /\ Others(s)
      /\ pc'[s] = to /\ req'[s] = req[s] /\ page'[s] = {u} /\ todo'[s] = todo[s]
  <2>1. to \in Place /\ to # "idle" /\ {u} \in SUBSET Resource /\ pc[s] # "idle"
    BY <1>1, <1>2, <1>6, Sets DEF Place
  <2>2. /\ req' = [req EXCEPT ![s] = req[s]] /\ todo' = [todo EXCEPT ![s] = todo[s]]
        /\ req[s] \in Request \cup {None} /\ todo[s] \in SUBSET Group /\ req[s] # None
    BY <1>1, <1>2, <2>1, Stays
  <2>. DEFINE p == {u}
  <2>3. page' = [page EXCEPT ![s] = p] /\ p \in SUBSET Resource
    BY <1>5, <2>1
  <2>. HIDE DEF p
  <2>4. /\ SlotTypes' /\ Others(s) /\ pc'[s] = to /\ req'[s] = req[s] /\ page'[s] = p
        /\ todo'[s] = todo[s]
    <3>1. SlotTypes /\ pc[s] # "idle"
      BY <1>1, <1>2
    <3>. QED
      BY ONLY <1>7, <2>1, <2>2, <2>3, <3>1, s \in Slot, Moves
  <2>. QED
    BY <2>4 DEF p
<1>9. AskFits(s)'
  BY <1>1, <1>2, <1>3, <1>8 DEF AskFits, Rests, On, IdOps
<1>10. PlaceFits(s)' /\ HandFits(s)' /\ TenantFits(s)'
  BY <1>1, <1>2, <1>3, <1>6, <1>8 DEF PlaceFits, HandFits, TenantFits, On, IdOps
<1>11. StillHolds(s)'
  <2>1. ~Gone(req[s].dir) => Rec(req[s].x) # None
    BY <1>1, <1>2, <1>3 DEF StillHolds, On
  <2>. QED
    BY <1>1, <1>3, <1>6, <1>8, <2>1 DEF StillHolds, On, Rests, Gone, Rec
<1>. QED
  BY <1>1, <1>3, <1>4, <1>6, <1>8, <1>9, <1>10, <1>11, RestsTyped DEF RequestInv

\* The request goes on with its next member or is answered.
LEMMA NextMemberMoves ==
  ASSUME SyncInv, NEW s \in Slot, pc[s] \in {"whom", "event"}, NextMember(s)
  PROVE  /\ SlotTypes' /\ Others(s)
         /\ \/ pc'[s] = "idle"
            \/ /\ pc'[s] = "member" /\ req[s].op \in {"add", "remove"}
               /\ req'[s] \in Request /\ page'[s] = {} /\ todo'[s] = todo[s]
               /\ req'[s].who = req[s].who \ page[s]
               /\ req'[s].op = req[s].op /\ req'[s].x = req[s].x /\ req'[s].dir = req[s].dir
               /\ req'[s].in = req[s].in /\ req'[s].label = req[s].label
<1>1. SlotTypes /\ req[s] \in Request /\ req[s] # None /\ todo[s] \in SUBSET Group
  BY Known, Requested
<1>2. CASE Answer(s)
  BY <1>1, <1>2, Answers
<1>3. CASE ~Answer(s)
  <2>. DEFINE r == [req[s] EXCEPT !.who = @ \ page[s]]
  <2>1. /\ pc' = [pc EXCEPT ![s] = "member"] /\ req' = [req EXCEPT ![s] = r]
        /\ page' = [page EXCEPT ![s] = {}] /\ todo' = todo /\ req[s].op \in {"add", "remove"}
    BY <1>1, <1>3 DEF NextMember, SlotTypes
  <2>2. /\ r \in Request /\ r.who = req[s].who \ page[s]
        /\ r.op = req[s].op /\ r.x = req[s].x /\ r.dir = req[s].dir
        /\ r.in = req[s].in /\ r.label = req[s].label
    BY <1>1 DEF Request
  <2>. HIDE DEF r
  <2>3. r # None
    BY <2>2, SyncAssumption
  <2>4. /\ todo' = [todo EXCEPT ![s] = todo[s]] /\ "member" \in Place
        /\ {} \in SUBSET Resource /\ r \in Request \cup {None}
    BY <1>1, <2>1, <2>2, Stays DEF Place
  <2>5. /\ SlotTypes' /\ Others(s)
        /\ pc'[s] = "member" /\ req'[s] = r /\ page'[s] = {} /\ todo'[s] = todo[s]
    BY <1>1, <2>1, <2>3, <2>4, Moves
  <2>. QED
    BY <2>1, <2>2, <2>5
<1>. QED
  BY <1>2, <1>3

\* After a member the request goes on as it should.
LEMMA NextMemberStep ==
  ASSUME SyncInv, NEW s \in Slot, pc[s] \in {"whom", "event"}, NextMember(s),
         UNCHANGED <<tenant, dir, rec, member, home>>
  PROVE  RequestInv(s)'
<1>1. /\ AskFits(s) /\ PlaceFits(s) /\ HandFits(s) /\ StillHolds(s) /\ TenantFits(s)
      /\ req[s].op \in {"create", "drop"} \cup IdOps
  BY Known, Requested
<1>2. CASE pc'[s] = "idle"
  BY <1>2 DEF RequestInv
<1>3. CASE /\ pc'[s] = "member" /\ req[s].op \in {"add", "remove"}
           /\ req'[s] \in Request /\ page'[s] = {} /\ todo'[s] = todo[s]
           /\ req'[s].who = req[s].who \ page[s]
           /\ req'[s].op = req[s].op /\ req'[s].x = req[s].x /\ req'[s].dir = req[s].dir
           /\ req'[s].in = req[s].in /\ req'[s].label = req[s].label
  <2>1. AskFits(s)'
    BY <1>1, <1>3 DEF AskFits, On, IdOps
  <2>2. PlaceFits(s)' /\ HandFits(s)' /\ TenantFits(s)'
    BY <1>1, <1>3 DEF PlaceFits, HandFits, TenantFits, On
  <2>3. ~Gone(req[s].dir) => Rec(req[s].x) # None
    BY <1>1, <1>3 DEF StillHolds, On
  <2>4. StillHolds(s)'
    BY <1>3, <2>3 DEF StillHolds, On, Gone, Rec
  <2>. QED
    BY <2>1, <2>2, <2>4 DEF RequestInv
<1>. QED
  BY <1>2, <1>3, NextMemberMoves

LEMMA WhomStep ==
  ASSUME SyncInv, OnlyTenant, NEW s \in Slot, Whom(s)
  PROVE  /\ TypeOK' /\ RequestInv(s)' /\ Others(s) /\ KeepsTenant /\ Rests
         /\ pc[s] = "whom" /\ req[s].op \in {"add", "remove"}
         /\ \/ pc'[s] = "event" /\ Same(s)
            \/ /\ \E u \in page[s] : Rec(u) = None
               /\ \/ pc'[s] = "idle"
                  \/ /\ pc'[s] = "member" /\ page'[s] = {} /\ todo'[s] = todo[s]
                     /\ req'[s].op = req[s].op /\ req'[s].x = req[s].x
                     /\ req'[s].dir = req[s].dir /\ req'[s].who \subseteq req[s].who
<1>1. /\ pc[s] = "whom" /\ tenant' = tenant /\ Rests
      /\ IF \E u \in page[s] : Found(u) = None THEN NextMember(s) ELSE Goto(s, "event")
  BY DEF Whom, Rests, webhookVars
<1>2. /\ SlotTypes /\ AskFits(s) /\ PlaceFits(s) /\ HandFits(s) /\ StillHolds(s) /\ TenantFits(s)
      /\ req[s].op \in {"create", "drop"} \cup IdOps /\ req[s].who \subseteq User
  BY <1>1, Known, Requested
<1>3. req[s].op \in {"add", "remove"}
  BY <1>1, <1>2 DEF PlaceFits, IdOps
<1>4. tenant["users"] = Sole
  BY <1>1, <1>3, Controllers
<1>5. \A u \in page[s] : Found(u) = Rec(u)
  BY <1>1, <1>2, <1>3, <1>4 DEF HandFits, On, Found, Rec, StoreOf
<1>6. tenant' \in [Store -> Tenant \cup {None}] /\ KeepsTenant
  BY <1>1, TenantRests
<1>7. CASE \E u \in page[s] : Rec(u) = None
  <2>1. NextMember(s)
    BY <1>1, <1>5, <1>7
  <2>2. RequestInv(s)'
    BY <1>1, <2>1, NextMemberStep DEF Rests
  <2>3. SlotTypes' /\ Others(s)
         /\ \/ pc'[s] = "idle"
            \/ /\ pc'[s] = "member" /\ page'[s] = {} /\ todo'[s] = todo[s]
               /\ req'[s].who = req[s].who \ page[s]
               /\ req'[s].op = req[s].op /\ req'[s].x = req[s].x
               /\ req'[s].dir = req[s].dir
    BY <1>1, <2>1, NextMemberMoves
  <2>. QED
    BY <1>1, <1>3, <1>6, <1>7, <2>2, <2>3, RestsTyped
<1>8. CASE ~\E u \in page[s] : Rec(u) = None
  <2>1. Goto(s, "event")
    BY <1>1, <1>5, <1>8
  <2>2. SlotTypes' /\ Others(s) /\ Same(s) /\ pc'[s] = "event"
    BY <1>1, <1>2, <2>1, Goes DEF Same, Place
  <2>3. AskFits(s)'
    BY <1>1, <1>3, <2>2, StillFits DEF Rests
  <2>4. PlaceFits(s)' /\ HandFits(s)' /\ TenantFits(s)'
    BY <1>1, <1>2, <1>3, <2>2 DEF PlaceFits, HandFits, TenantFits, On, Same
  <2>5. StillHolds(s)'
    BY <1>1, <1>2, <1>3, <1>8, <2>2 DEF StillHolds, On, Same, Rests, Rec, Gone
  <2>. QED
    BY <1>1, <1>3, <1>6, <2>2, <2>3, <2>4, <2>5, RestsTyped DEF RequestInv
<1>. QED
  BY <1>7, <1>8

LEMMA NoEventStep ==
  ASSUME SyncInv, OnlyTenant, NEW s \in Slot, NoEvent(s)
  PROVE  /\ TypeOK' /\ RequestInv(s)' /\ Others(s) /\ KeepsTenant /\ Rests
         /\ pc[s] = "event" /\ Gone(req[s].dir) /\ pc'[s] = "idle"
<1>1. /\ pc[s] = "event" /\ Gone(req[s].dir) /\ Answer(s) /\ tenant' = tenant /\ Rests
  BY DEF NoEvent, Rests, Gone, webhookVars
<1>. QED
  BY <1>1, AnswerStep, TenantRests

\* New requests.
LEMMA StartDropStep ==
  ASSUME SyncInv, OnlyTenant, NEW s \in Slot, StartDrop(s)
  PROVE  /\ TypeOK' /\ RequestInv(s)' /\ Others(s) /\ KeepsTenant /\ Rests
         /\ pc[s] = "idle" /\ pc'[s] = "config" /\ Touches(req'[s]) = {None}
         /\ req'[s].dir \in Directory /\ ~Gone(req'[s].dir)
<1>1. PICK d \in Deletable :
        /\ ~Gone(d) /\ req' = [req EXCEPT ![s] = Asking("drop", d, "groups", None, None, {})]
  BY DEF StartDrop, Gone
<1>2. /\ pc[s] = "idle" /\ pc' = [pc EXCEPT ![s] = "config"] /\ page' = page /\ todo' = todo
      /\ tenant' = tenant /\ Rests /\ d \in Directory
  BY SyncAssumption DEF StartDrop, Rests, webhookVars
<1>. DEFINE r == Asking("drop", d, "groups", None, None, {})
<1>3. /\ r \in Request /\ r.op = "drop" /\ r.dir = d /\ r.in = "groups" /\ r.x = None
      /\ r.label = None /\ r.who = {}
  BY <1>2 DEF Asking, Request, Store
<1>4. req' = [req EXCEPT ![s] = r] /\ r # None
  BY <1>1, <1>3, SyncAssumption
<1>. HIDE DEF r
<1>5. SlotTypes' /\ Others(s) /\ pc'[s] = "config" /\ req'[s] = r
  <2>1. SlotTypes
    BY TypeSplits DEF SyncInv
  <2>3. "config" \in Place \ {"idle"}
    BY DEF Place
  <2>. QED
    <3>1. /\ pc' = [pc EXCEPT ![s] = "config"] /\ req' = [req EXCEPT ![s] = r]
          /\ page' = page /\ todo' = todo /\ r \in Request
      BY <1>2, <1>3, <1>4
    <3>. QED
      BY ONLY <2>1, <2>3, <3>1, s \in Slot, Begins
<1>6. RequestInv(s)'
  BY <1>3, <1>5 DEF RequestInv, AskFits, PlaceFits, HandFits, TenantFits, StillHolds, On, IdOps
<1>. QED
  BY <1>1, <1>2, <1>3, <1>5, <1>6, RestsTyped, TenantRests DEF Touches

\* What a provider may ask for.
LEMMA AskedFits ==
  ASSUME NEW d \in Directory, NEW r \in Requests(d)
  PROVE  /\ r \in Request /\ r.dir = d /\ r.op \in {"create"} \cup IdOps
         /\ r.op \in {"create", "update"} => r.label \in Label
         /\ r.op \notin {"create", "update"} => r.label = None
         /\ r.op = "create" => r.x = None
         /\ r.op \in IdOps => r.x \in InStore(r.in) /\ home[r.x] = d
         /\ r.op \in {"add", "remove"} => r.in = "groups"
         /\ \A u \in r.who : r.op \in {"add", "remove"} /\ home[u] = d
<1>1. CASE \E c \in Store, l \in Label : r = Asking("create", d, c, None, l, {})
  BY <1>1 DEF Asking, Request, Store, IdOps
<1>2. ASSUME NEW x \in Resource, home[x] = d,
             \/ \E l \in Label : r = Asking("update", d, StoreOf(x), x, l, {})
             \/ r = Asking("delete", d, StoreOf(x), x, None, {})
      PROVE  /\ r \in Request /\ r.dir = d /\ r.op \in {"update", "delete"}
             /\ r.op = "update" => r.label \in Label
             /\ r.op = "delete" => r.label = None
             /\ r.x = x /\ r.in = StoreOf(x) /\ r.who = {}
  BY <1>2 DEF Asking, Request, Store, IdOps, StoreOf
<1>3. ASSUME NEW x \in Resource PROVE x \in InStore(StoreOf(x))
  BY <1>3, Sets DEF StoreOf, InStore
<1>4. ASSUME NEW op \in {"add", "remove"}, NEW g \in Group, home[g] = d,
             NEW who \in SUBSET User, \A u \in who : home[u] = d,
             r = Asking(op, d, "groups", g, None, who)
      PROVE  /\ r \in Request /\ r.dir = d /\ r.op \in {"add", "remove"}
             /\ r.x = g /\ r.in = "groups" /\ r.label = None /\ r.x \in InStore(r.in)
             /\ \A u \in r.who : home[u] = d
  BY <1>4, Sets DEF Asking, Request, Store, IdOps, InStore
<1>5. \/ \E c \in Store, l \in Label : r = Asking("create", d, c, None, l, {})
      \/ \E x \in Given(d, Resource) : r \in Edits(d, x)
      \/ \E op \in {"add", "remove"}, g \in Given(d, Group), who \in (SUBSET Given(d, User)) \ {{}} :
           r = Asking(op, d, "groups", g, None, who)
  <2>1. r \in Creates(d) \/ r \in Memberships(d) \/ \E x \in Given(d, Resource) : r \in Edits(d, x)
    BY DEF Requests
  <2>. QED
    BY <2>1 DEF Creates, Memberships
<1>6. ASSUME NEW x \in Given(d, Resource), r \in Edits(d, x)
      PROVE  /\ x \in Resource /\ home[x] = d
             /\ \/ \E l \in Label : r = Asking("update", d, StoreOf(x), x, l, {})
                \/ r = Asking("delete", d, StoreOf(x), x, None, {})
  BY <1>6 DEF Given, Edits
<1>7. ASSUME NEW op \in {"add", "remove"}, NEW g \in Given(d, Group),
             NEW who \in (SUBSET Given(d, User)) \ {{}}
      PROVE  g \in Group /\ home[g] = d /\ who \in SUBSET User /\ \A u \in who : home[u] = d
  BY DEF Given
<1>. QED
  BY <1>1, <1>2, <1>3, <1>4, <1>5, <1>6, <1>7 DEF IdOps

LEMMA StartStep ==
  ASSUME SyncInv, OnlyTenant, NEW s \in Slot, Start(s)
  PROVE  /\ TypeOK' /\ RequestInv(s)' /\ Others(s) /\ KeepsTenant /\ Rests
         /\ pc[s] = "idle" /\ pc'[s] = "lookup" /\ (Touches(req'[s]) \ {None}) \cap Busy = {}
         /\ req'[s].dir \in Directory /\ ~Gone(req'[s].dir)
<1>0. PICK d \in Directory : \E r \in Requests(d) :
        /\ ~Gone(d) /\ (Touches(r) \ {None}) \cap Busy = {} /\ req' = [req EXCEPT ![s] = r]
  BY DEF Start, Gone
<1>1. PICK r \in Requests(d) :
        /\ ~Gone(d) /\ (Touches(r) \ {None}) \cap Busy = {} /\ req' = [req EXCEPT ![s] = r]
  BY <1>0
<1>2. /\ pc[s] = "idle" /\ pc' = [pc EXCEPT ![s] = "lookup"] /\ page' = page /\ todo' = todo
      /\ tenant' = tenant /\ Rests
  BY DEF Start, Rests, webhookVars
<1>3. /\ r \in Request /\ r # None /\ r.dir = d /\ r.op \in {"create"} \cup IdOps
      /\ r.op \in {"create", "update"} => r.label \in Label
      /\ r.op \notin {"create", "update"} => r.label = None
      /\ r.op = "create" => r.x = None
      /\ r.op \in IdOps => r.x \in InStore(r.in) /\ home[r.x] = d
      /\ r.op \in {"add", "remove"} => r.in = "groups"
      /\ \A u \in r.who : r.op \in {"add", "remove"} /\ home[u] = d
  BY AskedFits, SyncAssumption
<1>5. SlotTypes' /\ Others(s) /\ pc'[s] = "lookup" /\ req'[s] = r
  <2>1. SlotTypes
    BY TypeSplits DEF SyncInv
  <2>3. "lookup" \in Place \ {"idle"}
    BY DEF Place
  <2>. QED
    <3>1. /\ pc' = [pc EXCEPT ![s] = "lookup"] /\ req' = [req EXCEPT ![s] = r]
          /\ page' = page /\ todo' = todo /\ r \in Request
      BY <1>1, <1>2, <1>3
    <3>. QED
      BY ONLY <2>1, <2>3, <3>1, s \in Slot, Begins
<1>6. AskFits(s)'
  BY <1>2, <1>3, <1>5 DEF AskFits, On, IdOps, Rests
<1>7. RequestInv(s)'
  BY <1>3, <1>5, <1>6 DEF RequestInv, PlaceFits, HandFits, TenantFits, StillHolds, On, IdOps
<1>. QED
  BY <1>1, <1>2, <1>3, <1>5, <1>7, RestsTyped, TenantRests

-----------------------------------------------------------------------------
\* The memberships of a group, as they are deleted.
LEMMA PurgesFit ==
  ASSUME SyncInv, NEW s \in Slot, pc[s] \in {"purge", "unlink"}
  PROVE  /\ tenant["groups"] = Sole /\ req[s].op \in {"delete", "drop"}
         /\ req[s].op = "drop" => Gone(req[s].dir) /\ \A g \in todo[s] : home[g] = req[s].dir
         /\ req[s].op = "delete" => todo[s] = {req[s].x} /\ req[s].x \in Group
<1>1. /\ SlotTypes /\ AskFits(s) /\ PlaceFits(s) /\ HandFits(s) /\ StillHolds(s) /\ TenantFits(s)
      /\ req[s].op \in {"create", "drop"} \cup IdOps /\ req[s].in \in Store
  BY Known, Requested
<1>2. req[s].op \in {"delete", "drop"}
  BY <1>1 DEF PlaceFits, IdOps
<1>3. /\ req[s].op = "drop" => Gone(req[s].dir) /\ \A g \in todo[s] : home[g] = req[s].dir
      /\ req[s].op = "delete" => todo[s] = {req[s].x} /\ req[s].x \in Group
  BY <1>1, <1>2 DEF HandFits, StillHolds, On
<1>4. req[s].in = "groups"
  <2>1. CASE req[s].op = "drop"
    BY <1>1, <2>1 DEF AskFits
  <2>2. CASE req[s].op = "delete"
    <3>1. req[s].x \in InStore(req[s].in)
      BY <1>1, <2>2 DEF AskFits, IdOps
    <3>. QED
      BY <1>1, <1>3, <2>2, <3>1, Stored
  <2>. QED
    BY <1>2, <2>1, <2>2
<1>. QED
  BY <1>1, <1>2, <1>3, <1>4 DEF TenantFits

\* removeAllUsers.
LEMMA PurgeStep ==
  ASSUME SyncInv, OnlyTenant, NEW s \in Slot, Purge(s)
  PROVE  /\ TypeOK' /\ RequestInv(s)' /\ Others(s) /\ KeepsTenant /\ Rests
         /\ pc[s] = "purge" /\ req'[s] = req[s] /\ req[s].op \in {"delete", "drop"}
         /\ \/ pc'[s] = "unlink" /\ todo'[s] = todo[s]
            \/ \E g \in todo[s] :
                 /\ \A u \in User : <<Sole, g, u>> \notin member
                 /\ todo'[s] = todo[s] \ {g}
                 /\ \/ pc'[s] = "purge"
                    \/ pc'[s] = "event" /\ req[s].op = "delete"
                    \/ pc'[s] = "groups" /\ req[s].op = "drop" /\ todo'[s] = {}
<1>1. /\ pc[s] = "purge" /\ tenant' = tenant /\ Rests /\ req' = req
  BY DEF Purge, Rests, webhookVars
<1>2. /\ SlotTypes /\ AskFits(s) /\ PlaceFits(s) /\ HandFits(s) /\ StillHolds(s) /\ TenantFits(s)
      /\ todo[s] \subseteq Group
  BY <1>1, Known, Requested
<1>3. /\ tenant["groups"] = Sole /\ req[s].op \in {"delete", "drop"}
      /\ req[s].op = "drop" => Gone(req[s].dir) /\ \A g \in todo[s] : home[g] = req[s].dir
      /\ req[s].op = "delete" => todo[s] = {req[s].x} /\ req[s].x \in Group
  BY <1>1, PurgesFit
<1>4. tenant' \in [Store -> Tenant \cup {None}] /\ KeepsTenant
  BY <1>1, TenantRests
<1>5. PICK g \in todo[s] :
       IF MembersOf(g) = {}
         THEN /\ todo' = [todo EXCEPT ![s] = @ \ {g}]
              /\ pc' = [pc EXCEPT ![s] =
                   IF todo[s] # {g} THEN "purge"
                   ELSE IF req[s].op = "drop" THEN "groups" ELSE "event"]
              /\ UNCHANGED page
         ELSE /\ \E p \in SUBSET User : /\ PageOf(MembersOf(g), p)
                                        /\ page' = [page EXCEPT ![s] = p \cup {g}]
              /\ pc' = [pc EXCEPT ![s] = "unlink"]
              /\ UNCHANGED todo
  BY DEF Purge
<1>6. req' = [req EXCEPT ![s] = req[s]] /\ req[s] \in Request \cup {None} /\ req[s] # None
      /\ page = [page EXCEPT ![s] = page[s]] /\ page[s] \in SUBSET Resource
      /\ todo = [todo EXCEPT ![s] = todo[s]] /\ todo[s] \in SUBSET Group
  BY <1>1, <1>2, Stays
<1>7. ASSUME pc'[s] # "idle", req'[s] = req[s]
      PROVE  AskFits(s)'
  BY <1>1, <1>2, <1>3, <1>7 DEF AskFits, Rests, On, IdOps
<1>8. CASE MembersOf(g) = {}
  <2>. DEFINE to == IF todo[s] # {g} THEN "purge"
                    ELSE IF req[s].op = "drop" THEN "groups" ELSE "event"
              rest == todo[s] \ {g}
  <2>1. /\ pc' = [pc EXCEPT ![s] = to] /\ page' = [page EXCEPT ![s] = page[s]]
        /\ todo' = [todo EXCEPT ![s] = rest]
    BY <1>2, <1>5, <1>6, <1>8 DEF SlotTypes
  <2>2. /\ to \in {"purge", "groups", "event"} /\ rest \in SUBSET Group
        /\ to = "purge" => req[s].op = "drop"
        /\ to = "groups" => req[s].op = "drop" /\ rest = {}
        /\ to = "event" => req[s].op = "delete"
    BY <1>2, <1>3
  <2>3. to \in Place /\ to # "idle"
    BY <2>2 DEF Place
  <2>4. rest \subseteq todo[s]
    OBVIOUS
  <2>. HIDE DEF to
  <2>5. /\ SlotTypes' /\ Others(s) /\ pc'[s] = to /\ req'[s] = req[s] /\ page'[s] = page[s]
        /\ todo'[s] = rest
    <3>1. SlotTypes /\ rest \in SUBSET Group
      BY <1>2, <2>2
    <3>. HIDE DEF rest
    <3>. QED
      BY ONLY <1>6, <2>1, <2>3, <3>1, s \in Slot, Moves
  <2>6. \A u \in User : <<Sole, g, u>> \notin member
    BY <1>3, <1>8 DEF MembersOf
  <2>7. PlaceFits(s)' /\ TenantFits(s)'
    BY <1>1, <1>2, <1>3, <2>2, <2>5 DEF PlaceFits, TenantFits, On
  <2>8. HandFits(s)'
    BY <1>1, <1>3, <2>2, <2>4, <2>5 DEF HandFits, On, Rests
  <2>9. StillHolds(s)'
    BY <1>1, <1>2, <1>3, <2>2, <2>5 DEF StillHolds, On, Rests, Rec, Gone
  <2>. QED
    BY <1>1, <1>3, <1>4, <1>7, <2>2, <2>3, <2>5, <2>6, <2>7, <2>8, <2>9, RestsTyped DEF RequestInv
<1>9. CASE MembersOf(g) # {}
  <2>1. PICK p \in SUBSET User : page' = [page EXCEPT ![s] = p \cup {g}]
    BY <1>5, <1>9
  <2>. DEFINE q == p \cup {g}
  <2>2. /\ q \in SUBSET Resource /\ page' = [page EXCEPT ![s] = q]
        /\ todo' = [todo EXCEPT ![s] = todo[s]] /\ pc' = [pc EXCEPT ![s] = "unlink"]
        /\ "unlink" \in Place
    BY <1>2, <1>5, <1>6, <1>9, <2>1, Sets DEF Place
  <2>3. \A x \in q \cap Group : x \in todo[s]
    BY <1>2, Sets
  <2>. HIDE DEF q
  <2>5. /\ SlotTypes' /\ Others(s) /\ pc'[s] = "unlink" /\ req'[s] = req[s] /\ page'[s] = q
        /\ todo'[s] = todo[s]
    BY ONLY <1>2, <1>6, <2>2, s \in Slot, Moves
  <2>7. PlaceFits(s)' /\ TenantFits(s)'
    BY <1>1, <1>2, <1>3, <2>5 DEF PlaceFits, TenantFits, On
  <2>8. HandFits(s)'
    BY <1>1, <1>3, <2>3, <2>5 DEF HandFits, On, Rests
  <2>9. StillHolds(s)'
    BY <1>1, <1>2, <1>3, <2>5 DEF StillHolds, On, Rests, Rec, Gone
  <2>. QED
    BY <1>1, <1>3, <1>4, <1>7, <2>5, <2>7, <2>8, <2>9, RestsTyped DEF RequestInv
<1>. QED
  BY <1>8, <1>9

LEMMA UnlinkStep ==
  ASSUME SyncInv, OnlyTenant, NEW s \in Slot, Unlink(s)
  PROVE  /\ TypeOK' /\ RequestInv(s)' /\ Others(s) /\ KeepsTenant
         /\ UNCHANGED <<dir, rec, home, told, links, quiet>>
         /\ member' \subseteq member
         /\ \A t \in Tenant, g \in Group, u \in User :
              <<t, g, u>> \in member /\ <<t, g, u>> \notin member' => g \in todo[s]
         /\ pc[s] = "unlink" /\ pc'[s] = "purge" /\ req'[s] = req[s] /\ todo'[s] = todo[s]
<1>1. /\ pc[s] = "unlink" /\ tenant' = tenant /\ UNCHANGED <<dir, rec, home, told, links, quiet>>
      /\ req' = req /\ todo' = todo
      /\ page' = [page EXCEPT ![s] = {}] /\ pc' = [pc EXCEPT ![s] = "purge"]
      /\ member' = member \ ({tenant["groups"]} \X (page[s] \cap Group) \X (page[s] \cap User))
  BY DEF Unlink, webhookVars
<1>2. /\ SlotTypes /\ AskFits(s) /\ PlaceFits(s) /\ HandFits(s) /\ StillHolds(s) /\ TenantFits(s)
  BY <1>1, Known
<1>3. /\ tenant["groups"] = Sole /\ req[s].op \in {"delete", "drop"}
      /\ req[s].op = "drop" => Gone(req[s].dir) /\ \A g \in todo[s] : home[g] = req[s].dir
      /\ req[s].op = "delete" => todo[s] = {req[s].x} /\ req[s].x \in Group
  BY <1>1, PurgesFit
<1>4. tenant' \in [Store -> Tenant \cup {None}] /\ KeepsTenant
  BY <1>1, TenantRests
<1>5. \A g \in page[s] \cap Group : g \in todo[s]
  BY <1>1, <1>2 DEF HandFits
<1>6. /\ member' \subseteq member
      /\ \A t \in Tenant, g \in Group, u \in User :
           <<t, g, u>> \in member /\ <<t, g, u>> \notin member' => g \in todo[s]
  BY <1>1, <1>5
<1>7. /\ SlotTypes' /\ Others(s)
      /\ pc'[s] = "purge" /\ req'[s] = req[s] /\ page'[s] = {} /\ todo'[s] = todo[s]
  <2>1. /\ req' = [req EXCEPT ![s] = req[s]] /\ req[s] \in Request \cup {None} /\ req[s] # None
        /\ todo' = [todo EXCEPT ![s] = todo[s]] /\ todo[s] \in SUBSET Group
        /\ {} \in SUBSET Resource /\ "purge" \in Place
    BY <1>1, <1>2, Stays DEF Place
  <2>2. page' = [page EXCEPT ![s] = {}] /\ pc' = [pc EXCEPT ![s] = "purge"]
    BY <1>1
  <2>. QED
    <3>1. SlotTypes
      BY <1>2
    <3>. DEFINE p == {} to == "purge"
    <3>2. /\ page' = [page EXCEPT ![s] = p] /\ pc' = [pc EXCEPT ![s] = to]
          /\ p \in SUBSET Resource /\ to \in Place /\ to # "idle"
      BY <2>1, <2>2
    <3>3. p = {} /\ to = "purge"
      OBVIOUS
    <3>. HIDE DEF p, to
    <3>4. /\ SlotTypes' /\ Others(s) /\ pc'[s] = to /\ req'[s] = req[s] /\ page'[s] = p
          /\ todo'[s] = todo[s]
      BY ONLY <2>1, <3>1, <3>2, s \in Slot, Moves
    <3>. QED
      BY <3>3, <3>4
<1>8. AskFits(s)' /\ PlaceFits(s)' /\ TenantFits(s)'
  BY <1>1, <1>2, <1>3, <1>7 DEF AskFits, PlaceFits, TenantFits, On, IdOps
<1>9. HandFits(s)' /\ StillHolds(s)'
  BY <1>1, <1>2, <1>3, <1>7 DEF HandFits, StillHolds, On, Rec, Gone
<1>10. TypeOK'
  BY <1>1, <1>4, <1>6, <1>7, TypeSplits DEF SyncInv, TypeOK, SlotTypes, Place
<1>. QED
  BY <1>1, <1>4, <1>6, <1>7, <1>8, <1>9, <1>10 DEF RequestInv

LEMMA LinkStep ==
  ASSUME SyncInv, OnlyTenant, NEW s \in Slot, Link(s)
  PROVE  /\ TypeOK' /\ RequestInv(s)' /\ Others(s) /\ KeepsTenant
         /\ UNCHANGED <<dir, rec, home, told, links, quiet>>
         /\ \A t \in Tenant, g \in Group, u \in User :
              ~(<<t, g, u>> \in member <=> <<t, g, u>> \in member') =>
                 t = Sole /\ g = req[s].x /\ u \in page[s]
         /\ pc[s] = "link" /\ pc'[s] = "whom" /\ Same(s) /\ req[s].op \in {"add", "remove"}
         /\ page[s] \subseteq req[s].who
         /\ req[s].x \in Group
<1>. DEFINE records == {tenant["groups"]} \X {req[s].x} \X page[s]
<1>1. /\ pc[s] = "link" /\ tenant' = tenant /\ UNCHANGED <<dir, rec, home, told, links, quiet>>
      /\ Goto(s, "whom")
      /\ member' = IF req[s].op = "add" THEN member \cup records ELSE member \ records
  BY DEF Link, webhookVars
<1>2. /\ SlotTypes /\ AskFits(s) /\ PlaceFits(s) /\ HandFits(s) /\ StillHolds(s) /\ TenantFits(s)
      /\ req[s].op \in {"create", "drop"} \cup IdOps /\ req[s].who \subseteq User
      /\ req[s].in \in Store
  BY <1>1, Known, Requested
<1>3. req[s].op \in {"add", "remove"}
  BY <1>1, <1>2 DEF PlaceFits, IdOps
<1>4. tenant["groups"] = Sole /\ req[s].in = "groups" /\ req[s].x \in InStore(req[s].in)
  BY <1>1, <1>2, <1>3 DEF AskFits, TenantFits, IdOps
<1>5. req[s].x \in Group
  BY <1>2, <1>4, Stored
<1>6. PICK u \in req[s].who : page[s] = {u}
  BY <1>1, <1>2, <1>3 DEF HandFits, On
<1>7. \A m : m \in records <=> m = <<Sole, req[s].x, u>>
  BY <1>4, <1>6
<1>. HIDE DEF records
<1>8. /\ \A t \in Tenant, g \in Group, v \in User :
           ~(<<t, g, v>> \in member <=> <<t, g, v>> \in member') =>
              t = Sole /\ g = req[s].x /\ v \in page[s]
      /\ req[s].op = "add" => \A v \in page[s] : <<Sole, req[s].x, v>> \in member'
      /\ req[s].op = "remove" => \A v \in page[s] : <<Sole, req[s].x, v>> \notin member'
  BY <1>1, <1>6, <1>7
<1>9. member' \subseteq Tenant \X Group \X User
  <2>1. Sole \in Tenant /\ u \in User /\ member \subseteq Tenant \X Group \X User
    BY <1>2, TypeSplits DEF OnlyTenant, SyncInv
  <2>2. <<Sole, req[s].x, u>> \in Tenant \X Group \X User
    BY <1>5, <2>1
  <2>. QED
    BY <1>1, <1>7, <2>1, <2>2
<1>10. tenant' \in [Store -> Tenant \cup {None}] /\ KeepsTenant
  BY <1>1, TenantRests
<1>11. SlotTypes' /\ Others(s) /\ Same(s) /\ pc'[s] = "whom"
  BY <1>1, <1>2, Goes DEF Same, Place
<1>12. AskFits(s)' /\ PlaceFits(s)' /\ HandFits(s)' /\ TenantFits(s)'
  BY <1>1, <1>2, <1>3, <1>11 DEF AskFits, PlaceFits, HandFits, TenantFits, On, IdOps, Same
<1>13. StillHolds(s)'
  <2>1. ~Gone(req[s].dir) => Rec(req[s].x) # None
    BY <1>1, <1>2, <1>3 DEF StillHolds, On
  <2>. QED
    BY <1>1, <1>3, <1>8, <1>11, <2>1 DEF StillHolds, On, Same, Rec, Gone
<1>14. TypeOK'
  BY <1>1, <1>9, <1>10, <1>11, TypeSplits DEF SyncInv, TypeOK, SlotTypes, Place
<1>. QED
  BY <1>1, <1>3, <1>5, <1>6, <1>8, <1>10, <1>11, <1>12, <1>13, <1>14 DEF RequestInv

-----------------------------------------------------------------------------
\* The puts and deletions of one user or group.
OnlyRec(x) == \A t \in Tenant, y \in Resource : t # Sole \/ y # x => rec'[t][y] = rec[t][y]

\* The steps that put and delete records.
LEMMA PutNewStep ==
  ASSUME SyncInv, OnlyTenant, NEW s \in Slot, PutNew(s)
  PROVE  /\ TypeOK' /\ RequestInv(s)' /\ Others(s) /\ KeepsTenant
         /\ UNCHANGED <<dir, member, told, links, quiet>>
         /\ pc[s] = "put" /\ req[s].op = "create" /\ pc'[s] = "event"
         /\ req'[s].op = "create" /\ req'[s].dir = req[s].dir /\ req'[s].who = {}
         /\ todo'[s] = todo[s] /\ req[s].who = {}
         /\ req[s].x = None
         /\ \E x \in Resource :
              /\ req'[s].x = x /\ home[x] = None /\ home'[x] = req[s].dir
              /\ \A y \in Resource : y # x => home'[y] = home[y]
              /\ rec'[Sole][x] # None
              /\ rec'[Sole][x].index # None /\ rec'[Sole][x].index[1] = req[s].dir
              /\ OnlyRec(x)
<1>1. /\ pc[s] = "put" /\ req[s].op = "create" /\ tenant' = tenant
      /\ pc' = [pc EXCEPT ![s] = "event"] /\ page' = page /\ todo' = todo
      /\ UNCHANGED <<dir, member, told, links, quiet>>
  BY DEF PutNew, webhookVars
<1>2. /\ SlotTypes /\ AskFits(s) /\ PlaceFits(s) /\ HandFits(s) /\ StillHolds(s) /\ TenantFits(s)
      /\ req[s] \in Request /\ req[s].dir \in Directory /\ req[s].in \in Store
      /\ req[s].label \in Label
  BY <1>1, Known, Requested DEF AskFits
<1>. DEFINE e == [label |-> req[s].label, index |-> <<req[s].dir, req[s].label>>]
<1>3. PICK x \in InStore(req[s].in) :
        /\ home[x] = None /\ home' = [home EXCEPT ![x] = req[s].dir]
        /\ req' = [req EXCEPT ![s].x = x] /\ SetRec(x, e)
  BY <1>1 DEF PutNew
<1>4. x \in Resource /\ x # None /\ StoreOf(x) = req[s].in
  BY <1>2, Stored
<1>5. tenant[StoreOf(x)] = Sole
  BY <1>1, <1>2, <1>4 DEF TenantFits, Store
<1>6. e \in Entry /\ e # None /\ e.label = req[s].label /\ e.index # None /\ e.index[1] = req[s].dir
  <2>1. /\ e \in Entry /\ e.label = req[s].label
        /\ e.index[1] = req[s].dir /\ e.index \in Directory \X Label
    BY <1>2 DEF Entry
  <2>. QED
    BY <2>1, SyncAssumption
<1>. HIDE DEF e
<1>7. /\ rec \in [Tenant -> [Resource -> Entry \cup {None}]] /\ Sole \in Tenant
      /\ home \in [Resource -> Directory \cup {None}]
  BY TypeSplits DEF SyncInv, OnlyTenant
<1>8. /\ rec' \in [Tenant -> [Resource -> Entry \cup {None}]] /\ rec'[Sole][x] = e /\ OnlyRec(x)
  BY <1>3, <1>4, <1>5, <1>6, <1>7, PutsOne DEF OnlyRec
<1>9. /\ home' \in [Resource -> Directory \cup {None}] /\ home'[x] = req[s].dir
      /\ \A y \in Resource : y # x => home'[y] = home[y]
  BY <1>2, <1>3, <1>4, <1>7
<1>. DEFINE r == [req[s] EXCEPT !.x = x]
<1>10. /\ r \in Request /\ r.x = x /\ r.op = req[s].op /\ r.dir = req[s].dir /\ r.in = req[s].in
       /\ r.label = req[s].label /\ r.who = req[s].who /\ req' = [req EXCEPT ![s] = r]
  BY <1>2, <1>3, <1>4 DEF Request, SlotTypes
<1>. HIDE DEF r
<1>11. /\ SlotTypes' /\ Others(s) /\ pc'[s] = "event" /\ req'[s] = r /\ page'[s] = page[s]
       /\ todo'[s] = todo[s]
  <2>1. "event" \in Place \ {"idle"}
    BY DEF Place
  <2>2. SlotTypes /\ r \in Request /\ req' = [req EXCEPT ![s] = r] /\ page' = page /\ todo' = todo
        /\ pc' = [pc EXCEPT ![s] = "event"]
    BY <1>1, <1>2, <1>10
  <2>. QED
    BY ONLY <2>1, <2>2, s \in Slot, Begins
<1>12. tenant' \in [Store -> Tenant \cup {None}] /\ KeepsTenant
  BY <1>1, TenantRests
<1>13. \A u \in req[s].who : FALSE
  BY <1>1, <1>2 DEF AskFits
<1>14. AskFits(s)'
  BY <1>1, <1>2, <1>3, <1>9, <1>10, <1>11, <1>13 DEF AskFits, On, IdOps
<1>15. PlaceFits(s)' /\ HandFits(s)' /\ TenantFits(s)'
  BY <1>1, <1>2, <1>10, <1>11 DEF PlaceFits, HandFits, TenantFits, On
<1>16. StillHolds(s)'
  BY <1>1, <1>6, <1>8, <1>10, <1>11 DEF StillHolds, On, Rec
<1>17. TypeOK'
  BY <1>1, <1>8, <1>9, <1>11, <1>12, TypeSplits DEF SyncInv, TypeOK, SlotTypes, Place
<1>18. req[s].who = {} /\ req[s].x = None
  BY <1>1, <1>2, <1>13 DEF AskFits
<1>19. /\ x \in Resource
       /\ req'[s].x = x /\ home[x] = None /\ home'[x] = req[s].dir
       /\ \A y \in Resource : y # x => home'[y] = home[y]
       /\ rec'[Sole][x] # None
       /\ rec'[Sole][x].index # None /\ rec'[Sole][x].index[1] = req[s].dir
       /\ OnlyRec(x)
  BY <1>3, <1>4, <1>6, <1>8, <1>9, <1>10, <1>11
<1>. QED
  BY <1>1, <1>10, <1>11, <1>12, <1>14, <1>15, <1>16, <1>17, <1>18, <1>19
    DEF RequestInv

\* What a request on one user or group is about.
LEMMA About ==
  ASSUME SyncInv, NEW s \in Slot, pc[s] # "idle", req[s].op \in IdOps
  PROVE  /\ req[s].x \in Resource /\ req[s].x # None /\ home[req[s].x] = req[s].dir
         /\ req[s].dir \in Directory
         /\ pc[s] # "lookup" => tenant[StoreOf(req[s].x)] = Sole /\ Found(req[s].x) = Rec(req[s].x)
<1>1. /\ AskFits(s) /\ PlaceFits(s) /\ SlotTypes /\ req[s].in \in Store /\ req[s].dir \in Directory
  BY Known, Requested
<1>2. req[s].x \in InStore(req[s].in) /\ home[req[s].x] = req[s].dir
  BY <1>1 DEF AskFits
<1>3. req[s].x \in Resource /\ req[s].x # None
  BY <1>1, <1>2, Stored
<1>4. pc[s] # "config" /\ req[s].op # "drop"
  BY <1>1 DEF PlaceFits, IdOps
<1>. QED
  BY <1>1, <1>2, <1>3, <1>4, Controllers

LEMMA PutAgainStep ==
  ASSUME SyncInv, OnlyTenant, NEW s \in Slot, PutAgain(s)
  PROVE  /\ TypeOK' /\ RequestInv(s)' /\ Others(s) /\ KeepsTenant
         /\ UNCHANGED <<dir, member, home, told, links, quiet>>
         /\ pc[s] = "put" /\ req[s].op = "update" /\ pc'[s] = "event" /\ Same(s)
         /\ rec'[Sole][req[s].x] # None /\ OnlyRec(req[s].x)
         /\ Rec(req[s].x) # None => rec'[Sole][req[s].x].index = Rec(req[s].x).index
         /\ Rec(req[s].x) = None => rec'[Sole][req[s].x].index = None
<1>. DEFINE x == req[s].x
<1>1. /\ pc[s] = "put" /\ req[s].op = "update" /\ tenant' = tenant /\ Goto(s, "event")
      /\ UNCHANGED <<dir, member, home, told, links, quiet>>
      /\ SetRec(x, [label |-> req[s].label,
                    index |-> IF Found(x) = None THEN None ELSE Found(x).index])
  BY DEF PutAgain, webhookVars
<1>2. /\ SlotTypes /\ AskFits(s) /\ PlaceFits(s) /\ HandFits(s) /\ StillHolds(s) /\ TenantFits(s)
      /\ req[s].label \in Label
  BY <1>1, Known DEF AskFits
<1>3. x \in Resource /\ tenant[StoreOf(x)] = Sole /\ Found(x) = Rec(x)
  BY <1>1, About DEF IdOps
<1>4. /\ rec \in [Tenant -> [Resource -> Entry \cup {None}]] /\ Sole \in Tenant
  BY TypeSplits DEF SyncInv, OnlyTenant
<1>. DEFINE i == IF Rec(x) = None THEN None ELSE Rec(x).index
            e == [label |-> req[s].label, index |-> i]
<1>5. i \in (Directory \X Label) \cup {None}
  BY <1>3, <1>4 DEF Rec, Entry
<1>6. e \in Entry /\ e # None /\ e.label = req[s].label /\ e.index = i
  <2>. HIDE DEF i
  <2>1. e \in Entry /\ e.label = req[s].label /\ e.index = i
    BY <1>2, <1>5 DEF Entry
  <2>. QED
    BY <2>1, SyncAssumption
<1>7. SetRec(x, e)
  BY <1>1, <1>3
<1>. HIDE DEF e
<1>8. /\ rec' \in [Tenant -> [Resource -> Entry \cup {None}]] /\ rec'[Sole][x] = e /\ OnlyRec(x)
  BY <1>3, <1>4, <1>6, <1>7, PutsOne DEF OnlyRec
<1>9. SlotTypes' /\ Others(s) /\ Same(s) /\ pc'[s] = "event"
  BY <1>1, <1>2, Goes DEF Same, Place
<1>10. tenant' \in [Store -> Tenant \cup {None}] /\ KeepsTenant
  BY <1>1, TenantRests
<1>11. AskFits(s)' /\ PlaceFits(s)' /\ HandFits(s)' /\ TenantFits(s)'
  BY <1>1, <1>2, <1>9 DEF AskFits, PlaceFits, HandFits, TenantFits, On, Same, IdOps
<1>12. StillHolds(s)'
  BY <1>1, <1>6, <1>8, <1>9 DEF StillHolds, On, Same, Rec
<1>13. TypeOK'
  BY <1>1, <1>8, <1>9, <1>10, TypeSplits DEF SyncInv, TypeOK, SlotTypes, Place
<1>14. /\ rec'[Sole][x] # None
       /\ Rec(x) # None => rec'[Sole][x].index = Rec(x).index
       /\ Rec(x) = None => rec'[Sole][x].index = None
  BY <1>6, <1>8
<1>. QED
  BY <1>1, <1>8, <1>9, <1>10, <1>11, <1>12, <1>13, <1>14 DEF RequestInv

LEMMA DeleteStep ==
  ASSUME SyncInv, OnlyTenant, NEW s \in Slot, Delete(s)
  PROVE  /\ TypeOK' /\ RequestInv(s)' /\ Others(s) /\ KeepsTenant
         /\ UNCHANGED <<dir, member, home, told, links, quiet>>
         /\ pc[s] = "delete" /\ req[s].op = "delete" /\ req'[s] = req[s]
         /\ rec'[Sole][req[s].x] = None /\ OnlyRec(req[s].x)
         /\ \/ pc'[s] = "event" /\ req[s].x \in User
            \/ pc'[s] = "purge" /\ todo'[s] = {req[s].x}
<1>. DEFINE x == req[s].x
<1>1. /\ pc[s] = "delete" /\ tenant' = tenant
      /\ UNCHANGED <<dir, member, home, told, links, quiet>>
      /\ SetRec(x, None)
  BY DEF Delete, webhookVars
<1>2. /\ SlotTypes /\ AskFits(s) /\ PlaceFits(s) /\ HandFits(s) /\ StillHolds(s) /\ TenantFits(s)
      /\ req[s].op \in {"create", "drop"} \cup IdOps
  BY <1>1, Known, Requested
<1>3. req[s].op = "delete"
  BY <1>1, <1>2 DEF PlaceFits, IdOps
<1>4. x \in Resource /\ tenant[StoreOf(x)] = Sole /\ Found(x) = Rec(x)
  BY <1>1, <1>3, About DEF IdOps
<1>5. /\ rec \in [Tenant -> [Resource -> Entry \cup {None}]] /\ Sole \in Tenant
  BY TypeSplits DEF SyncInv, OnlyTenant
<1>8. /\ rec' \in [Tenant -> [Resource -> Entry \cup {None}]] /\ rec'[Sole][x] = None /\ OnlyRec(x)
  BY <1>1, <1>4, <1>5, PutsOne DEF OnlyRec
<1>10. tenant' \in [Store -> Tenant \cup {None}] /\ KeepsTenant
  BY <1>1, TenantRests
<1>11. CASE x \in User
  <2>1. Goto(s, "event")
    BY <1>11 DEF Delete
  <2>2. SlotTypes' /\ Others(s) /\ Same(s) /\ pc'[s] = "event"
    BY <1>1, <1>2, <2>1, Goes DEF Same, Place
  <2>3. AskFits(s)' /\ PlaceFits(s)' /\ HandFits(s)' /\ TenantFits(s)'
    BY <1>1, <1>2, <1>3, <2>2 DEF AskFits, PlaceFits, HandFits, TenantFits, On, Same, IdOps
  <2>4. StillHolds(s)'
    BY <1>1, <1>3, <1>8, <2>2 DEF StillHolds, On, Same, Rec
  <2>5. TypeOK'
    BY <1>1, <1>8, <1>10, <2>2, TypeSplits DEF SyncInv, TypeOK, SlotTypes, Place
  <2>. QED
    BY <1>1, <1>3, <1>8, <1>10, <1>11, <2>2, <2>3, <2>4, <2>5 DEF RequestInv, Rec, Same
<1>12. CASE x \notin User
  <2>1. /\ pc' = [pc EXCEPT ![s] = "purge"] /\ todo' = [todo EXCEPT ![s] = {x}]
        /\ req' = req /\ page' = page
    BY <1>12 DEF Delete
  <2>2. x \in Group
    BY <1>4, <1>12 DEF Resource
  <2>3. SlotTypes' /\ Others(s) /\ pc'[s] = "purge" /\ req'[s] = req[s] /\ todo'[s] = {x}
        /\ page'[s] = page[s]
    <3>1. /\ req' = [req EXCEPT ![s] = req[s]] /\ req[s] \in Request \cup {None} /\ req[s] # None
          /\ page' = [page EXCEPT ![s] = page[s]] /\ page[s] \in SUBSET Resource
      BY <1>1, <1>2, <2>1, Stays
    <3>. DEFINE t == {x} to == "purge"
    <3>2. /\ todo' = [todo EXCEPT ![s] = t] /\ pc' = [pc EXCEPT ![s] = to]
          /\ t \in SUBSET Group /\ to \in Place /\ to # "idle" /\ SlotTypes
      BY <1>2, <2>1, <2>2 DEF Place
    <3>3. t = {x} /\ to = "purge"
      OBVIOUS
    <3>. HIDE DEF t, to
    <3>4. SlotTypes' /\ Others(s) /\ pc'[s] = to /\ req'[s] = req[s] /\ todo'[s] = t
          /\ page'[s] = page[s]
      BY ONLY <3>1, <3>2, s \in Slot, Moves
    <3>. QED
      BY <3>3, <3>4
  <2>4. AskFits(s)' /\ PlaceFits(s)' /\ HandFits(s)' /\ TenantFits(s)'
    BY <1>1, <1>2, <1>3, <2>2, <2>3 DEF AskFits, PlaceFits, HandFits, TenantFits, On, IdOps
  <2>5. StillHolds(s)'
    BY <1>1, <1>3, <1>8, <2>3 DEF StillHolds, On, Rec
  <2>6. TypeOK'
    BY <1>1, <1>8, <1>10, <2>3, TypeSplits DEF SyncInv, TypeOK, SlotTypes, Place
  <2>. QED
    BY <1>1, <1>3, <1>8, <1>10, <2>3, <2>4, <2>5, <2>6 DEF RequestInv, Rec
<1>. QED
  BY <1>11, <1>12

-----------------------------------------------------------------------------
LEMMA EventStep ==
  ASSUME SyncInv, OnlyTenant, NEW s \in Slot, Event(s)
  PROVE  /\ TypeOK' /\ RequestInv(s)' /\ Others(s) /\ KeepsTenant
         /\ UNCHANGED <<dir, rec, member, home, quiet>>
         /\ pc[s] = "event" /\ ~Gone(req[s].dir) /\ req[s].op \in {"create"} \cup IdOps
         /\ req[s].x \in Resource /\ home[req[s].x] = req[s].dir
         /\ req[s].op \in {"add", "remove"} => told' = told
         /\ req[s].op \notin {"add", "remove"} =>
              /\ told'[req[s].x] = req[s].label
              /\ \A x \in Resource : x # req[s].x => told'[x] = told[x]
         /\ \A g \in Group, u \in User :
              /\ req[s].op = "add" =>
                   (<<g, u>> \in links' <=> <<g, u>> \in links \/ (g = req[s].x /\ u \in page[s]))
              /\ req[s].op = "remove" =>
                   (<<g, u>> \in links' <=> <<g, u>> \in links /\ ~(g = req[s].x /\ u \in page[s]))
              /\ req[s].op = "delete" =>
                   (<<g, u>> \in links' <=> <<g, u>> \in links /\ req[s].x # g /\ req[s].x # u)
              /\ req[s].op \in {"create", "update"} => (<<g, u>> \in links' <=> <<g, u>> \in links)
         /\ \/ pc'[s] = "idle"
            \/ /\ pc'[s] = "member" /\ req[s].op \in {"add", "remove"}
               /\ req'[s].op = req[s].op /\ req'[s].x = req[s].x
               /\ req'[s].dir = req[s].dir /\ req'[s].who \subseteq req[s].who
<1>1. /\ pc[s] = "event" /\ ~Gone(req[s].dir) /\ tenant' = tenant /\ NextMember(s)
      /\ UNCHANGED <<dir, rec, member, home, quiet>>
      /\ told' = IF req[s].op \in {"add", "remove"} THEN told
                 ELSE [told EXCEPT ![req[s].x] = req[s].label]
      /\ links' = CASE req[s].op = "add" -> links \cup ({req[s].x} \X page[s])
                    [] req[s].op = "remove" -> links \ ({req[s].x} \X page[s])
                    [] req[s].op = "delete" -> {p \in links : req[s].x \notin {p[1], p[2]}}
                    [] OTHER -> links
  BY DEF Event, Gone
<1>2. /\ SlotTypes /\ AskFits(s) /\ PlaceFits(s) /\ HandFits(s)
      /\ req[s].op \in {"create", "drop"} \cup IdOps /\ req[s].label \in Label \cup {None}
      /\ req[s].who \subseteq User /\ req[s].in \in Store
  BY <1>1, Known, Requested
<1>3. req[s].op \in {"create"} \cup IdOps
  BY <1>1, <1>2 DEF PlaceFits, IdOps
<1>4. req[s].x \in InStore(req[s].in) /\ home[req[s].x] = req[s].dir
  BY <1>1, <1>2, <1>3 DEF AskFits, On
<1>5. req[s].x \in Resource /\ (req[s].op \in {"add", "remove"} => req[s].x \in Group)
  BY <1>2, <1>4, Stored DEF AskFits
<1>6. told \in [Resource -> Label \cup {None}] /\ links \subseteq Group \X User
  BY TypeSplits DEF SyncInv
<1>7. /\ told' \in [Resource -> Label \cup {None}]
      /\ req[s].op \in {"add", "remove"} => told' = told
      /\ req[s].op \notin {"add", "remove"} =>
           /\ told'[req[s].x] = req[s].label
           /\ \A x \in Resource : x # req[s].x => told'[x] = told[x]
  BY <1>1, <1>2, <1>5, <1>6
<1>8. req[s].op \in {"add", "remove"} => page[s] \subseteq User
  BY <1>1, <1>2 DEF HandFits, On
<1>9. links' \subseteq Group \X User
  <2>1. CASE req[s].op = "add"
    BY <1>1, <1>5, <1>6, <1>8, <2>1
  <2>2. CASE req[s].op # "add"
    <3>1. links' \subseteq links
      BY <1>1, <2>2
    <3>. QED
      BY <1>6, <3>1
  <2>. QED
    BY <2>1, <2>2
<1>10. ASSUME NEW g \in Group, NEW u \in User
       PROVE  /\ req[s].op = "add" =>
                   (<<g, u>> \in links' <=> <<g, u>> \in links \/ (g = req[s].x /\ u \in page[s]))
              /\ req[s].op = "remove" =>
                   (<<g, u>> \in links' <=> <<g, u>> \in links /\ ~(g = req[s].x /\ u \in page[s]))
              /\ req[s].op = "delete" =>
                   (<<g, u>> \in links' <=> <<g, u>> \in links /\ req[s].x # g /\ req[s].x # u)
              /\ req[s].op \in {"create", "update"} => (<<g, u>> \in links' <=> <<g, u>> \in links)
  <2>1. CASE req[s].op = "add"
    BY <1>1, <2>1
  <2>2. CASE req[s].op = "remove"
    BY <1>1, <2>2
  <2>3. CASE req[s].op = "delete"
    BY <1>1, <2>3
  <2>4. CASE req[s].op \in {"create", "update"}
    BY <1>1, <2>4
  <2>. QED
    BY <1>3, <2>1, <2>2, <2>3, <2>4 DEF IdOps
<1>11. RequestInv(s)'
  BY <1>1, NextMemberStep
<1>12. /\ SlotTypes' /\ Others(s)
       /\ \/ pc'[s] = "idle"
          \/ /\ pc'[s] = "member" /\ req[s].op \in {"add", "remove"}
             /\ req'[s].op = req[s].op /\ req'[s].x = req[s].x
             /\ req'[s].dir = req[s].dir /\ req'[s].who = req[s].who \ page[s]
  BY <1>1, NextMemberMoves
<1>13. tenant' \in [Store -> Tenant \cup {None}] /\ KeepsTenant
  BY <1>1, TenantRests
<1>14. TypeOK'
  BY <1>1, <1>7, <1>9, <1>12, <1>13, TypeSplits DEF SyncInv, TypeOK, SlotTypes, Place
<1>. QED
  BY <1>1, <1>3, <1>4, <1>5, <1>7, <1>10, <1>11, <1>12, <1>13, <1>14

-----------------------------------------------------------------------------
\* The deletion of a directory.
LEMMA DropFits ==
  ASSUME SyncInv, NEW s \in Slot,
         pc[s] \in {"config", "groups", "groupPage", "users", "userPage"}
  PROVE  /\ req[s].op = "drop" /\ req[s].dir \in Directory /\ Touches(req[s]) = {None}
         /\ req[s].x = None /\ req[s].who = {} /\ req[s].in = "groups"
         /\ pc[s] # "config" => Gone(req[s].dir) /\ tenant["groups"] = Sole
         /\ pc[s] \in {"users", "userPage"} => tenant["users"] = Sole
<1>1. /\ AskFits(s) /\ PlaceFits(s) /\ StillHolds(s) /\ TenantFits(s) /\ req[s].dir \in Directory
      /\ req[s].op \in {"create", "drop"} \cup IdOps
  BY Known, Requested
<1>2. req[s].op = "drop"
  BY <1>1 DEF PlaceFits, IdOps
<1>3. req[s].x = None /\ req[s].who = {} /\ req[s].in = "groups"
  BY <1>1, <1>2 DEF AskFits
<1>. QED
  BY <1>1, <1>2, <1>3 DEF Touches, StillHolds, TenantFits

\* The pages of a deletion.
LEMMA DropConfigStep ==
  ASSUME SyncInv, OnlyTenant, NEW s \in Slot, DropConfig(s)
  PROVE  /\ TypeOK' /\ RequestInv(s)' /\ Others(s) /\ KeepsTenant
         /\ UNCHANGED <<rec, member, home, told, links>>
         /\ pc[s] = "config" /\ pc'[s] = "groups" /\ Same(s) /\ req[s].op = "drop"
         /\ req[s].dir \in Directory /\ Touches(req[s]) = {None}
         /\ \A d \in Directory : dir'[d] = IF d = req[s].dir THEN "gone" ELSE dir[d]
         /\ \/ quiet' = quiet
            \/ /\ ~Gone(req[s].dir) /\ quiet' = quiet \cup {req[s].dir}
               /\ \A r \in Slot \ {s} : ~For(r, req[s].dir)
<1>. DEFINE d == req[s].dir
<1>1. /\ pc[s] = "config" /\ Goto(s, "groups")
      /\ dir' = [dir EXCEPT ![d] = "gone"]
      /\ quiet' = IF UnderWay(s, d) \/ dir[d] = "gone" THEN quiet ELSE quiet \cup {d}
      /\ tenant' = [tenant EXCEPT !["groups"] = TenantOf[d]]
      /\ UNCHANGED <<rec, member, home, told, links>>
  BY DEF DropConfig, webhookVars
<1>2. /\ req[s].op = "drop" /\ d \in Directory /\ Touches(req[s]) = {None}
      /\ req[s].x = None /\ req[s].who = {} /\ req[s].in = "groups" /\ SlotTypes /\ AskFits(s)
  BY <1>1, DropFits, Known
<1>3. /\ tenant \in [Store -> Tenant \cup {None}] /\ quiet \subseteq Directory
      /\ dir \in [Directory -> {"active", "inactive", "gone"}]
      /\ TenantOf[d] = Sole /\ Sole \in Tenant
  BY <1>2, TypeSplits DEF SyncInv, OnlyTenant
<1>4. /\ tenant' \in [Store -> Tenant \cup {None}] /\ KeepsTenant /\ tenant'["groups"] = Sole
  BY <1>1, <1>3 DEF KeepsTenant, Store
<1>5. /\ dir' \in [Directory -> {"active", "inactive", "gone"}]
      /\ \A e \in Directory : dir'[e] = IF e = d THEN "gone" ELSE dir[e]
      /\ dir'[d] = "gone"
  BY <1>1, <1>2, <1>3
<1>6. /\ quiet' \subseteq Directory
      /\ \/ quiet' = quiet
         \/ /\ ~Gone(d) /\ quiet' = quiet \cup {d}
            /\ \A r \in Slot \ {s} : ~For(r, d)
  BY <1>1, <1>2, <1>3 DEF UnderWay, Gone, For
<1>7. SlotTypes' /\ Others(s) /\ Same(s) /\ pc'[s] = "groups"
  BY <1>1, <1>2, Goes DEF Same, Place
<1>8. AskFits(s)' /\ PlaceFits(s)' /\ HandFits(s)' /\ TenantFits(s)' /\ StillHolds(s)'
  BY <1>1, <1>2, <1>4, <1>5, <1>7
    DEF AskFits, PlaceFits, HandFits, TenantFits, StillHolds, On, Same, IdOps, Gone
<1>9. TypeOK'
  BY <1>1, <1>4, <1>5, <1>6, <1>7, TypeSplits DEF SyncInv, TypeOK, SlotTypes, Place
<1>. QED
  BY <1>1, <1>2, <1>4, <1>5, <1>6, <1>7, <1>8, <1>9 DEF RequestInv

\* The records of a directory that are listed are its own.
LEMMA ListedFit ==
  ASSUME SyncInv, OnlyTenant, NEW d \in Directory, NEW c \in Store, tenant[c] = Sole
  PROVE  /\ \A x \in Listed(d, c) : x \in Resource /\ x \in InStore(c) /\ home[x] = d
         /\ Findable(d) /\ Listed(d, c) = {} => Deleted(d, InStore(c))
<1>1. ASSUME NEW x \in InStore(c) PROVE Found(x) = Rec(x) /\ x \in Resource
  BY <1>1, Stored DEF Found, Rec
<1>2. ASSUME NEW x \in InStore(c), Rec(x) # None
      PROVE  /\ Rec(x).index # None => Rec(x).index[1] = home[x]
             /\ Findable(home[x]) => Rec(x).index # None
  BY <1>1, <1>2 DEF SyncInv, RecordInv, Rec, OnlyTenant
<1>3. ASSUME NEW x \in Listed(d, c) PROVE x \in Resource /\ x \in InStore(c) /\ home[x] = d
  BY <1>1, <1>2 DEF Listed
<1>4. ASSUME Findable(d), Listed(d, c) = {}, NEW x \in InStore(c), home[x] = d, Rec(x) # None
      PROVE  FALSE
  BY <1>1, <1>2, <1>4 DEF Listed
<1>. QED
  BY <1>3, <1>4 DEF Deleted

LEMMA DropGroupsStep ==
  ASSUME SyncInv, OnlyTenant, NEW s \in Slot, DropGroups(s)
  PROVE  /\ TypeOK' /\ RequestInv(s)' /\ Others(s) /\ KeepsTenant /\ Rests
         /\ pc[s] = "groups" /\ req'[s] = req[s] /\ todo'[s] = todo[s] /\ req[s].op = "drop"
         /\ req[s].dir \in Directory
         /\ \/ pc'[s] = "groupPage"
            \/ pc'[s] = "users" /\ (Findable(req[s].dir) => Deleted(req[s].dir, Group))
<1>. DEFINE d == req[s].dir
<1>1. /\ pc[s] = "groups" /\ Rests
  BY DEF DropGroups, Rests, webhookVars
<1>2. /\ req[s].op = "drop" /\ d \in Directory /\ Touches(req[s]) = {None}
      /\ req[s].x = None /\ req[s].who = {} /\ req[s].in = "groups" /\ SlotTypes /\ AskFits(s)
      /\ tenant["groups"] = Sole /\ Gone(d)
  BY <1>1, DropFits, Known
<1>3. /\ tenant \in [Store -> Tenant \cup {None}]
      /\ TenantOf[d] = Sole /\ Sole \in Tenant
  BY <1>2, TypeSplits DEF SyncInv, OnlyTenant
<1>4. CASE Listed(d, "groups") = {}
  <2>1. tenant' = [tenant EXCEPT !["users"] = TenantOf[d]] /\ Goto(s, "users")
    BY <1>4 DEF DropGroups
  <2>2. /\ tenant' \in [Store -> Tenant \cup {None}] /\ KeepsTenant
        /\ tenant'["groups"] = Sole /\ tenant'["users"] = Sole
    BY <1>2, <1>3, <2>1 DEF KeepsTenant, Store
  <2>3. SlotTypes' /\ Others(s) /\ Same(s) /\ pc'[s] = "users"
    BY <1>1, <1>2, <2>1, Goes DEF Same, Place
  <2>4. AskFits(s)' /\ PlaceFits(s)' /\ HandFits(s)' /\ TenantFits(s)' /\ StillHolds(s)'
    BY <1>1, <1>2, <2>2, <2>3
      DEF AskFits, PlaceFits, HandFits, TenantFits, StillHolds, On, Same, IdOps, Gone, Rests
  <2>5. Findable(d) => Deleted(d, Group)
    BY <1>2, <1>4, ListedFit DEF Store, InStore
  <2>. QED
    BY <1>1, <1>2, <2>2, <2>3, <2>4, <2>5, RestsTyped DEF RequestInv, Same
<1>5. CASE Listed(d, "groups") # {}
  <2>1. PICK p \in SUBSET Group :
          PageOf(Listed(d, "groups"), p) /\ page' = [page EXCEPT ![s] = p]
    BY <1>5 DEF DropGroups
  <2>2. pc' = [pc EXCEPT ![s] = "groupPage"] /\ UNCHANGED <<tenant, req, todo>>
    BY <1>5 DEF DropGroups
  <2>3. \A x \in p : x \in Group /\ home[x] = d
    <3>1. \A x \in Listed(d, "groups") : x \in InStore("groups") /\ home[x] = d
      BY <1>2, ListedFit DEF Store
    <3>. QED
      BY <2>1, <3>1 DEF PageOf
  <2>4. SlotTypes' /\ Others(s) /\ pc'[s] = "groupPage" /\ req'[s] = req[s] /\ page'[s] = p
        /\ todo'[s] = todo[s]
    <3>1. /\ req' = [req EXCEPT ![s] = req[s]] /\ req[s] \in Request \cup {None} /\ req[s] # None
          /\ todo' = [todo EXCEPT ![s] = todo[s]] /\ todo[s] \in SUBSET Group
      BY <1>1, <1>2, <2>2, Stays
    <3>. DEFINE to == "groupPage"
    <3>2. /\ page' = [page EXCEPT ![s] = p] /\ pc' = [pc EXCEPT ![s] = to]
          /\ p \in SUBSET Resource /\ to \in Place /\ to # "idle" /\ SlotTypes
      BY <1>2, <2>1, <2>2 DEF Resource, Place
    <3>3. to = "groupPage"
      OBVIOUS
    <3>. HIDE DEF to
    <3>4. SlotTypes' /\ Others(s) /\ pc'[s] = to /\ req'[s] = req[s] /\ page'[s] = p
          /\ todo'[s] = todo[s]
      BY ONLY <3>1, <3>2, s \in Slot, Moves
    <3>. QED
      BY <3>3, <3>4
  <2>5. AskFits(s)' /\ PlaceFits(s)' /\ HandFits(s)' /\ TenantFits(s)' /\ StillHolds(s)'
    BY <1>1, <1>2, <2>2, <2>3, <2>4
      DEF AskFits, PlaceFits, HandFits, TenantFits, StillHolds, On, IdOps, Gone, Rests
  <2>. QED
    BY <1>1, <1>2, <2>2, <2>4, <2>5, RestsTyped, TenantRests DEF RequestInv
<1>. QED
  BY <1>4, <1>5

LEMMA DropUsersStep ==
  ASSUME SyncInv, OnlyTenant, NEW s \in Slot, DropUsers(s)
  PROVE  /\ TypeOK' /\ RequestInv(s)' /\ Others(s) /\ KeepsTenant /\ Rests
         /\ pc[s] = "users" /\ req[s].op = "drop" /\ req[s].dir \in Directory
         /\ \/ pc'[s] = "userPage" /\ req'[s] = req[s] /\ todo'[s] = todo[s]
            \/ pc'[s] = "idle" /\ (Findable(req[s].dir) => Deleted(req[s].dir, User))
<1>. DEFINE d == req[s].dir
<1>1. /\ pc[s] = "users" /\ Rests /\ tenant' = tenant
  BY DEF DropUsers, Rests, webhookVars
<1>2. /\ req[s].op = "drop" /\ d \in Directory /\ Touches(req[s]) = {None}
      /\ req[s].x = None /\ req[s].who = {} /\ req[s].in = "groups" /\ SlotTypes /\ AskFits(s)
      /\ tenant["groups"] = Sole /\ tenant["users"] = Sole /\ Gone(d)
  BY <1>1, DropFits, Known
<1>3. tenant' \in [Store -> Tenant \cup {None}] /\ KeepsTenant
  BY <1>1, TenantRests
<1>4. CASE Listed(d, "users") = {}
  <2>1. Answer(s)
    BY <1>4 DEF DropUsers
  <2>2. Findable(d) => Deleted(d, User)
    BY <1>2, <1>4, ListedFit DEF Store, InStore
  <2>. QED
    BY <1>1, <1>2, <1>3, <2>1, <2>2, AnswerStep
<1>5. CASE Listed(d, "users") # {}
  <2>1. PICK p \in SUBSET User :
          PageOf(Listed(d, "users"), p) /\ page' = [page EXCEPT ![s] = p]
    BY <1>5 DEF DropUsers
  <2>2. pc' = [pc EXCEPT ![s] = "userPage"] /\ UNCHANGED <<req, todo>>
    BY <1>5 DEF DropUsers
  <2>3. \A x \in p : x \in User /\ home[x] = d
    <3>1. \A x \in Listed(d, "users") : x \in InStore("users") /\ home[x] = d
      BY <1>2, ListedFit DEF Store
    <3>. QED
      BY <2>1, <3>1 DEF PageOf
  <2>4. SlotTypes' /\ Others(s) /\ pc'[s] = "userPage" /\ req'[s] = req[s] /\ page'[s] = p
        /\ todo'[s] = todo[s]
    <3>1. /\ req' = [req EXCEPT ![s] = req[s]] /\ req[s] \in Request \cup {None} /\ req[s] # None
          /\ todo' = [todo EXCEPT ![s] = todo[s]] /\ todo[s] \in SUBSET Group
      BY <1>1, <1>2, <2>2, Stays
    <3>. DEFINE to == "userPage"
    <3>2. /\ page' = [page EXCEPT ![s] = p] /\ pc' = [pc EXCEPT ![s] = to]
          /\ p \in SUBSET Resource /\ to \in Place /\ to # "idle" /\ SlotTypes
      BY <1>2, <2>1, <2>2 DEF Resource, Place
    <3>3. to = "userPage"
      OBVIOUS
    <3>. HIDE DEF to
    <3>4. SlotTypes' /\ Others(s) /\ pc'[s] = to /\ req'[s] = req[s] /\ page'[s] = p
          /\ todo'[s] = todo[s]
      BY ONLY <3>1, <3>2, s \in Slot, Moves
    <3>. QED
      BY <3>3, <3>4
  <2>5. AskFits(s)' /\ PlaceFits(s)' /\ HandFits(s)' /\ TenantFits(s)' /\ StillHolds(s)'
    BY <1>1, <1>2, <2>2, <2>3, <2>4
      DEF AskFits, PlaceFits, HandFits, TenantFits, StillHolds, On, IdOps, Gone, Rests
  <2>. QED
    BY <1>1, <1>2, <1>3, <2>2, <2>4, <2>5, RestsTyped DEF RequestInv
<1>. QED
  BY <1>4, <1>5

LEMMA DropPageStep ==
  ASSUME SyncInv, OnlyTenant, NEW s \in Slot, DropPage(s)
  PROVE  /\ TypeOK' /\ RequestInv(s)' /\ Others(s) /\ KeepsTenant
         /\ UNCHANGED <<dir, member, home, told, links, quiet>>
         /\ req[s].op = "drop" /\ req'[s] = req[s] /\ req[s].dir \in Directory /\ Gone(req[s].dir)
         /\ \A x \in page[s] : x \in Resource /\ home[x] = req[s].dir
         /\ \A t \in Tenant, x \in Resource : rec'[t][x] = rec[t][x] \/ rec'[t][x] = None
         /\ \A x \in Resource : x \notin page[s] => rec'[Sole][x] = rec[Sole][x]
         /\ \/ pc[s] = "groupPage" /\ pc'[s] = "purge" /\ todo'[s] = page[s]
            \/ /\ pc[s] = "userPage" /\ pc'[s] = "users" /\ todo'[s] = todo[s]
               /\ \A x \in page[s] : x \in User
<1>. DEFINE d == req[s].dir
            c == IF pc[s] = "userPage" THEN "users" ELSE "groups"
<1>1. /\ pc[s] \in {"groupPage", "userPage"} /\ tenant' = tenant /\ req' = req
      /\ UNCHANGED <<dir, member, home, told, links, quiet>>
      /\ page' = [page EXCEPT ![s] = {}]
      /\ rec' = [rec EXCEPT ![tenant[c]] =
                   [x \in Resource |-> IF x \in page[s] THEN None ELSE @[x]]]
      /\ pc[s] = "groupPage" => /\ todo' = [todo EXCEPT ![s] = page[s]]
                                /\ pc' = [pc EXCEPT ![s] = "purge"]
      /\ pc[s] = "userPage" => todo' = todo /\ pc' = [pc EXCEPT ![s] = "users"]
  BY DEF DropPage, webhookVars
<1>2. /\ req[s].op = "drop" /\ d \in Directory /\ Touches(req[s]) = {None}
      /\ req[s].x = None /\ req[s].who = {} /\ req[s].in = "groups" /\ SlotTypes /\ AskFits(s)
      /\ HandFits(s) /\ tenant["groups"] = Sole /\ Gone(d)
      /\ pc[s] = "userPage" => tenant["users"] = Sole
      /\ page[s] \subseteq Resource /\ todo[s] \subseteq Group
  BY <1>1, DropFits, Known, Requested
<1>3. tenant' \in [Store -> Tenant \cup {None}] /\ KeepsTenant
  BY <1>1, TenantRests
<1>4. /\ rec \in [Tenant -> [Resource -> Entry \cup {None}]] /\ Sole \in Tenant
  BY TypeSplits DEF SyncInv, OnlyTenant
<1>5. tenant[c] = Sole
  BY <1>1, <1>2
<1>6. /\ rec' \in [Tenant -> [Resource -> Entry \cup {None}]]
      /\ \A t \in Tenant, x \in Resource : rec'[t][x] = rec[t][x] \/ rec'[t][x] = None
      /\ \A x \in Resource : x \notin page[s] => rec'[Sole][x] = rec[Sole][x]
  <2>. DEFINE row == [x \in Resource |-> IF x \in page[s] THEN None ELSE rec[Sole][x]]
  <2>1. rec' = [rec EXCEPT ![Sole] = row]
    BY <1>1, <1>4, <1>5
  <2>2. /\ row \in [Resource -> Entry \cup {None}]
        /\ \A x \in Resource : row[x] = rec[Sole][x] \/ row[x] = None
        /\ \A x \in Resource : x \notin page[s] => row[x] = rec[Sole][x]
    BY <1>4
  <2>. HIDE DEF row
  <2>. QED
    BY <1>4, <2>1, <2>2
<1>7. \A x \in page[s] : x \in Resource /\ home[x] = d
  BY <1>1, <1>2 DEF HandFits
<1>8. CASE pc[s] = "groupPage"
  <2>1. page[s] \subseteq Group
    BY <1>2, <1>8 DEF HandFits
  <2>2. SlotTypes' /\ Others(s) /\ pc'[s] = "purge" /\ req'[s] = req[s] /\ todo'[s] = page[s]
    <3>1. /\ req' = [req EXCEPT ![s] = req[s]] /\ req[s] \in Request \cup {None} /\ req[s] # None
      BY <1>1, <1>2, Stays
    <3>. DEFINE p == {} to == "purge"
    <3>2. /\ todo' = [todo EXCEPT ![s] = page[s]] /\ pc' = [pc EXCEPT ![s] = to]
          /\ page' = [page EXCEPT ![s] = p]
          /\ p \in SUBSET Resource /\ page[s] \in SUBSET Group /\ to \in Place /\ to # "idle"
          /\ SlotTypes
      BY <1>1, <1>2, <1>8, <2>1 DEF Place
    <3>3. to = "purge"
      OBVIOUS
    <3>. HIDE DEF p, to
    <3>4. SlotTypes' /\ Others(s) /\ pc'[s] = to /\ req'[s] = req[s] /\ todo'[s] = page[s]
      BY ONLY <3>1, <3>2, s \in Slot, Moves
    <3>. QED
      BY <3>3, <3>4
  <2>3. AskFits(s)' /\ PlaceFits(s)' /\ HandFits(s)' /\ TenantFits(s)' /\ StillHolds(s)'
    BY <1>1, <1>2, <1>7, <2>2
      DEF AskFits, PlaceFits, HandFits, TenantFits, StillHolds, On, IdOps, Gone
  <2>4. TypeOK'
    BY <1>1, <1>3, <1>6, <2>2, TypeSplits DEF SyncInv, TypeOK, SlotTypes, Place
  <2>. QED
    BY <1>1, <1>2, <1>3, <1>6, <1>7, <1>8, <2>2, <2>3, <2>4 DEF RequestInv
<1>9. CASE pc[s] = "userPage"
  <2>1. \A x \in page[s] : x \in User
    BY <1>2, <1>9 DEF HandFits
  <2>2. SlotTypes' /\ Others(s) /\ pc'[s] = "users" /\ req'[s] = req[s] /\ todo'[s] = todo[s]
    <3>1. /\ req' = [req EXCEPT ![s] = req[s]] /\ req[s] \in Request \cup {None} /\ req[s] # None
          /\ todo' = [todo EXCEPT ![s] = todo[s]] /\ todo[s] \in SUBSET Group
      BY <1>1, <1>2, <1>9, Stays
    <3>. DEFINE p == {} to == "users"
    <3>2. /\ pc' = [pc EXCEPT ![s] = to]
          /\ page' = [page EXCEPT ![s] = p]
          /\ p \in SUBSET Resource /\ to \in Place /\ to # "idle" /\ SlotTypes
      BY <1>1, <1>2, <1>9 DEF Place
    <3>3. to = "users"
      OBVIOUS
    <3>. HIDE DEF p, to
    <3>4. SlotTypes' /\ Others(s) /\ pc'[s] = to /\ req'[s] = req[s] /\ todo'[s] = todo[s]
      BY ONLY <3>1, <3>2, s \in Slot, Moves
    <3>. QED
      BY <3>3, <3>4
  <2>3. AskFits(s)' /\ PlaceFits(s)' /\ HandFits(s)' /\ TenantFits(s)' /\ StillHolds(s)'
    BY <1>1, <1>2, <1>9, <2>2
      DEF AskFits, PlaceFits, HandFits, TenantFits, StillHolds, On, IdOps, Gone
  <2>4. TypeOK'
    BY <1>1, <1>3, <1>6, <2>2, TypeSplits DEF SyncInv, TypeOK, SlotTypes, Place
  <2>. QED
    BY <1>1, <1>2, <1>3, <1>6, <1>7, <1>9, <2>1, <2>2, <2>3, <2>4 DEF RequestInv
<1>. QED
  BY <1>1, <1>8, <1>9

\* An administrator's switch.
LEMMA DeactivateStep ==
  ASSUME SyncInv, NEW d \in Directory, Deactivate(d)
  PROVE  /\ TypeOK'
         /\ UNCHANGED <<tenant, rec, member, home, told, links, pc, req, page, todo, quiet>>
         /\ \A e \in Directory : Gone(e) <=> dir'[e] = "gone"
<1>1. /\ d \in Deletable /\ dir[d] # "gone"
      /\ dir' = [dir EXCEPT ![d] = IF @ = "active" THEN "inactive" ELSE "active"]
      /\ UNCHANGED <<tenant, rec, member, home, told, links, pc, req, page, todo, quiet>>
  BY DEF Deactivate, webhookVars, requestVars
<1>2. dir \in [Directory -> {"active", "inactive", "gone"}]
  BY TypeSplits DEF SyncInv
<1>3. /\ dir' \in [Directory -> {"active", "inactive", "gone"}]
      /\ \A e \in Directory : Gone(e) <=> dir'[e] = "gone"
  BY <1>1, <1>2 DEF Gone
<1>. QED
  BY <1>1, <1>3, TypeSplits DEF SyncInv, TypeOK, SlotTypes, Place

-----------------------------------------------------------------------------
\* What a request is about is of its directory.
LEMMA TouchesFit ==
  ASSUME SyncInv, NEW r \in Slot, pc[r] # "idle", NEW y \in Touches(req[r]), y # None
  PROVE  y \in Resource /\ home[y] = req[r].dir /\ req[r].dir \in Directory /\ home[y] # None
<1>1. /\ AskFits(r) /\ PlaceFits(r) /\ SlotTypes /\ req[r].dir \in Directory /\ req[r].in \in Store
      /\ req[r].who \subseteq User /\ req[r].op \in {"create", "drop"} \cup IdOps
  BY Known, Requested
<1>2. req[r].dir # None
  BY <1>1, SyncAssumption
<1>3. CASE y \in req[r].who
  BY <1>1, <1>2, <1>3 DEF AskFits, Resource
<1>4. CASE y = req[r].x
  <2>1. req[r].op \in IdOps \/ On(r, {"create"}, {"event"})
    BY <1>1, <1>4 DEF AskFits, On
  <2>2. req[r].x \in InStore(req[r].in) /\ home[req[r].x] = req[r].dir
    BY <1>1, <2>1 DEF AskFits
  <2>. QED
    BY <1>1, <1>2, <1>4, <2>2, Stored
<1>. QED
  BY <1>3, <1>4 DEF Touches

\* Nobody else is about it.
LEMMA ApartFrom ==
  ASSUME SyncInv, NEW r \in Slot, NEW s \in Slot, r # s, pc[r] # "idle", pc[s] # "idle",
         NEW y, y # None, y \in Touches(req[s])
  PROVE  y \notin Touches(req[r])
BY DEF SyncInv, Alone

\* What a step leaves as it was of what request r relies on.
Spares(r) ==
  /\ pc'[r] = pc[r] /\ req'[r] = req[r] /\ page'[r] = page[r] /\ todo'[r] = todo[r]
  /\ KeepsTenant
  /\ \A x \in Resource : home[x] # None => home'[x] = home[x]
  /\ \A d \in Directory : Gone(d) => dir'[d] = "gone"
  /\ \A x \in Touches(req[r]) \ {None} : ~Gone(req[r].dir) => rec'[Sole][x] = rec[Sole][x]
  /\ \A g \in Group, u \in User : g \in Touches(req[r]) /\ ~Gone(req[r].dir) =>
       (<<Sole, g, u>> \in member' <=> <<Sole, g, u>> \in member)

\* ... so that what the invariant says of r stays true.
LEMMA SparedKeeps ==
  ASSUME SyncInv, NEW r \in Slot, pc[r] # "idle", Spares(r)
  PROVE  RequestInv(r)'
<1>1. /\ AskFits(r) /\ PlaceFits(r) /\ HandFits(r) /\ TenantFits(r) /\ StillHolds(r)
      /\ SlotTypes /\ req[r].dir \in Directory /\ req[r].dir # None /\ req[r].in \in Store
      /\ req[r].who \subseteq User /\ req[r].op \in {"create", "drop"} \cup IdOps
      /\ todo[r] \subseteq Group /\ page[r] \subseteq Resource
  BY Known, Requested, Sets
<1>2. pc'[r] = pc[r] /\ req'[r] = req[r] /\ page'[r] = page[r] /\ todo'[r] = todo[r]
  BY DEF Spares
<1>3. \A x \in Resource : home[x] = req[r].dir => home'[x] = req[r].dir
  BY <1>1 DEF Spares
<1>4. AskFits(r)'
  <2>1. req[r].op \in IdOps \/ On(r, {"create"}, {"event"}) =>
           req[r].x \in InStore(req[r].in) /\ home'[req[r].x] = req[r].dir
    BY <1>1, <1>3, Stored DEF AskFits
  <2>2. \A u \in req[r].who : req[r].op \in {"add", "remove"} /\ home'[u] = req[r].dir
    BY <1>1, <1>3, Sets DEF AskFits
  <2>. QED
    BY <1>1, <1>2, <2>1, <2>2 DEF AskFits, On
<1>5. PlaceFits(r)'
  BY <1>1, <1>2 DEF PlaceFits
<1>6. HandFits(r)'
  <2>1. \A g \in todo[r] : g \in Resource
    BY <1>1 DEF Resource
  <2>. QED
    BY <1>1, <1>2, <1>3, <2>1 DEF HandFits, On
<1>7. TenantFits(r)'
  BY <1>1, <1>2 DEF TenantFits, Spares, KeepsTenant, Store
<1>8. StillHolds(r)'
  <2>1. CASE req[r].op = "drop"
    BY <1>1, <1>2, <2>1 DEF StillHolds, Spares, Gone
  <2>2. CASE Gone(req[r].dir)' /\ req[r].op # "drop"
    BY <1>2, <2>2 DEF StillHolds
  <2>3. CASE ~Gone(req[r].dir)' /\ req[r].op # "drop"
    <3>1. ~Gone(req[r].dir)
      BY <1>1, <1>2, <2>3 DEF Spares, Gone
    <3>2. ASSUME req[r].x # None PROVE rec'[Sole][req[r].x] = rec[Sole][req[r].x]
      BY <3>1, <3>2 DEF Spares, Touches
    <3>3. \A u \in req[r].who : rec'[Sole][u] = rec[Sole][u]
      <4>1. \A u \in req[r].who : u # None /\ u \in Touches(req[r])
        BY <1>1, SyncAssumption DEF Touches, Resource
      <4>. QED
        BY <3>1, <4>1 DEF Spares
    <3>4. req[r].op \in {"add", "remove"} => req[r].x \in Group
      BY <1>1, Stored DEF AskFits, IdOps
    <3>5. ASSUME req[r].op \in {"add", "remove"}, NEW u \in User
          PROVE  <<Sole, req[r].x, u>> \in member' <=> <<Sole, req[r].x, u>> \in member
      BY <3>1, <3>4, <3>5 DEF Spares, Touches
    <3>6. req[r].x # None \/ (req[r].op = "create" /\ pc[r] # "event")
      <4>1. CASE req[r].op \in IdOps \/ On(r, {"create"}, {"event"})
        <5>1. req[r].x \in InStore(req[r].in)
          BY <1>1, <4>1 DEF AskFits
        <5>2. req[r].in \in Store
          BY <1>1
        <5>3. req[r].x # None
          BY <5>1, <5>2, Stored
        <5>. QED
          BY <5>3
      <4>2. CASE ~(req[r].op \in IdOps \/ On(r, {"create"}, {"event"}))
        BY <1>1, <2>3, <4>2 DEF On
      <4>. QED
        BY <4>1, <4>2
    <3>7. On(r, {"add", "remove"}, {"link", "whom", "event"}) =>
            \A u \in page[r] : u \in req[r].who /\ u \in User
      BY <1>1 DEF HandFits
    <3>8. CASE req[r].op \in {"create", "update", "delete"}
      BY <1>1, <1>2, <2>3, <3>1, <3>2, <3>6, <3>8 DEF StillHolds, On, Rec
    <3>9. CASE req[r].op \in {"add", "remove"}
      <4>1. StillHolds(r) /\ req[r].x # None
        BY <1>1, <3>6, <3>9
      <4>2. pc[r] \in {"member", "link", "whom", "event"} => rec'[Sole][req[r].x] # None
        BY <3>1, <3>2, <3>9, <4>1 DEF StillHolds, On, Rec
      <4>3. pc[r] = "event" => \A u \in page[r] : rec'[Sole][u] # None
        BY <3>1, <3>3, <3>7, <3>9, <4>1 DEF StillHolds, On, Rec
      <4>4. req[r].op = "add" /\ pc[r] \in {"whom", "event"} =>
              \A u \in page[r] : <<Sole, req[r].x, u>> \in member'
        BY <3>1, <3>5, <3>7, <3>9, <4>1 DEF StillHolds, On
      <4>5. req[r].op = "remove" /\ pc[r] \in {"whom", "event"} =>
              \A u \in page[r] : <<Sole, req[r].x, u>> \notin member'
        BY <3>1, <3>5, <3>7, <3>9, <4>1 DEF StillHolds, On
      <4>. QED
        BY <1>2, <3>9, <4>2, <4>3, <4>4, <4>5 DEF StillHolds, On, Rec
    <3>. QED
      BY <1>1, <2>3, <3>8, <3>9 DEF IdOps
  <2>. QED
    BY <2>1, <2>2, <2>3
<1>. QED
  BY <1>4, <1>5, <1>6, <1>7, <1>8 DEF RequestInv

\* A step of s spares all other requests.
LEMMA SparesAll ==
  ASSUME SyncInv, NEW s \in Slot, Others(s), KeepsTenant,
         \A x \in Resource : home[x] # None => home'[x] = home[x],
         \A d \in Directory : Gone(d) => dir'[d] = "gone",
         \A x \in Resource :
           \/ rec'[Sole][x] = rec[Sole][x]
           \/ home[x] = None \/ Gone(home[x]) \/ (pc[s] # "idle" /\ x \in Touches(req[s])),
         \A g \in Group, u \in User :
           \/ <<Sole, g, u>> \in member' <=> <<Sole, g, u>> \in member
           \/ Gone(home[g]) \/ (pc[s] # "idle" /\ g \in Touches(req[s]))
  PROVE  \A r \in Slot \ {s} : RequestInv(r)'
<1>1. ASSUME NEW r \in Slot \ {s}, pc[r] # "idle" PROVE Spares(r)
  <2>1. pc'[r] = pc[r] /\ req'[r] = req[r] /\ page'[r] = page[r] /\ todo'[r] = todo[r]
    BY DEF Others
  <2>2. ASSUME NEW x \in Touches(req[r]) \ {None}, ~Gone(req[r].dir)
        PROVE  rec'[Sole][x] = rec[Sole][x]
    BY <1>1, <2>2, TouchesFit, ApartFrom
  <2>3. ASSUME NEW g \in Group, NEW u \in User, g \in Touches(req[r]), ~Gone(req[r].dir)
        PROVE  <<Sole, g, u>> \in member' <=> <<Sole, g, u>> \in member
    <3>1. g # None
      BY SyncAssumption DEF Resource
    <3>2. home[g] = req[r].dir
      BY <1>1, <2>3, <3>1, TouchesFit
    <3>. QED
      BY <1>1, <2>3, <3>1, <3>2, ApartFrom
  <2>. QED
    BY <2>1, <2>2, <2>3 DEF Spares
<1>2. ASSUME NEW r \in Slot \ {s}, pc[r] = "idle" PROVE RequestInv(r)'
  BY <1>2 DEF Others, RequestInv
<1>. QED
  BY <1>1, <1>2, SparedKeeps

\* A step that leaves store and webhook alone spares everybody.
LEMMA RestsSpares ==
  ASSUME SyncInv, NEW s \in Slot, Others(s), KeepsTenant, Rests
  PROVE  \A r \in Slot \ {s} : RequestInv(r)'
BY SparesAll DEF Rests, Gone

-----------------------------------------------------------------------------
\* The parts of the invariant other than the requests' own, each kept by a
\* step of s that has little to do with it.
LEMMA AloneKeeps ==
  ASSUME SyncInv, NEW s \in Slot, Others(s),
         pc'[s] # "idle" => \A y \in Touches(req'[s]) \ {None} :
           y \notin Busy \/ (pc[s] # "idle" /\ y \in Touches(req[s]))
  PROVE  Alone'
<1>1. ASSUME NEW r \in Slot \ {s}, pc'[r] # "idle", pc'[s] # "idle",
             NEW y \in Touches(req'[s]), y # None
      PROVE  y \notin Touches(req'[r])
  <2>1. pc[r] # "idle" /\ req'[r] = req[r]
    BY <1>1 DEF Others
  <2>2. CASE y \notin Busy
    BY <1>1, <2>1, <2>2 DEF Busy
  <2>3. CASE pc[s] # "idle" /\ y \in Touches(req[s])
    BY <1>1, <2>1, <2>3, ApartFrom
  <2>. QED
    BY <1>1, <2>2, <2>3
<1>2. ASSUME NEW r \in Slot \ {s}, NEW q \in Slot \ {s}, r # q, pc'[r] # "idle", pc'[q] # "idle"
      PROVE  Touches(req'[r]) \cap Touches(req'[q]) \subseteq {None}
  <2>1. req'[r] = req[r] /\ req'[q] = req[q] /\ pc[r] # "idle" /\ pc[q] # "idle"
    BY <1>2 DEF Others
  <2>. QED
    BY <1>2, <2>1 DEF SyncInv, Alone
<1>3. ASSUME NEW r \in Slot, NEW q \in Slot, r # q, pc'[r] # "idle", pc'[q] # "idle"
      PROVE  Touches(req'[r]) \cap Touches(req'[q]) \subseteq {None}
  BY <1>1, <1>2, <1>3
<1>. QED
  BY <1>3 DEF Alone, Touches

\* Directories stay as they were, or are deleted.
GoneStays == \A d \in Directory : Gone(d) => dir'[d] = "gone"
HomeStays == \A x \in Resource : home[x] # None => home'[x] = home[x]
FindsLess == \A d \in Directory : dir'[d] # "gone" \/ d \in quiet' => Findable(d)

\* Records are put with an index of their directory, or where one was.
LEMMA RecordKeeps ==
  ASSUME SyncInv, OnlyTenant, HomeStays, FindsLess,
         \A t \in Tenant, x \in Resource :
           \/ rec'[t][x] = rec[t][x] \/ rec'[t][x] = None
           \/ /\ t = Sole /\ home'[x] \in Directory
              /\ rec'[t][x].index # None => rec'[t][x].index[1] = home'[x]
              /\ dir'[home'[x]] # "gone" \/ home'[x] \in quiet' => rec'[t][x].index # None
  PROVE  RecordInv'
<1>1. ASSUME NEW t \in Tenant, NEW x \in Resource, rec'[t][x] # None
      PROVE  /\ t = Sole /\ home'[x] \in Directory
             /\ rec'[t][x].index # None => rec'[t][x].index[1] = home'[x]
             /\ dir'[home'[x]] # "gone" \/ home'[x] \in quiet' => rec'[t][x].index # None
  <2>1. CASE rec'[t][x] = rec[t][x]
    <3>1. /\ t = Sole /\ home[x] \in Directory
          /\ rec[t][x].index # None => rec[t][x].index[1] = home[x]
          /\ Findable(home[x]) => rec[t][x].index # None
      BY <1>1, <2>1 DEF SyncInv, RecordInv
    <3>2. home[x] # None /\ home'[x] = home[x]
      BY <3>1, SyncAssumption DEF HomeStays
    <3>. QED
      BY <2>1, <3>1, <3>2 DEF FindsLess
  <2>. QED
    BY <1>1, <2>1
<1>2. Sole' = Sole
  BY DEF Sole
<1>. QED
  BY <1>1, <1>2 DEF RecordInv, Findable, Gone

\* Memberships are of groups that are stored, or about to be purged.
LEMMA MemberKeeps ==
  ASSUME SyncInv, OnlyTenant, HomeStays, FindsLess,
         \A t \in Tenant, g \in Group, u \in User : <<t, g, u>> \in member' =>
           \/ /\ <<t, g, u>> \in member
              /\ \/ rec[Sole][g] = None \/ rec'[Sole][g] # None
                 \/ Purging(g)' \/ ~Findable(home[g])
              /\ Purging(g) => Purging(g)'
           \/ /\ t = Sole /\ home'[g] \in Directory /\ home'[u] \in Directory
              /\ dir'[home'[g]] # "gone" \/ home'[g] \in quiet' => rec'[Sole][g] # None
  PROVE  MemberInv'
<1>1. ASSUME NEW t \in Tenant, NEW g \in Group, NEW u \in User, <<t, g, u>> \in member'
      PROVE  /\ t = Sole /\ home'[g] \in Directory /\ home'[u] \in Directory
             /\ dir'[home'[g]] # "gone" \/ home'[g] \in quiet' =>
                  rec'[Sole][g] # None \/ Purging(g)'
  <2>1. CASE /\ <<t, g, u>> \in member
             /\ \/ rec[Sole][g] = None \/ rec'[Sole][g] # None
                \/ Purging(g)' \/ ~Findable(home[g])
             /\ Purging(g) => Purging(g)'
    <3>1. /\ t = Sole /\ home[g] \in Directory /\ home[u] \in Directory
          /\ Findable(home[g]) => rec[Sole][g] # None \/ Purging(g)
      BY <2>1 DEF SyncInv, MemberInv, Rec
    <3>2. home'[g] = home[g] /\ home'[u] = home[u]
      BY <3>1, SyncAssumption DEF HomeStays, Resource
    <3>. QED
      BY <2>1, <3>1, <3>2 DEF FindsLess
  <2>. QED
    BY <1>1, <2>1
<1>2. Sole' = Sole
  BY DEF Sole
<1>. QED
  BY <1>1, <1>2 DEF MemberInv, Findable, Gone, Rec

\* What the requests of a directory that was deleted in quiet have done so far.
QuietFits(d) ==
  /\ Gone(d)
  /\ \A s \in Slot : For(s, d) => req[s].op = "drop" /\ pc[s] # "config"
  /\ \A r, s \in Slot : For(r, d) /\ For(s, d) => r = s
  /\ (\A s \in Slot : For(s, d) => pc[s] \in {"users", "userPage"}) =>
       Deleted(d, Group) /\ Unlinked(d)
  /\ (\A s \in Slot : ~For(s, d)) => Deleted(d, User)

\* Only the deletion works on a directory deleted in quiet.
LEMMA QuietKeeps ==
  ASSUME SyncInv, NEW s \in Slot, Others(s), NEW d \in quiet,
         dir'[d] = "gone",
         For(s, d)' => For(s, d) /\ req'[s].op = "drop" /\ pc'[s] # "config",
         \A x \in Resource : home'[x] = d /\ rec'[Sole][x] # None =>
           home[x] = d /\ rec[Sole][x] # None,
         \A t \in Tenant, g \in Group, u \in User : <<t, g, u>> \in member' /\ home'[g] = d =>
           <<t, g, u>> \in member /\ home[g] = d,
         For(s, d) /\ (For(s, d)' => pc'[s] \in {"users", "userPage"}) =>
           pc[s] \in {"users", "userPage"} \/ (Deleted(d, Group) /\ Unlinked(d)),
         For(s, d) /\ ~For(s, d)' => Deleted(d, User)
  PROVE  QuietFits(d)'
<1>1. QuietFits(d)
  BY DEF SyncInv, QuietInv, QuietFits
<1>2. \A r \in Slot \ {s} : (For(r, d)' <=> For(r, d)) /\ pc'[r] = pc[r] /\ req'[r] = req[r]
  BY DEF Others, For
<1>3. \A r \in Slot : For(r, d)' => For(r, d) /\ req'[r].op = "drop" /\ pc'[r] # "config"
  BY <1>1, <1>2 DEF QuietFits
<1>4. \A r, q \in Slot : For(r, d)' /\ For(q, d)' => r = q
  BY <1>1, <1>3 DEF QuietFits
<1>5. Sole' = Sole
  BY DEF Sole
<1>6. ASSUME \A r \in Slot : For(r, d)' => pc'[r] \in {"users", "userPage"}
      PROVE  Deleted(d, Group)' /\ Unlinked(d)'
  <2>1. \A r \in Slot \ {s} : For(r, d) => pc[r] \in {"users", "userPage"}
    BY <1>2, <1>6
  <2>2. Deleted(d, Group) /\ Unlinked(d)
    <3>1. CASE For(s, d) /\ pc[s] \notin {"users", "userPage"}
      BY <1>6, <3>1
    <3>2. CASE For(s, d) => pc[s] \in {"users", "userPage"}
      BY <1>1, <2>1, <3>2 DEF QuietFits
    <3>. QED
      BY <3>1, <3>2
  <2>3. Deleted(d, Group)'
    BY <1>5, <2>2 DEF Deleted, Rec, Resource
  <2>4. Unlinked(d)'
    BY <2>2 DEF Unlinked
  <2>. QED
    BY <2>3, <2>4
<1>7. ASSUME \A r \in Slot : ~For(r, d)'
      PROVE  Deleted(d, User)'
  <2>1. \A r \in Slot \ {s} : ~For(r, d)
    BY <1>2, <1>7
  <2>2. Deleted(d, User)
    <3>1. CASE For(s, d)
      BY <1>7, <3>1
    <3>2. CASE ~For(s, d)
      BY <1>1, <2>1, <3>2 DEF QuietFits
    <3>. QED
      BY <3>1, <3>2
  <2>. QED
    BY <1>5, <2>2 DEF Deleted, Rec, Resource
<1>. QED
  BY <1>3, <1>4, <1>6, <1>7 DEF QuietFits, Gone

\* A step keeps what the webhook knows true of x, where the record of x and
\* what the webhook knows of it stay as they were.
ToldStays(s, x) ==
  /\ Living(x) /\ told'[x] = told[x] /\ rec'[Sole][x] = rec[Sole][x]
  /\ Tells(s, x) => Tells(s, x)'

\* ... or one that has yet to tell of it, or one that just did.
LEMMA ToldKeeps ==
  ASSUME SyncInv, NEW s \in Slot, Others(s),
         \A x \in Resource : Living(x)' =>
           ToldStays(s, x) \/ Untold(x)' \/ told'[x] = LabelOf(x)'
  PROVE  ToldInv'
<1>1. ASSUME NEW x \in Resource, ToldStays(s, x)
      PROVE  told'[x] = LabelOf(x)' \/ Untold(x)'
  <2>1. told[x] = LabelOf(x) \/ Untold(x)
    BY <1>1 DEF SyncInv, ToldInv, ToldStays
  <2>2. CASE Untold(x)
    <3>1. PICK r \in Slot : Tells(r, x)
      BY <2>2 DEF Untold
    <3>2. Tells(r, x)'
      BY <1>1, <3>1 DEF ToldStays, Others, Tells, Deletes, On
    <3>. QED
      BY <3>2 DEF Untold
  <2>3. CASE told[x] = LabelOf(x)
    <3>1. Sole' = Sole
      BY DEF Sole
    <3>. QED
      BY <1>1, <2>3, <3>1 DEF ToldStays, LabelOf, Rec
  <2>. QED
    BY <2>1, <2>2, <2>3
<1>. QED
  BY <1>1 DEF ToldInv

\* The same for a membership.
LinkStays(s, g, u) ==
  /\ Living(g) /\ Living(u)
  /\ <<g, u>> \in links' <=> <<g, u>> \in links
  /\ rec'[Sole][g] # None <=> rec[Sole][g] # None
  /\ rec'[Sole][u] # None <=> rec[Sole][u] # None
  /\ <<Sole, g, u>> \in member' <=> <<Sole, g, u>> \in member
  /\ Deletes(s, g) => Deletes(s, g)'
  /\ Deletes(s, u) => Deletes(s, u)'
  /\ Links(s, g, u) => Links(s, g, u)'

LEMMA DeletingStays ==
  ASSUME NEW s \in Slot, Others(s), NEW x, Deleting(x), Deletes(s, x) => Deletes(s, x)'
  PROVE  Deleting(x)'
<1>1. PICK r \in Slot : Deletes(r, x)
  BY DEF Deleting
<1>2. Deletes(r, x)'
  BY <1>1 DEF Others, Deletes, On
<1>. QED
  BY <1>2 DEF Deleting

\* Where a step does not leave a membership alone, it must fit afterwards.
LEMMA LinksKeep ==
  ASSUME SyncInv, NEW s \in Slot, Others(s),
         \A g \in Group, u \in User : Living(g)' /\ Living(u)' =>
           LinkStays(s, g, u) \/ LinkFits(g, u)'
  PROVE  LinksInv'
<1>1. ASSUME NEW g \in Group, NEW u \in User, LinkStays(s, g, u)
      PROVE  LinkFits(g, u)'
  <2>1. LinkFits(g, u)
    BY <1>1 DEF SyncInv, LinksInv, LinkStays
  <2>2. (Deleting(g) => Deleting(g)') /\ (Deleting(u) => Deleting(u)')
    BY <1>1, DeletingStays DEF LinkStays
  <2>3. Linking(g, u) => Linking(g, u)'
    <3>1. ASSUME NEW r \in Slot, Links(r, g, u) PROVE Links(r, g, u)'
      BY <1>1, <3>1 DEF LinkStays, Others, Links, On
    <3>. QED
      BY <3>1 DEF Linking
  <2>4. Sole' = Sole
    BY DEF Sole
  <2>. QED
    BY <1>1, <2>1, <2>2, <2>3, <2>4 DEF LinkFits, LinkStays, In, Rec
<1>. QED
  BY <1>1 DEF LinksInv

-----------------------------------------------------------------------------
\* What a request that goes on is about: nothing new.
Narrows(s) == pc'[s] # "idle" => pc[s] # "idle" /\ Touches(req'[s]) \subseteq Touches(req[s])

\* ... so nobody meets it.
LEMMA NarrowsAlone ==
  ASSUME SyncInv, NEW s \in Slot, Others(s), Narrows(s)
  PROVE  Alone'
BY AloneKeeps DEF Narrows

\* What a request on a directory deleted in quiet may do.
QuietMove(s, d) ==
  /\ For(s, d)' => For(s, d) /\ req'[s].op = "drop" /\ pc'[s] # "config"
  /\ For(s, d) /\ (For(s, d)' => pc'[s] \in {"users", "userPage"}) =>
       pc[s] \in {"users", "userPage"} \/ (Deleted(d, Group) /\ Unlinked(d))
  /\ For(s, d) /\ ~For(s, d)' => Deleted(d, User)

\* Other requests come from directories that are not quiet.
LEMMA NotQuiet ==
  ASSUME SyncInv, NEW s \in Slot, NEW d \in quiet, pc[s] # "idle", req[s].op # "drop"
  PROVE  ~For(s, d)
BY DEF SyncInv, QuietInv

\* ... and their steps do nothing to those that are.
LEMMA OtherQuiet ==
  ASSUME SyncInv, NEW s \in Slot, NEW d \in quiet, pc[s] # "idle", req[s].op # "drop",
         pc'[s] = "idle" \/ req'[s].dir = req[s].dir
  PROVE  QuietMove(s, d) /\ ~For(s, d) /\ ~For(s, d)'
<1>1. ~For(s, d)
  BY NotQuiet
<1>2. ~For(s, d)'
  BY <1>1 DEF For
<1>. QED
  BY <1>1, <1>2 DEF QuietMove

\* A step that moves a request and changes nothing else.
LEMMA RestsKeep ==
  ASSUME SyncInv, OnlyTenant, NEW s \in Slot, TypeOK', RequestInv(s)', Others(s), KeepsTenant,
         Rests, Alone',
         \A d \in quiet : QuietMove(s, d),
         \A g \in Group : Purges(s, g) =>
           Purges(s, g)' \/ \A u \in User : <<Sole, g, u>> \notin member,
         \A x \in Resource : Living(x) =>
           (Tells(s, x) => Tells(s, x)') /\ (Deletes(s, x) => Deletes(s, x)'),
         \A g \in Group, u \in User : Living(g) /\ Living(u) =>
           (Links(s, g, u) => Links(s, g, u)') \/ LinkFits(g, u)'
  PROVE  SyncInv'
<1>1. /\ dir' = dir /\ rec' = rec /\ member' = member /\ home' = home
      /\ told' = told /\ links' = links /\ quiet' = quiet
  BY DEF Rests
<1>2. HomeStays /\ FindsLess
  BY <1>1 DEF HomeStays, FindsLess, Findable, Gone
<1>3. \A r \in Slot : RequestInv(r)'
  BY RestsSpares
<1>4. RecordInv'
  BY <1>1, <1>2, RecordKeeps
<1>5. MemberInv'
  <2>1. ASSUME NEW t \in Tenant, NEW g \in Group, NEW u \in User, <<t, g, u>> \in member,
               Purging(g)
        PROVE  Purging(g)'
    <3>1. t = Sole
      BY <2>1 DEF SyncInv, MemberInv
    <3>2. PICK r \in Slot : Purges(r, g)
      BY <2>1 DEF Purging
    <3>3. Purges(r, g)'
      BY <2>1, <3>1, <3>2 DEF Others, Purges
    <3>. QED
      BY <3>3 DEF Purging
  <2>. QED
    BY <1>1, <1>2, <2>1, MemberKeeps
<1>6. QuietInv'
  <2>1. ASSUME NEW d \in quiet PROVE QuietFits(d)'
    <3>1. dir'[d] = "gone"
      BY <1>1 DEF SyncInv, QuietInv, Gone
    <3>. QED
      BY <1>1, <3>1, QuietKeeps DEF QuietMove
  <2>. QED
    BY <1>1, <2>1 DEF QuietInv, QuietFits
<1>7. \A x \in Resource : Living(x)' <=> Living(x)
  BY <1>1 DEF Living
<1>8. ToldInv'
  <2>1. \A x \in Resource : Living(x)' => ToldStays(s, x)
    BY <1>1, <1>7 DEF ToldStays
  <2>. QED
    BY <2>1, ToldKeeps
<1>9. LinksInv'
  <2>1. ASSUME NEW g \in Group, NEW u \in User, Living(g)', Living(u)'
        PROVE  LinkStays(s, g, u) \/ LinkFits(g, u)'
    BY <1>1, <1>7, <2>1 DEF LinkStays, Resource
  <2>. QED
    BY <2>1, LinksKeep
<1>. QED
  BY <1>3, <1>4, <1>5, <1>6, <1>8, <1>9 DEF SyncInv

\* ... from a place where it has nothing to tell and nothing to purge.
LEMMA PlainKeeps ==
  ASSUME SyncInv, OnlyTenant, NEW s \in Slot, TypeOK', RequestInv(s)', Others(s), KeepsTenant,
         Rests, Alone',
         \A d \in quiet : QuietMove(s, d),
         pc[s] \notin {"purge", "unlink", "event", "whom"}
  PROVE  SyncInv'
<1>1. \A g \in Group : ~Purges(s, g)
  BY DEF Purges
<1>2. \A x \in Resource : ~Tells(s, x) /\ ~Deletes(s, x)
  <2>1. pc[s] # "event" /\ pc[s] # "purge" /\ pc[s] # "unlink"
    OBVIOUS
  <2>. QED
    BY <2>1 DEF Tells, Deletes, On
<1>3. \A g \in Group, u \in User : ~Links(s, g, u)
  BY DEF Links, On
<1>. QED
  BY <1>1, <1>2, <1>3, RestsKeep

LEMMA SameNarrows ==
  ASSUME NEW s \in Slot, pc[s] # "idle", pc'[s] = "idle" \/ req'[s] = req[s]
  PROVE  Narrows(s)
BY DEF Narrows, Touches

\* Each action keeps the invariant.
LEMMA LookupKeeps ==
  ASSUME SyncInv, OnlyTenant, NEW s \in Slot, Lookup(s)
  PROVE  SyncInv'
<1>1. /\ TypeOK' /\ RequestInv(s)' /\ Others(s) /\ KeepsTenant /\ Rests
      /\ pc[s] = "lookup" /\ (pc'[s] = "idle" \/ req'[s] = req[s]) /\ req[s].op \in IdOps
  BY LookupStep DEF Same, Lookup
<1>2. Alone'
  BY <1>1, SameNarrows, NarrowsAlone
<1>3. \A d \in quiet : QuietMove(s, d)
  BY <1>1, OtherQuiet DEF IdOps
<1>. QED
  BY <1>1, <1>2, <1>3, PlainKeeps

LEMMA SearchKeeps ==
  ASSUME SyncInv, OnlyTenant, NEW s \in Slot, Search(s)
  PROVE  SyncInv'
<1>1. /\ TypeOK' /\ RequestInv(s)' /\ Others(s) /\ KeepsTenant /\ Rests
      /\ pc[s] = "lookup" /\ (pc'[s] = "idle" \/ req'[s] = req[s]) /\ req[s].op = "create"
  BY SearchStep DEF Same
<1>2. Alone'
  BY <1>1, SameNarrows, NarrowsAlone
<1>3. \A d \in quiet : QuietMove(s, d)
  BY <1>1, OtherQuiet
<1>. QED
  BY <1>1, <1>2, <1>3, PlainKeeps

LEMMA CheckKeeps ==
  ASSUME SyncInv, OnlyTenant, NEW s \in Slot, Check(s)
  PROVE  SyncInv'
<1>1. /\ TypeOK' /\ RequestInv(s)' /\ Others(s) /\ KeepsTenant /\ Rests
      /\ pc[s] = "check" /\ req'[s] = req[s] /\ req[s].op = "delete"
  BY CheckStep DEF Same
<1>2. Alone'
  BY <1>1, SameNarrows, NarrowsAlone
<1>3. \A d \in quiet : QuietMove(s, d)
  BY <1>1, OtherQuiet
<1>. QED
  BY <1>1, <1>2, <1>3, PlainKeeps

LEMMA TakeMemberKeeps ==
  ASSUME SyncInv, OnlyTenant, NEW s \in Slot, TakeMember(s)
  PROVE  SyncInv'
<1>1. /\ TypeOK' /\ RequestInv(s)' /\ Others(s) /\ KeepsTenant /\ Rests
      /\ pc[s] = "member" /\ req'[s] = req[s] /\ req[s].op \in {"add", "remove"}
  BY TakeMemberStep
<1>2. Alone'
  BY <1>1, SameNarrows, NarrowsAlone
<1>3. \A d \in quiet : QuietMove(s, d)
  BY <1>1, OtherQuiet
<1>. QED
  BY <1>1, <1>2, <1>3, PlainKeeps

\* A new request is of a directory that is not gone.
LEMMA NewQuiet ==
  ASSUME SyncInv, NEW s \in Slot, NEW d \in quiet, pc[s] = "idle", ~Gone(req'[s].dir)
  PROVE  QuietMove(s, d)
<1>1. ~For(s, d) /\ Gone(d)
  BY DEF For, SyncInv, QuietInv
<1>2. ~For(s, d)'
  BY <1>1 DEF For
<1>. QED
  BY <1>1, <1>2 DEF QuietMove

LEMMA StartKeeps ==
  ASSUME SyncInv, OnlyTenant, NEW s \in Slot, Start(s)
  PROVE  SyncInv'
<1>1. /\ TypeOK' /\ RequestInv(s)' /\ Others(s) /\ KeepsTenant /\ Rests
      /\ pc[s] = "idle" /\ (Touches(req'[s]) \ {None}) \cap Busy = {} /\ ~Gone(req'[s].dir)
  BY StartStep
<1>2. Alone'
  BY <1>1, AloneKeeps
<1>3. \A d \in quiet : QuietMove(s, d)
  BY <1>1, NewQuiet
<1>. QED
  BY <1>1, <1>2, <1>3, PlainKeeps

LEMMA StartDropKeeps ==
  ASSUME SyncInv, OnlyTenant, NEW s \in Slot, StartDrop(s)
  PROVE  SyncInv'
<1>1. /\ TypeOK' /\ RequestInv(s)' /\ Others(s) /\ KeepsTenant /\ Rests
      /\ pc[s] = "idle" /\ Touches(req'[s]) = {None} /\ ~Gone(req'[s].dir)
  BY StartDropStep
<1>2. Alone'
  BY <1>1, AloneKeeps
<1>3. \A d \in quiet : QuietMove(s, d)
  BY <1>1, NewQuiet
<1>. QED
  BY <1>1, <1>2, <1>3, PlainKeeps

\* The resources of a directory that is gone are not living.
LEMMA GoneNotLiving ==
  ASSUME NEW x, home[x] # None, Gone(home[x])
  PROVE  ~Living(x)
BY DEF Living, Gone

\* Without a user there is nothing to tell: the webhook knows no membership of
\* one that is not stored, unless its deletion is still to be told.
LEMMA WhomKeeps ==
  ASSUME SyncInv, OnlyTenant, NEW s \in Slot, Whom(s)
  PROVE  SyncInv'
<1>1. /\ TypeOK' /\ RequestInv(s)' /\ Others(s) /\ KeepsTenant /\ Rests
      /\ pc[s] = "whom" /\ req[s].op \in {"add", "remove"}
      /\ \/ pc'[s] = "event" /\ Same(s)
         \/ /\ \E u \in page[s] : Rec(u) = None
            /\ \/ pc'[s] = "idle"
               \/ /\ pc'[s] = "member" /\ page'[s] = {} /\ todo'[s] = todo[s]
                  /\ req'[s].op = req[s].op /\ req'[s].x = req[s].x
                  /\ req'[s].dir = req[s].dir /\ req'[s].who \subseteq req[s].who
  BY WhomStep
<1>2. Alone'
  <2>1. Narrows(s)
    BY <1>1 DEF Narrows, Same, Touches
  <2>. QED
    BY <1>1, <2>1, NarrowsAlone
<1>3. \A d \in quiet : QuietMove(s, d)
  BY <1>1, OtherQuiet DEF Same
<1>4. \A g \in Group : ~Purges(s, g)
  BY <1>1 DEF Purges
<1>5. \A x \in Resource : ~Tells(s, x) /\ ~Deletes(s, x)
  BY <1>1 DEF Tells, Deletes, On
<1>6. ASSUME NEW g \in Group, NEW u \in User, Living(g), Living(u),
             Links(s, g, u), ~Links(s, g, u)'
      PROVE  LinkFits(g, u)'
  <2>1. \E v \in page[s] : Rec(v) = None
    BY <1>1, <1>6 DEF Links, On, Same
  <2>2. HandFits(s) /\ u \in page[s] /\ pc[s] # "idle"
    BY <1>1, <1>6, Known DEF Links
  <2>3. u \in req[s].who /\ Rec(u) = None
    BY <1>1, <2>1, <2>2 DEF HandFits, On
  <2>4. ~Deleting(u)
    <3>1. ASSUME NEW r \in Slot, Deletes(r, u) PROVE FALSE
      <4>1. pc[r] # "idle" /\ r # s /\ u \in Touches(req[r]) /\ u \in Touches(req[s])
        BY <1>1, <2>3, <3>1 DEF Deletes, On, Touches
      <4>2. u # None
        BY SyncAssumption DEF Resource
      <4>. QED
        BY <2>2, <4>1, <4>2, ApartFrom
    <3>. QED
      BY <3>1 DEF Deleting
  <2>5. LinkFits(g, u)
    BY <1>6 DEF SyncInv, LinksInv
  <2>6. <<g, u>> \notin links
    BY <2>3, <2>4, <2>5 DEF LinkFits
  <2>7. <<g, u>> \notin links' /\ ~In(g, u)'
    <3>1. Sole' = Sole
      BY DEF Sole
    <3>. QED
      BY <1>1, <2>3, <2>6, <3>1 DEF Rests, In, Rec
  <2>. QED
    BY <2>7 DEF LinkFits
<1>. QED
  BY <1>1, <1>2, <1>3, <1>4, <1>5, <1>6, RestsKeep

LEMMA NoEventKeeps ==
  ASSUME SyncInv, OnlyTenant, NEW s \in Slot, NoEvent(s)
  PROVE  SyncInv'
<1>1. /\ TypeOK' /\ RequestInv(s)' /\ Others(s) /\ KeepsTenant /\ Rests
      /\ pc[s] = "event" /\ Gone(req[s].dir) /\ pc'[s] = "idle"
  BY NoEventStep
<1>2. Alone'
  BY <1>1, SameNarrows, NarrowsAlone
<1>3. /\ PlaceFits(s) /\ AskFits(s) /\ HandFits(s)
      /\ req[s].op \in {"create", "drop"} \cup IdOps /\ req[s].in \in Store
      /\ req[s].dir \in Directory
  BY <1>1, Known, Requested
<1>4. req[s].op # "drop"
  BY <1>1, <1>3 DEF PlaceFits
<1>5. \A d \in quiet : QuietMove(s, d)
  BY <1>1, <1>4, OtherQuiet
<1>6. \A g \in Group : ~Purges(s, g)
  BY <1>1 DEF Purges
<1>7. req[s].x \in Resource /\ home[req[s].x] = req[s].dir /\ req[s].dir # None
  <2>1. req[s].x \in InStore(req[s].in) /\ home[req[s].x] = req[s].dir
    BY <1>1, <1>3, <1>4 DEF AskFits, On
  <2>. QED
    BY <1>3, <2>1, Stored, SyncAssumption
<1>8. ~Living(req[s].x)
  BY <1>1, <1>7, GoneNotLiving
<1>9. \A x \in Resource : Living(x) => ~Tells(s, x) /\ ~Deletes(s, x)
  BY <1>8 DEF Tells, Deletes
<1>10. \A g \in Group, u \in User : Living(g) => ~Links(s, g, u)
  BY <1>8 DEF Links
<1>. QED
  BY <1>1, <1>2, <1>5, <1>6, <1>9, <1>10, RestsKeep

LEMMA PurgeKeeps ==
  ASSUME SyncInv, OnlyTenant, NEW s \in Slot, Purge(s)
  PROVE  SyncInv'
<1>1. /\ TypeOK' /\ RequestInv(s)' /\ Others(s) /\ KeepsTenant /\ Rests
      /\ pc[s] = "purge" /\ req'[s] = req[s] /\ req[s].op \in {"delete", "drop"}
      /\ \/ pc'[s] = "unlink" /\ todo'[s] = todo[s]
         \/ \E g \in todo[s] :
              /\ \A u \in User : <<Sole, g, u>> \notin member
              /\ todo'[s] = todo[s] \ {g}
              /\ \/ pc'[s] = "purge"
                 \/ pc'[s] = "event" /\ req[s].op = "delete"
                 \/ pc'[s] = "groups" /\ req[s].op = "drop" /\ todo'[s] = {}
  BY PurgeStep
<1>2. Alone'
  BY <1>1, SameNarrows, NarrowsAlone
<1>3. \A d \in quiet : QuietMove(s, d)
  <2>1. ASSUME NEW d \in quiet, req[s].op = "drop" PROVE QuietMove(s, d)
    BY <1>1, <2>1 DEF QuietMove, For
  <2>2. ASSUME NEW d \in quiet, req[s].op = "delete" PROVE QuietMove(s, d)
    BY <1>1, <2>2, OtherQuiet
  <2>. QED
    BY <1>1, <2>1, <2>2
<1>4. HandFits(s)
  BY <1>1, Known
<1>5. ASSUME NEW g \in Group, Purges(s, g), ~Purges(s, g)', NEW u \in User
      PROVE  <<Sole, g, u>> \notin member
  <2>1. g \in todo[s] /\ pc'[s] # "unlink"
    BY <1>1, <1>5 DEF Purges
  <2>2. PICK h \in todo[s] :
           /\ \A v \in User : <<Sole, h, v>> \notin member
           /\ todo'[s] = todo[s] \ {h}
           /\ \/ pc'[s] = "purge"
              \/ pc'[s] = "event" /\ req[s].op = "delete"
              \/ pc'[s] = "groups" /\ req[s].op = "drop" /\ todo'[s] = {}
    BY <1>1, <2>1
  <2>3. g = h
    <3>1. CASE pc'[s] = "purge"
      BY <1>5, <2>1, <2>2, <3>1 DEF Purges
    <3>2. CASE pc'[s] = "event" /\ req[s].op = "delete"
      BY <1>1, <1>4, <2>1, <3>2 DEF HandFits, On
    <3>3. CASE pc'[s] = "groups" /\ todo'[s] = {}
      BY <2>1, <2>2, <3>3
    <3>. QED
      BY <2>2, <3>1, <3>2, <3>3
  <2>. QED
    BY <2>2, <2>3
<1>6. \A x \in Resource : (Tells(s, x) => Tells(s, x)') /\ (Deletes(s, x) => Deletes(s, x)')
  BY <1>1 DEF Tells, Deletes, On
<1>7. \A g \in Group, u \in User : ~Links(s, g, u)
  BY <1>1 DEF Links, On
<1>. QED
  BY <1>1, <1>2, <1>3, <1>5, <1>6, <1>7, RestsKeep

\* Only when no group is listed is no membership left: a group of the directory
\* that is gone has its memberships purged before the next page is read.
LEMMA DropGroupsKeeps ==
  ASSUME SyncInv, OnlyTenant, NEW s \in Slot, DropGroups(s)
  PROVE  SyncInv'
<1>1. /\ TypeOK' /\ RequestInv(s)' /\ Others(s) /\ KeepsTenant /\ Rests
      /\ pc[s] = "groups" /\ req'[s] = req[s] /\ req[s].op = "drop" /\ req[s].dir \in Directory
      /\ \/ pc'[s] = "groupPage"
         \/ pc'[s] = "users" /\ (Findable(req[s].dir) => Deleted(req[s].dir, Group))
  BY DropGroupsStep
<1>2. Alone'
  BY <1>1, SameNarrows, NarrowsAlone
<1>3. ASSUME NEW d \in quiet, For(s, d), pc'[s] = "users"
      PROVE  Deleted(d, Group) /\ Unlinked(d)
  <2>1. Deleted(d, Group) /\ Findable(d) /\ d \in Directory
    BY <1>1, <1>3 DEF For, Findable
  <2>2. ASSUME NEW t \in Tenant, NEW g \in Group, NEW u \in User,
               <<t, g, u>> \in member, home[g] = d
        PROVE  FALSE
    <3>1. Purging(g)
      BY <2>1, <2>2 DEF SyncInv, MemberInv, Deleted
    <3>2. PICK r \in Slot : Purges(r, g)
      BY <3>1 DEF Purging
    <3>3. pc[r] \in {"purge", "unlink"} /\ g \in todo[r] /\ HandFits(r) /\ AskFits(r)
      BY <3>2, Known DEF Purges
    <3>4. /\ req[r].op \in {"delete", "drop"}
          /\ req[r].op = "drop" => home[g] = req[r].dir
          /\ req[r].op = "delete" => g = req[r].x
      BY <3>3, PurgesFit
    <3>5. req[r].op = "delete" => home[req[r].x] = req[r].dir
      BY <3>3 DEF AskFits, IdOps
    <3>6. For(r, d)
      BY <2>2, <3>3, <3>4, <3>5 DEF For
    <3>7. r = s
      BY <1>3, <3>6 DEF SyncInv, QuietInv
    <3>. QED
      BY <1>1, <3>3, <3>7
  <2>. QED
    BY <2>1, <2>2 DEF Unlinked
<1>4. \A d \in quiet : QuietMove(s, d)
  BY <1>1, <1>3 DEF QuietMove, For
<1>. QED
  BY <1>1, <1>2, <1>4, PlainKeeps

LEMMA DropUsersKeeps ==
  ASSUME SyncInv, OnlyTenant, NEW s \in Slot, DropUsers(s)
  PROVE  SyncInv'
<1>1. /\ TypeOK' /\ RequestInv(s)' /\ Others(s) /\ KeepsTenant /\ Rests
      /\ pc[s] = "users" /\ req[s].op = "drop" /\ req[s].dir \in Directory
      /\ \/ pc'[s] = "userPage" /\ req'[s] = req[s]
         \/ pc'[s] = "idle" /\ (Findable(req[s].dir) => Deleted(req[s].dir, User))
  BY DropUsersStep
<1>2. Alone'
  BY <1>1, SameNarrows, NarrowsAlone
<1>3. ASSUME NEW d \in quiet PROVE QuietMove(s, d)
  <2>1. For(s, d)' => For(s, d) /\ req'[s].op = "drop" /\ pc'[s] # "config"
    BY <1>1 DEF For
  <2>2. For(s, d) /\ ~For(s, d)' => Deleted(d, User)
    BY <1>1 DEF For, Findable
  <2>. QED
    BY <1>1, <2>1, <2>2 DEF QuietMove
<1>. QED
  BY <1>1, <1>2, <1>3, PlainKeeps

\* Steps that leave directories and ids as they are.
LEMMA DirsStay ==
  ASSUME dir' = dir, home' = home, quiet' = quiet
  PROVE  /\ HomeStays /\ FindsLess /\ GoneStays
         /\ \A x \in Resource : Living(x)' <=> Living(x)
BY DEF HomeStays, FindsLess, GoneStays, Findable, Gone, Living

\* What is living is not gone.
LEMMA LivingHome ==
  ASSUME NEW x, home[x] # None, Living(x)
  PROVE  ~Gone(home[x])
BY DEF Living, Gone

LEMMA UnlinkKeeps ==
  ASSUME SyncInv, OnlyTenant, NEW s \in Slot, Unlink(s)
  PROVE  SyncInv'
<1>1. /\ TypeOK' /\ RequestInv(s)' /\ Others(s) /\ KeepsTenant
      /\ dir' = dir /\ rec' = rec /\ home' = home /\ told' = told /\ links' = links /\ quiet' = quiet
      /\ member' \subseteq member
      /\ \A t \in Tenant, g \in Group, u \in User :
           <<t, g, u>> \in member /\ <<t, g, u>> \notin member' => g \in todo[s]
      /\ pc[s] = "unlink" /\ pc'[s] = "purge" /\ req'[s] = req[s] /\ todo'[s] = todo[s]
  BY UnlinkStep
<1>2. /\ HomeStays /\ FindsLess /\ GoneStays
      /\ \A x \in Resource : Living(x)' <=> Living(x)
  BY <1>1, DirsStay
<1>3. Alone'
  BY <1>1, SameNarrows, NarrowsAlone
<1>4. /\ req[s].op \in {"delete", "drop"} /\ Sole \in Tenant
      /\ req[s].op = "drop" => Gone(req[s].dir) /\ \A g \in todo[s] : home[g] = req[s].dir
      /\ req[s].op = "delete" => todo[s] = {req[s].x} /\ req[s].x \in Group
      /\ req[s].dir # None
  <2>1. req[s].dir \in Directory
    BY <1>1, Known, Requested
  <2>. QED
    BY <1>1, <2>1, PurgesFit, SyncAssumption DEF OnlyTenant
<1>5. ASSUME NEW g \in Group, g \in todo[s]
      PROVE  \/ req[s].op = "delete" /\ req[s].x = g
             \/ Gone(home[g]) /\ home[g] # None
  BY <1>4, <1>5
<1>6. \A r \in Slot : RequestInv(r)'
  <2>1. ASSUME NEW g \in Group, NEW u \in User
        PROVE  \/ <<Sole, g, u>> \in member' <=> <<Sole, g, u>> \in member
               \/ Gone(home[g]) \/ (pc[s] # "idle" /\ g \in Touches(req[s]))
    BY <1>1, <1>4, <1>5 DEF Touches
  <2>. QED
    BY <1>1, <2>1, SparesAll DEF Gone
<1>7. RecordInv'
  BY <1>1, <1>2, RecordKeeps
<1>8. \A g \in Group : Purging(g) => Purging(g)'
  <2>1. ASSUME NEW g \in Group, NEW r \in Slot, Purges(r, g) PROVE Purges(r, g)'
    BY <1>1, <2>1 DEF Others, Purges
  <2>. QED
    BY <2>1 DEF Purging
<1>9. MemberInv'
  BY <1>1, <1>2, <1>8, MemberKeeps
<1>10. QuietInv'
  <2>1. ASSUME NEW d \in quiet PROVE QuietFits(d)'
    <3>1. QuietMove(s, d)
      <4>1. CASE req[s].op = "drop"
        BY <1>1, <4>1 DEF QuietMove, For
      <4>2. CASE req[s].op = "delete"
        BY <1>1, <4>2, OtherQuiet
      <4>. QED
        BY <1>4, <4>1, <4>2
    <3>2. dir'[d] = "gone"
      BY <1>1 DEF SyncInv, QuietInv, Gone
    <3>. QED
      BY <1>1, <3>1, <3>2, QuietKeeps DEF QuietMove
  <2>. QED
    BY <1>1, <2>1 DEF QuietInv, QuietFits
<1>11. \A x \in Resource : (Tells(s, x) => Tells(s, x)') /\ (Deletes(s, x) => Deletes(s, x)')
  BY <1>1 DEF Tells, Deletes, On
<1>12. ToldInv'
  <2>1. \A x \in Resource : Living(x)' => ToldStays(s, x)
    BY <1>1, <1>2, <1>11 DEF ToldStays
  <2>. QED
    BY <1>1, <2>1, ToldKeeps
<1>13. LinksInv'
  <2>1. ASSUME NEW g \in Group, NEW u \in User, Living(g)', Living(u)'
        PROVE  LinkStays(s, g, u) \/ LinkFits(g, u)'
    <3>1. g \in Resource /\ u \in Resource /\ ~Links(s, g, u)
      BY <1>1 DEF Resource, Links, On
    <3>2. LinkFits(g, u)
      BY <1>2, <2>1, <3>1 DEF SyncInv, LinksInv
    <3>3. CASE g \in todo[s]
      <4>1. req[s].op = "delete" /\ req[s].x = g
        BY <1>2, <1>5, <2>1, <3>1, <3>3, LivingHome
      <4>2. Deleting(g)'
        BY <1>1, <4>1 DEF Deleting, Deletes, On
      <4>3. Deleting(u) => Deleting(u)'
        BY <1>1, <1>11, <3>1, DeletingStays
      <4>4. Sole' = Sole
        BY DEF Sole
      <4>. QED
        BY <1>1, <3>2, <4>2, <4>3, <4>4 DEF LinkFits, Rec
    <3>4. CASE g \notin todo[s]
      BY <1>1, <1>2, <1>4, <1>11, <2>1, <3>1, <3>4 DEF LinkStays
    <3>. QED
      BY <3>3, <3>4
  <2>. QED
    BY <1>1, <2>1, LinksKeep
<1>. QED
  BY <1>1, <1>3, <1>6, <1>7, <1>9, <1>10, <1>12, <1>13 DEF SyncInv

\* A membership is put for a group that this request alone is about.
LEMMA LinkKeeps ==
  ASSUME SyncInv, OnlyTenant, NEW s \in Slot, Link(s)
  PROVE  SyncInv'
<1>1. /\ TypeOK' /\ RequestInv(s)' /\ Others(s) /\ KeepsTenant
      /\ dir' = dir /\ rec' = rec /\ home' = home /\ told' = told /\ links' = links /\ quiet' = quiet
      /\ \A t \in Tenant, g \in Group, u \in User :
           ~(<<t, g, u>> \in member <=> <<t, g, u>> \in member') =>
              t = Sole /\ g = req[s].x /\ u \in page[s]
      /\ pc[s] = "link" /\ pc'[s] = "whom" /\ Same(s) /\ req[s].op \in {"add", "remove"}
      /\ page[s] \subseteq req[s].who
      /\ req[s].x \in Group
  BY LinkStep
<1>2. /\ HomeStays /\ FindsLess /\ GoneStays
      /\ \A x \in Resource : Living(x)' <=> Living(x)
  BY <1>1, DirsStay
<1>3. Alone' /\ req'[s] = req[s] /\ page'[s] = page[s]
  BY <1>1, SameNarrows, NarrowsAlone DEF Same
<1>4. /\ AskFits(s) /\ StillHolds(s) /\ req[s].dir \in Directory
      /\ home[req[s].x] = req[s].dir
  BY <1>1, Known, Requested, About DEF IdOps
<1>5. \A u \in page[s] : home[u] = req[s].dir
  BY <1>1, <1>4 DEF AskFits
<1>6. \A r \in Slot : RequestInv(r)'
  <2>1. ASSUME NEW g \in Group, NEW u \in User
        PROVE  \/ <<Sole, g, u>> \in member' <=> <<Sole, g, u>> \in member
               \/ (pc[s] # "idle" /\ g \in Touches(req[s]))
    BY <1>1 DEF Touches, OnlyTenant
  <2>. QED
    BY <1>1, <2>1, SparesAll DEF Gone
<1>7. RecordInv'
  BY <1>1, <1>2, RecordKeeps
<1>8. \A g \in Group : Purging(g) => Purging(g)'
  <2>1. ASSUME NEW g \in Group, NEW r \in Slot, Purges(r, g) PROVE Purges(r, g)'
    BY <1>1, <2>1 DEF Others, Purges
  <2>. QED
    BY <2>1 DEF Purging
<1>9. \A d \in quiet : QuietMove(s, d) /\ ~For(s, d)
  BY <1>1, <1>3, OtherQuiet
<1>10. MemberInv'
  <2>1. ASSUME NEW t \in Tenant, NEW g \in Group, NEW u \in User, <<t, g, u>> \in member',
               <<t, g, u>> \notin member
        PROVE  /\ t = Sole /\ home'[g] \in Directory /\ home'[u] \in Directory
               /\ dir'[home'[g]] # "gone" \/ home'[g] \in quiet' => rec'[Sole][g] # None
    <3>1. t = Sole /\ g = req[s].x /\ u \in page[s]
      BY <1>1, <2>1
    <3>2. home[g] = req[s].dir /\ home[u] = req[s].dir
      BY <1>4, <1>5, <3>1
    <3>3. home[g] \notin quiet
      BY <1>1, <1>9, <3>2 DEF For
    <3>4. ~Gone(home[g]) => rec[Sole][g] # None
      BY <1>1, <1>4, <3>1, <3>2 DEF StillHolds, On, Rec
    <3>. QED
      BY <1>1, <1>4, <3>1, <3>2, <3>3, <3>4 DEF Gone
  <2>. QED
    BY <1>1, <1>2, <1>8, <2>1, MemberKeeps
<1>11. QuietInv'
  <2>1. ASSUME NEW d \in quiet PROVE QuietFits(d)'
    <3>1. dir'[d] = "gone"
      BY <1>1 DEF SyncInv, QuietInv, Gone
    <3>2. ASSUME NEW t \in Tenant, NEW g \in Group, NEW u \in User, <<t, g, u>> \in member',
                 home'[g] = d
          PROVE  <<t, g, u>> \in member /\ home[g] = d
      BY <1>1, <1>4, <1>9, <3>2 DEF For
    <3>. QED
      BY <1>1, <1>9, <3>1, <3>2, QuietKeeps DEF QuietMove
  <2>. QED
    BY <1>1, <2>1 DEF QuietInv, QuietFits
<1>12. \A x \in Resource : ~Tells(s, x) /\ ~Deletes(s, x)
  BY <1>1 DEF Tells, Deletes, On
<1>13. ToldInv'
  <2>1. \A x \in Resource : Living(x)' => ToldStays(s, x)
    BY <1>1, <1>2, <1>12 DEF ToldStays
  <2>. QED
    BY <1>1, <2>1, ToldKeeps
<1>14. LinksInv'
  <2>1. ASSUME NEW g \in Group, NEW u \in User, Living(g)', Living(u)'
        PROVE  LinkStays(s, g, u) \/ LinkFits(g, u)'
    <3>1. g \in Resource /\ u \in Resource /\ ~Links(s, g, u) /\ Sole \in Tenant
      BY <1>1 DEF Resource, Links, On, OnlyTenant
    <3>2. LinkFits(g, u)
      BY <1>2, <2>1, <3>1 DEF SyncInv, LinksInv
    <3>3. CASE g = req[s].x /\ u \in page[s]
      <4>1. Linking(g, u)'
        BY <1>1, <1>3, <3>3 DEF Linking, Links, On
      <4>2. (Deleting(u) => Deleting(u)') /\ (Deleting(g) => Deleting(g)')
        BY <1>1, <1>12, <3>1, DeletingStays
      <4>3. Sole' = Sole
        BY DEF Sole
      <4>. QED
        BY <1>1, <3>2, <4>1, <4>2, <4>3 DEF LinkFits, Rec
    <3>4. CASE ~(g = req[s].x /\ u \in page[s])
      BY <1>1, <1>2, <1>12, <2>1, <3>1, <3>4 DEF LinkStays
    <3>. QED
      BY <3>3, <3>4
  <2>. QED
    BY <1>1, <2>1, LinksKeep
<1>. QED
  BY <1>1, <1>3, <1>6, <1>7, <1>10, <1>11, <1>13, <1>14 DEF SyncInv

\* What an event tells is still so when it is told.
LEMMA EventKeeps ==
  ASSUME SyncInv, OnlyTenant, NEW s \in Slot, Event(s)
  PROVE  SyncInv'
<1>1. /\ TypeOK' /\ RequestInv(s)' /\ Others(s) /\ KeepsTenant
      /\ dir' = dir /\ rec' = rec /\ member' = member /\ home' = home /\ quiet' = quiet
      /\ pc[s] = "event" /\ ~Gone(req[s].dir) /\ req[s].op \in {"create"} \cup IdOps
      /\ req[s].x \in Resource /\ home[req[s].x] = req[s].dir
      /\ req[s].op \in {"add", "remove"} => told' = told
      /\ req[s].op \notin {"add", "remove"} =>
           /\ told'[req[s].x] = req[s].label
           /\ \A x \in Resource : x # req[s].x => told'[x] = told[x]
      /\ \A g \in Group, u \in User :
           /\ req[s].op = "add" =>
                (<<g, u>> \in links' <=> <<g, u>> \in links \/ (g = req[s].x /\ u \in page[s]))
           /\ req[s].op = "remove" =>
                (<<g, u>> \in links' <=> <<g, u>> \in links /\ ~(g = req[s].x /\ u \in page[s]))
           /\ req[s].op = "delete" =>
                (<<g, u>> \in links' <=> <<g, u>> \in links /\ req[s].x # g /\ req[s].x # u)
           /\ req[s].op \in {"create", "update"} => (<<g, u>> \in links' <=> <<g, u>> \in links)
      /\ \/ pc'[s] = "idle"
         \/ /\ pc'[s] = "member" /\ req[s].op \in {"add", "remove"}
            /\ req'[s].op = req[s].op /\ req'[s].x = req[s].x
            /\ req'[s].dir = req[s].dir /\ req'[s].who \subseteq req[s].who
  BY EventStep
<1>2. /\ HomeStays /\ FindsLess /\ GoneStays
      /\ \A x \in Resource : Living(x)' <=> Living(x)
  BY <1>1, DirsStay
<1>3. Alone'
  <2>1. Narrows(s)
    BY <1>1 DEF Narrows, Touches
  <2>. QED
    BY <1>1, <2>1, NarrowsAlone
<1>4. AskFits(s) /\ StillHolds(s) /\ HandFits(s) /\ req[s].op # "drop" /\ Sole' = Sole
  BY <1>1, Known DEF IdOps, Sole
<1>5. \A r \in Slot : RequestInv(r)'
  BY <1>1, SparesAll DEF Gone
<1>6. RecordInv'
  BY <1>1, <1>2, RecordKeeps
<1>7. \A g \in Group : Purging(g) => Purging(g)'
  <2>1. ASSUME NEW g \in Group, NEW r \in Slot, Purges(r, g) PROVE Purges(r, g)'
    BY <1>1, <2>1 DEF Others, Purges
  <2>. QED
    BY <2>1 DEF Purging
<1>8. MemberInv'
  BY <1>1, <1>2, <1>7, MemberKeeps
<1>9. QuietInv'
  <2>1. ASSUME NEW d \in quiet PROVE QuietFits(d)'
    <3>1. QuietMove(s, d)
      BY <1>1, <1>4, OtherQuiet
    <3>2. dir'[d] = "gone"
      BY <1>1 DEF SyncInv, QuietInv, Gone
    <3>. QED
      BY <1>1, <3>1, <3>2, QuietKeeps DEF QuietMove
  <2>. QED
    BY <1>1, <2>1 DEF QuietInv, QuietFits
<1>10. ToldInv'
  <2>1. ASSUME NEW x \in Resource, Living(x)'
        PROVE  ToldStays(s, x) \/ told'[x] = LabelOf(x)'
    <3>1. CASE req[s].op \in {"add", "remove"} \/ x # req[s].x
      <4>1. ~Tells(s, x)
        BY <3>1 DEF Tells, Deletes, On
      <4>2. told'[x] = told[x]
        BY <1>1, <3>1
      <4>. QED
        BY <1>1, <1>2, <2>1, <4>1, <4>2 DEF ToldStays
    <3>2. CASE req[s].op = "delete" /\ x = req[s].x
      <4>1. told'[x] = None
        BY <1>1, <1>4, <3>2 DEF AskFits
      <4>2. Rec(x) = None
        BY <1>1, <1>4, <3>2 DEF StillHolds, On
      <4>. QED
        BY <1>1, <1>4, <4>1, <4>2 DEF LabelOf, Rec
    <3>3. CASE req[s].op \in {"create", "update"} /\ x = req[s].x
      <4>1. told'[x] = req[s].label
        BY <1>1, <3>3
      <4>2. Rec(x) # None /\ Rec(x).label = req[s].label
        BY <1>1, <1>4, <3>3 DEF StillHolds, On
      <4>. QED
        BY <1>1, <1>4, <4>1, <4>2 DEF LabelOf, Rec
    <3>. QED
      BY <1>1, <3>1, <3>2, <3>3 DEF IdOps
  <2>. QED
    BY <1>1, <2>1, ToldKeeps
<1>11. LinksInv'
  <2>1. ASSUME NEW g \in Group, NEW u \in User, Living(g)', Living(u)'
        PROVE  LinkStays(s, g, u) \/ LinkFits(g, u)'
    <3>1. g \in Resource /\ u \in Resource
      BY DEF Resource
    <3>2. LinkFits(g, u)
      BY <1>2, <2>1, <3>1 DEF SyncInv, LinksInv
    <3>3. CASE req[s].op \in {"create", "update"}
      <4>1. ~Deletes(s, g) /\ ~Deletes(s, u) /\ ~Links(s, g, u)
        BY <3>3 DEF Deletes, Links, On
      <4>. QED
        BY <1>1, <1>2, <2>1, <3>1, <3>3, <4>1 DEF LinkStays
    <3>4. CASE req[s].op = "delete" /\ req[s].x \notin {g, u}
      <4>1. ~Deletes(s, g) /\ ~Deletes(s, u) /\ ~Links(s, g, u)
        BY <3>4 DEF Deletes, Links, On
      <4>. QED
        BY <1>1, <1>2, <2>1, <3>1, <3>4, <4>1 DEF LinkStays
    <3>5. CASE req[s].op = "delete" /\ req[s].x \in {g, u}
      <4>1. Rec(req[s].x) = None
        BY <1>1, <1>4, <3>5 DEF StillHolds, On
      <4>2. ~In(g, u)' /\ <<g, u>> \notin links'
        BY <1>1, <1>4, <3>5, <4>1 DEF In, Rec
      <4>. QED
        BY <4>2 DEF LinkFits
    <3>6. CASE req[s].op \in {"add", "remove"} /\ ~(g = req[s].x /\ u \in page[s])
      <4>1. ~Deletes(s, g) /\ ~Deletes(s, u) /\ ~Links(s, g, u)
        BY <3>6 DEF Deletes, Links, On
      <4>2. <<g, u>> \in links' <=> <<g, u>> \in links
        BY <1>1, <3>6
      <4>. QED
        BY <1>1, <1>2, <2>1, <3>1, <4>1, <4>2 DEF LinkStays
    <3>7. CASE req[s].op \in {"add", "remove"} /\ g = req[s].x /\ u \in page[s]
      <4>1. /\ Rec(g) # None /\ Rec(u) # None
            /\ req[s].op = "add" => <<Sole, g, u>> \in member
            /\ req[s].op = "remove" => <<Sole, g, u>> \notin member
        BY <1>1, <1>4, <3>7 DEF StillHolds, On
      <4>2. <<g, u>> \in links' <=> req[s].op = "add"
        BY <1>1, <3>7
      <4>3. In(g, u)' <=> req[s].op = "add"
        BY <1>1, <1>4, <3>7, <4>1 DEF In, Rec
      <4>4. rec'[Sole][g] # None /\ rec'[Sole][u] # None
        BY <1>1, <4>1 DEF Rec
      <4>. QED
        BY <1>4, <4>2, <4>3, <4>4 DEF LinkFits, Rec
    <3>. QED
      BY <1>1, <3>3, <3>4, <3>5, <3>6, <3>7 DEF IdOps
  <2>. QED
    BY <1>1, <2>1, LinksKeep
<1>. QED
  BY <1>1, <1>3, <1>5, <1>6, <1>8, <1>9, <1>10, <1>11 DEF SyncInv

\* No record, membership or request is of an id that was not given yet.
LEMMA NotGiven ==
  ASSUME SyncInv, OnlyTenant, NEW x \in Resource, home[x] = None
  PROVE  /\ \A t \in Tenant : rec[t][x] = None
         /\ \A t \in Tenant, g \in Group, u \in User :
              <<t, g, u>> \in member => g # x /\ u # x
         /\ x \notin Busy /\ ~Deleting(x) /\ ~Untold(x)
<1>1. \A t \in Tenant : rec[t][x] = None
  BY SyncAssumption DEF SyncInv, RecordInv
<1>2. \A t \in Tenant, g \in Group, u \in User : <<t, g, u>> \in member => g # x /\ u # x
  BY SyncAssumption DEF SyncInv, MemberInv
<1>3. x # None
  BY SyncAssumption DEF Resource
<1>4. ASSUME NEW r \in Slot, pc[r] # "idle" PROVE x \notin Touches(req[r])
  BY <1>3, <1>4, TouchesFit
<1>5. x \notin Busy
  BY <1>4 DEF Busy
<1>6. \A r \in Slot : ~Tells(r, x) /\ ~Deletes(r, x)
  BY <1>4 DEF Tells, Deletes, On, Touches
<1>. QED
  BY <1>1, <1>2, <1>5, <1>6 DEF Deleting, Untold

\* A new id is known to nobody.
LEMMA PutNewKeeps ==
  ASSUME SyncInv, OnlyTenant, NEW s \in Slot, PutNew(s)
  PROVE  SyncInv'
<1>1. /\ TypeOK' /\ RequestInv(s)' /\ Others(s) /\ KeepsTenant
      /\ dir' = dir /\ member' = member /\ told' = told /\ links' = links /\ quiet' = quiet
      /\ pc[s] = "put" /\ req[s].op = "create" /\ pc'[s] = "event"
      /\ req'[s].op = "create" /\ req'[s].dir = req[s].dir /\ req'[s].who = {}
      /\ todo'[s] = todo[s]
  BY PutNewStep
<1>2. PICK x \in Resource :
        /\ req'[s].x = x /\ home[x] = None /\ home'[x] = req[s].dir
        /\ \A y \in Resource : y # x => home'[y] = home[y]
        /\ rec'[Sole][x] # None
        /\ rec'[Sole][x].index # None /\ rec'[Sole][x].index[1] = req[s].dir
        /\ OnlyRec(x)
  BY PutNewStep
<1>3. req[s].dir \in Directory /\ req[s].dir # None /\ Sole \in Tenant /\ Sole' = Sole
  <2>1. req[s].dir \in Directory
    BY <1>1, Known, Requested
  <2>. QED
    BY <2>1, SyncAssumption DEF OnlyTenant, Sole
<1>4. /\ \A t \in Tenant : rec[t][x] = None
      /\ \A t \in Tenant, g \in Group, u \in User : <<t, g, u>> \in member => g # x /\ u # x
      /\ x \notin Busy /\ ~Deleting(x) /\ ~Untold(x)
  BY <1>2, NotGiven
<1>5. HomeStays /\ FindsLess /\ GoneStays
  BY <1>1, <1>2 DEF HomeStays, FindsLess, GoneStays, Findable, Gone
<1>6. \A y \in Resource : y # x => home'[y] = home[y] /\ rec'[Sole][y] = rec[Sole][y]
  BY <1>2, <1>3 DEF OnlyRec
<1>7. \A y \in Resource : Living(y)' => Living(y)
  <2>1. ASSUME NEW y \in Resource, Living(y)', y # x PROVE Living(y)
    BY <1>1, <1>6, <2>1 DEF Living
  <2>. QED
    BY <1>2, <2>1 DEF Living
<1>8. Alone'
  BY <1>1, <1>2, <1>4, AloneKeeps DEF Touches
<1>9. \A r \in Slot : RequestInv(r)'
  <2>1. ASSUME NEW y \in Resource
        PROVE  rec'[Sole][y] = rec[Sole][y] \/ home[y] = None
    BY <1>2, <1>6
  <2>. QED
    BY <1>1, <1>5, <2>1, SparesAll DEF Gone, HomeStays
<1>10. \A d \in quiet : QuietMove(s, d) /\ ~For(s, d) /\ d # req[s].dir
  BY <1>1, OtherQuiet DEF For
<1>11. RecordInv'
  <2>1. ASSUME NEW t \in Tenant, NEW y \in Resource
        PROVE  \/ rec'[t][y] = rec[t][y]
               \/ /\ t = Sole /\ home'[y] \in Directory
                  /\ rec'[t][y].index # None => rec'[t][y].index[1] = home'[y]
                  /\ rec'[t][y].index # None
    <3>1. CASE t = Sole /\ y = x
      BY <1>2, <1>3, <3>1
    <3>2. CASE ~(t = Sole /\ y = x)
      BY <1>2, <3>2 DEF OnlyRec
    <3>. QED
      BY <3>1, <3>2
  <2>. QED
    BY <1>5, <2>1, RecordKeeps
<1>12. \A g \in Group : Purging(g) => Purging(g)'
  <2>1. ASSUME NEW g \in Group, NEW r \in Slot, Purges(r, g) PROVE Purges(r, g)'
    BY <1>1, <2>1 DEF Others, Purges
  <2>. QED
    BY <2>1 DEF Purging
<1>13. MemberInv'
  <2>1. ASSUME NEW t \in Tenant, NEW g \in Group, NEW u \in User, <<t, g, u>> \in member
        PROVE  rec'[Sole][g] = rec[Sole][g]
    BY <1>4, <1>6, <2>1 DEF Resource
  <2>. QED
    BY <1>1, <1>5, <1>12, <2>1, MemberKeeps
<1>14. QuietInv'
  <2>1. ASSUME NEW d \in quiet PROVE QuietFits(d)'
    <3>1. dir'[d] = "gone"
      BY <1>1 DEF SyncInv, QuietInv, Gone
    <3>2. ASSUME NEW y \in Resource, home'[y] = d
          PROVE  home[y] = d /\ rec'[Sole][y] = rec[Sole][y]
      BY <1>2, <1>6, <1>10, <3>2
    <3>. QED
      BY <1>1, <1>10, <3>1, <3>2, QuietKeeps DEF QuietMove, Resource
  <2>. QED
    BY <1>1, <2>1 DEF QuietInv, QuietFits
<1>15. \A y \in Resource : ~Tells(s, y) /\ ~Deletes(s, y)
  BY <1>1 DEF Tells, Deletes, On
<1>16. ToldInv'
  <2>1. ASSUME NEW y \in Resource, Living(y)'
        PROVE  ToldStays(s, y) \/ Untold(y)'
    <3>1. CASE y = x
      <4>1. Tells(s, x)'
        BY <1>1, <1>2 DEF Tells, On
      <4>. QED
        BY <3>1, <4>1 DEF Untold
    <3>2. CASE y # x
      BY <1>1, <1>6, <1>7, <1>15, <2>1, <3>2 DEF ToldStays
    <3>. QED
      BY <3>1, <3>2
  <2>. QED
    BY <1>1, <2>1, ToldKeeps
<1>17. LinksInv'
  <2>1. ASSUME NEW g \in Group, NEW u \in User, Living(g)', Living(u)'
        PROVE  LinkStays(s, g, u) \/ LinkFits(g, u)'
    <3>1. g \in Resource /\ u \in Resource /\ Living(g) /\ Living(u)
      BY <1>7, <2>1 DEF Resource
    <3>2. LinkFits(g, u)
      BY <3>1 DEF SyncInv, LinksInv
    <3>3. CASE x \in {g, u}
      <4>1. <<g, u>> \notin links
        BY <1>3, <1>4, <3>2, <3>3 DEF LinkFits, Rec
      <4>2. <<Sole, g, u>> \notin member
        BY <1>3, <1>4, <3>3
      <4>3. <<g, u>> \notin links' /\ ~In(g, u)'
        BY <1>1, <1>3, <4>1, <4>2 DEF In
      <4>. QED
        BY <4>3 DEF LinkFits
    <3>4. CASE x \notin {g, u}
      <4>1. ~Links(s, g, u)
        BY <1>1 DEF Links, On
      <4>. QED
        BY <1>1, <1>6, <1>15, <3>1, <3>4, <4>1 DEF LinkStays
    <3>. QED
      BY <3>3, <3>4
  <2>. QED
    BY <1>1, <2>1, LinksKeep
<1>. QED
  BY <1>1, <1>8, <1>9, <1>11, <1>13, <1>14, <1>16, <1>17 DEF SyncInv

\* An update finds the record it read, unless the directory is gone.
LEMMA PutAgainKeeps ==
  ASSUME SyncInv, OnlyTenant, NEW s \in Slot, PutAgain(s)
  PROVE  SyncInv'
<1>0. PICK x : x = req[s].x
  OBVIOUS
<1>1. /\ x = req[s].x
      /\ TypeOK' /\ RequestInv(s)' /\ Others(s) /\ KeepsTenant
      /\ dir' = dir /\ member' = member /\ home' = home /\ told' = told /\ links' = links
      /\ quiet' = quiet
      /\ pc[s] = "put" /\ req[s].op = "update" /\ pc'[s] = "event" /\ req'[s] = req[s]
      /\ rec'[Sole][x] # None /\ OnlyRec(x)
      /\ Rec(x) # None => rec'[Sole][x].index = Rec(x).index
      /\ Rec(x) = None => rec'[Sole][x].index = None
  BY <1>0, PutAgainStep DEF Same
<1>2. /\ HomeStays /\ FindsLess /\ GoneStays
      /\ \A y \in Resource : Living(y)' <=> Living(y)
  BY <1>1, DirsStay
<1>3. /\ x \in Resource /\ home[x] = req[s].dir /\ req[s].dir \in Directory
      /\ req[s].dir # None /\ Sole \in Tenant /\ Sole' = Sole
  BY <1>1, About, SyncAssumption DEF IdOps, OnlyTenant, Sole
<1>4. ~Gone(home[x]) => Rec(x) # None
  BY <1>1, <1>3, Known DEF StillHolds, On
<1>5. \A y \in Resource : y # x => rec'[Sole][y] = rec[Sole][y]
  BY <1>1, <1>3 DEF OnlyRec
<1>6. Alone'
  BY <1>1, SameNarrows, NarrowsAlone
<1>7. \A r \in Slot : RequestInv(r)'
  <2>1. ASSUME NEW y \in Resource
        PROVE  rec'[Sole][y] = rec[Sole][y] \/ (pc[s] # "idle" /\ y \in Touches(req[s]))
    BY <1>1, <1>5 DEF Touches
  <2>. QED
    BY <1>1, <2>1, SparesAll DEF Gone
<1>8. \A d \in quiet : QuietMove(s, d) /\ ~For(s, d) /\ d # home[x]
  BY <1>1, <1>3, OtherQuiet DEF For
<1>9. RecordInv'
  <2>1. ASSUME NEW t \in Tenant, NEW y \in Resource
        PROVE  \/ rec'[t][y] = rec[t][y]
               \/ /\ t = Sole /\ home'[y] \in Directory
                  /\ rec'[t][y].index # None => rec'[t][y].index[1] = home'[y]
                  /\ dir'[home'[y]] # "gone" \/ home'[y] \in quiet' => rec'[t][y].index # None
    <3>1. CASE t = Sole /\ y = x
      <4>1. ASSUME Rec(x) # None
            PROVE  /\ Rec(x).index # None => Rec(x).index[1] = home[x]
                   /\ Findable(home[x]) => Rec(x).index # None
        BY <1>3, <4>1 DEF SyncInv, RecordInv, Rec
      <4>2. dir'[home'[x]] # "gone" \/ home'[x] \in quiet' => Rec(x) # None /\ Findable(home[x])
        BY <1>1, <1>4, <1>8 DEF Gone, Findable
      <4>. QED
        BY <1>1, <1>3, <3>1, <4>1, <4>2
    <3>2. CASE ~(t = Sole /\ y = x)
      BY <1>1, <3>2 DEF OnlyRec
    <3>. QED
      BY <3>1, <3>2
  <2>. QED
    BY <1>2, <2>1, RecordKeeps
<1>10. \A g \in Group : Purging(g) => Purging(g)'
  <2>1. ASSUME NEW g \in Group, NEW r \in Slot, Purges(r, g) PROVE Purges(r, g)'
    BY <1>1, <2>1 DEF Others, Purges
  <2>. QED
    BY <2>1 DEF Purging
<1>11. MemberInv'
  <2>1. \A g \in Group : rec[Sole][g] = None \/ rec'[Sole][g] # None
    BY <1>1, <1>5 DEF Resource
  <2>. QED
    BY <1>1, <1>2, <1>10, <2>1, MemberKeeps
<1>12. QuietInv'
  <2>1. ASSUME NEW d \in quiet PROVE QuietFits(d)'
    <3>1. dir'[d] = "gone"
      BY <1>1 DEF SyncInv, QuietInv, Gone
    <3>2. ASSUME NEW y \in Resource, home'[y] = d
          PROVE  home[y] = d /\ rec'[Sole][y] = rec[Sole][y]
      BY <1>1, <1>5, <1>8, <3>2
    <3>. QED
      BY <1>1, <1>8, <3>1, <3>2, QuietKeeps DEF QuietMove
  <2>. QED
    BY <1>1, <2>1 DEF QuietInv, QuietFits
<1>13. \A y \in Resource : ~Tells(s, y) /\ ~Deletes(s, y)
  BY <1>1 DEF Tells, Deletes, On
<1>14. ToldInv'
  <2>1. ASSUME NEW y \in Resource, Living(y)'
        PROVE  ToldStays(s, y) \/ Untold(y)'
    <3>1. CASE y = x
      <4>1. Tells(s, x)'
        BY <1>1 DEF Tells, On
      <4>. QED
        BY <3>1, <4>1 DEF Untold
    <3>2. CASE y # x
      BY <1>1, <1>2, <1>5, <1>13, <2>1, <3>2 DEF ToldStays
    <3>. QED
      BY <3>1, <3>2
  <2>. QED
    BY <1>1, <2>1, ToldKeeps
<1>15. LinksInv'
  <2>1. ASSUME NEW g \in Group, NEW u \in User, Living(g)', Living(u)'
        PROVE  LinkStays(s, g, u)
    <3>1. g \in Resource /\ u \in Resource /\ Living(g) /\ Living(u)
      BY <1>2, <2>1 DEF Resource
    <3>2. ASSUME NEW y \in {g, u}
          PROVE  rec'[Sole][y] # None <=> rec[Sole][y] # None
      <4>1. CASE y = x
        BY <1>1, <1>3, <1>4, <3>1, <4>1, LivingHome DEF Rec
      <4>2. CASE y # x
        BY <1>5, <3>1, <4>2
      <4>. QED
        BY <4>1, <4>2
    <3>3. ~Links(s, g, u)
      BY <1>1 DEF Links, On
    <3>. QED
      BY <1>1, <1>13, <3>1, <3>2, <3>3 DEF LinkStays
  <2>. QED
    BY <1>1, <2>1, LinksKeep
<1>. QED
  BY <1>1, <1>6, <1>7, <1>9, <1>11, <1>12, <1>14, <1>15 DEF SyncInv

\* A deleted resource is yet to be told, and a deleted group to be purged.
LEMMA DeleteKeeps ==
  ASSUME SyncInv, OnlyTenant, NEW s \in Slot, Delete(s)
  PROVE  SyncInv'
<1>0. PICK x : x = req[s].x
  OBVIOUS
<1>1. /\ x = req[s].x
      /\ TypeOK' /\ RequestInv(s)' /\ Others(s) /\ KeepsTenant
      /\ dir' = dir /\ member' = member /\ home' = home /\ told' = told /\ links' = links
      /\ quiet' = quiet
      /\ pc[s] = "delete" /\ req[s].op = "delete" /\ req'[s] = req[s]
      /\ rec'[Sole][x] = None /\ OnlyRec(x)
      /\ \/ pc'[s] = "event" /\ x \in User
         \/ pc'[s] = "purge" /\ todo'[s] = {x}
  BY <1>0, DeleteStep
<1>2. /\ HomeStays /\ FindsLess /\ GoneStays
      /\ \A y \in Resource : Living(y)' <=> Living(y)
  BY <1>1, DirsStay
<1>3. /\ x \in Resource /\ home[x] = req[s].dir /\ req[s].dir \in Directory
      /\ req[s].dir # None /\ Sole \in Tenant /\ Sole' = Sole
  BY <1>1, About, SyncAssumption DEF IdOps, OnlyTenant, Sole
<1>4. \A y \in Resource : y # x => rec'[Sole][y] = rec[Sole][y]
  BY <1>1, <1>3 DEF OnlyRec
<1>5. Alone'
  BY <1>1, SameNarrows, NarrowsAlone
<1>6. \A r \in Slot : RequestInv(r)'
  <2>1. ASSUME NEW y \in Resource
        PROVE  rec'[Sole][y] = rec[Sole][y] \/ (pc[s] # "idle" /\ y \in Touches(req[s]))
    BY <1>1, <1>4 DEF Touches
  <2>. QED
    BY <1>1, <2>1, SparesAll DEF Gone
<1>7. \A d \in quiet : QuietMove(s, d) /\ ~For(s, d)
  BY <1>1, OtherQuiet
<1>8. RecordInv'
  <2>1. ASSUME NEW t \in Tenant, NEW y \in Resource
        PROVE  rec'[t][y] = rec[t][y] \/ rec'[t][y] = None
    BY <1>1 DEF OnlyRec
  <2>. QED
    BY <1>2, <2>1, RecordKeeps
<1>9. \A g \in Group : Purging(g) => Purging(g)'
  <2>1. ASSUME NEW g \in Group, NEW r \in Slot, Purges(r, g) PROVE Purges(r, g)'
    BY <1>1, <2>1 DEF Others, Purges
  <2>. QED
    BY <2>1 DEF Purging
<1>10. MemberInv'
  <2>1. ASSUME NEW g \in Group
        PROVE  rec[Sole][g] = None \/ rec'[Sole][g] # None \/ Purging(g)'
    <3>1. CASE g = x
      BY <1>1, <3>1, SyncAssumption DEF Purging, Purges
    <3>2. CASE g # x
      BY <1>4, <3>2 DEF Resource
    <3>. QED
      BY <3>1, <3>2
  <2>. QED
    BY <1>1, <1>2, <1>9, <2>1, MemberKeeps
<1>11. QuietInv'
  <2>1. ASSUME NEW d \in quiet PROVE QuietFits(d)'
    <3>1. dir'[d] = "gone"
      BY <1>1 DEF SyncInv, QuietInv, Gone
    <3>2. ASSUME NEW y \in Resource, rec'[Sole][y] # None
          PROVE  rec[Sole][y] # None
      BY <1>1, <1>4, <3>2
    <3>. QED
      BY <1>1, <1>7, <3>1, <3>2, QuietKeeps DEF QuietMove
  <2>. QED
    BY <1>1, <2>1 DEF QuietInv, QuietFits
<1>12. Deletes(s, x)'
  BY <1>1 DEF Deletes, On
<1>13. \A y \in Resource : ~Tells(s, y) /\ ~Deletes(s, y)
  BY <1>1 DEF Tells, Deletes, On
<1>14. ToldInv'
  <2>1. ASSUME NEW y \in Resource, Living(y)'
        PROVE  ToldStays(s, y) \/ Untold(y)'
    <3>1. CASE y = x
      BY <1>12, <3>1 DEF Untold, Tells
    <3>2. CASE y # x
      BY <1>1, <1>2, <1>4, <1>13, <2>1, <3>2 DEF ToldStays
    <3>. QED
      BY <3>1, <3>2
  <2>. QED
    BY <1>1, <2>1, ToldKeeps
<1>15. LinksInv'
  <2>1. ASSUME NEW g \in Group, NEW u \in User, Living(g)', Living(u)'
        PROVE  LinkStays(s, g, u) \/ LinkFits(g, u)'
    <3>1. g \in Resource /\ u \in Resource /\ Living(g) /\ Living(u) /\ g # u
      BY <1>2, <2>1, SyncAssumption DEF Resource
    <3>2. LinkFits(g, u)
      BY <3>1 DEF SyncInv, LinksInv
    <3>3. CASE x \in {g, u}
      <4>1. Deleting(g)' \/ Deleting(u)'
        BY <1>12, <3>3 DEF Deleting
      <4>2. (Deleting(g) => Deleting(g)') /\ (Deleting(u) => Deleting(u)')
        BY <1>1, <1>13, <3>1, DeletingStays
      <4>3. ASSUME NEW y \in {g, u}
            PROVE  Rec(y) # None => rec'[Sole][y] # None \/ Deleting(y)'
        BY <1>4, <1>12, <3>1, <4>3 DEF Deleting, Rec
      <4>. QED
        BY <1>1, <1>3, <3>2, <4>1, <4>2, <4>3 DEF LinkFits, Rec
    <3>4. CASE x \notin {g, u}
      <4>1. ~Links(s, g, u)
        BY <1>1 DEF Links, On
      <4>. QED
        BY <1>1, <1>4, <1>13, <3>1, <3>4, <4>1 DEF LinkStays
    <3>. QED
      BY <3>3, <3>4
  <2>. QED
    BY <1>1, <2>1, LinksKeep
<1>. QED
  BY <1>1, <1>5, <1>6, <1>8, <1>10, <1>11, <1>14, <1>15 DEF SyncInv

\* A directory deleted in quiet has no other request, and gets none.
LEMMA DropConfigKeeps ==
  ASSUME SyncInv, OnlyTenant, NEW s \in Slot, DropConfig(s)
  PROVE  SyncInv'
<1>1. /\ TypeOK' /\ RequestInv(s)' /\ Others(s) /\ KeepsTenant
      /\ rec' = rec /\ member' = member /\ home' = home /\ told' = told /\ links' = links
      /\ pc[s] = "config" /\ pc'[s] = "groups" /\ req'[s] = req[s] /\ req[s].op = "drop"
      /\ todo'[s] = todo[s]
      /\ req[s].dir \in Directory
      /\ \A d \in Directory : dir'[d] = IF d = req[s].dir THEN "gone" ELSE dir[d]
      /\ \/ quiet' = quiet
         \/ /\ ~Gone(req[s].dir) /\ quiet' = quiet \cup {req[s].dir}
            /\ \A r \in Slot \ {s} : ~For(r, req[s].dir)
  BY DropConfigStep DEF Same
<1>2. \A d \in Directory : dir'[d] # "gone" => dir'[d] = dir[d]
  BY <1>1
<1>3. GoneStays
  BY <1>1 DEF GoneStays, Gone
<1>4. HomeStays /\ FindsLess
  BY <1>1, <1>2 DEF HomeStays, FindsLess, Findable, Gone
<1>5. \A x \in Resource : Living(x)' => Living(x)
  <2>1. home \in [Resource -> Directory \cup {None}]
    BY TypeSplits DEF SyncInv
  <2>. QED
    BY <1>1, <1>2, <2>1 DEF Living
<1>6. Alone'
  BY <1>1, SameNarrows, NarrowsAlone
<1>7. \A r \in Slot : RequestInv(r)'
  BY <1>1, <1>3, SparesAll DEF GoneStays
<1>8. RecordInv'
  BY <1>1, <1>4, RecordKeeps
<1>9. \A g \in Group : Purging(g) => Purging(g)'
  <2>1. ASSUME NEW g \in Group, NEW r \in Slot, Purges(r, g) PROVE Purges(r, g)'
    BY <1>1, <2>1 DEF Others, Purges
  <2>. QED
    BY <2>1 DEF Purging
<1>10. MemberInv'
  BY <1>1, <1>4, <1>9, MemberKeeps
<1>11. QuietInv'
  <2>1. ASSUME NEW d \in quiet PROVE QuietFits(d)'
    <3>1. ~For(s, d) /\ Gone(d) /\ d \in Directory
      BY <1>1, TypeSplits DEF SyncInv, QuietInv
    <3>2. dir'[d] = "gone" /\ ~For(s, d)'
      BY <1>1, <1>3, <3>1 DEF GoneStays, For
    <3>. QED
      BY <1>1, <3>1, <3>2, QuietKeeps
  <2>2. ASSUME NEW d, d = req[s].dir, \A r \in Slot \ {s} : ~For(r, d) PROVE QuietFits(d)'
    <3>1. For(s, d)' /\ dir'[d] = "gone"
      BY <1>1, <2>2 DEF For
    <3>2. \A r \in Slot \ {s} : ~For(r, d)'
      BY <1>1, <2>2 DEF For, Others
    <3>. QED
      BY <1>1, <3>1, <3>2 DEF QuietFits, Gone
  <2>3. ASSUME NEW d \in quiet' PROVE QuietFits(d)'
    BY <1>1, <2>1, <2>2, <2>3
  <2>. QED
    BY <2>3 DEF QuietInv, QuietFits
<1>12. \A y \in Resource : ~Tells(s, y) /\ ~Deletes(s, y)
  BY <1>1 DEF Tells, Deletes, On
<1>13. ToldInv'
  <2>1. \A x \in Resource : Living(x)' => ToldStays(s, x)
    BY <1>1, <1>5, <1>12 DEF ToldStays
  <2>. QED
    BY <1>1, <2>1, ToldKeeps
<1>14. LinksInv'
  <2>1. ASSUME NEW g \in Group, NEW u \in User, Living(g)', Living(u)'
        PROVE  LinkStays(s, g, u)
    <3>1. ~Links(s, g, u)
      BY <1>1 DEF Links, On
    <3>. QED
      BY <1>1, <1>5, <1>12, <2>1, <3>1 DEF LinkStays, Resource
  <2>. QED
    BY <1>1, <2>1, LinksKeep
<1>. QED
  BY <1>1, <1>6, <1>7, <1>8, <1>10, <1>11, <1>13, <1>14 DEF SyncInv

\* A page has records of the directory that is gone.
LEMMA DropPageKeeps ==
  ASSUME SyncInv, OnlyTenant, NEW s \in Slot, DropPage(s)
  PROVE  SyncInv'
<1>1. /\ TypeOK' /\ RequestInv(s)' /\ Others(s) /\ KeepsTenant
      /\ dir' = dir /\ member' = member /\ home' = home /\ told' = told /\ links' = links
      /\ quiet' = quiet
      /\ req[s].op = "drop" /\ req'[s] = req[s] /\ req[s].dir \in Directory /\ Gone(req[s].dir)
      /\ \A x \in page[s] : x \in Resource /\ home[x] = req[s].dir
      /\ \A t \in Tenant, x \in Resource : rec'[t][x] = rec[t][x] \/ rec'[t][x] = None
      /\ \A x \in Resource : x \notin page[s] => rec'[Sole][x] = rec[Sole][x]
      /\ \/ pc[s] = "groupPage" /\ pc'[s] = "purge" /\ todo'[s] = page[s]
         \/ /\ pc[s] = "userPage" /\ pc'[s] = "users" /\ todo'[s] = todo[s]
            /\ \A x \in page[s] : x \in User
  BY DropPageStep
<1>2. /\ HomeStays /\ FindsLess /\ GoneStays
      /\ \A y \in Resource : Living(y)' <=> Living(y)
  BY <1>1, DirsStay
<1>3. Alone' /\ pc[s] # "idle" /\ req[s].dir # None /\ Sole \in Tenant
  BY <1>1, SameNarrows, NarrowsAlone, SyncAssumption DEF OnlyTenant
<1>4. \A r \in Slot : RequestInv(r)'
  <2>1. ASSUME NEW y \in Resource
        PROVE  rec'[Sole][y] = rec[Sole][y] \/ Gone(home[y])
    BY <1>1
  <2>. QED
    BY <1>1, <2>1, SparesAll DEF Gone
<1>5. RecordInv'
  BY <1>1, <1>2, RecordKeeps
<1>6. MemberInv'
  <2>1. \A g \in Group : Purging(g) => Purging(g)'
    <3>1. ASSUME NEW g \in Group, NEW r \in Slot, Purges(r, g) PROVE Purges(r, g)'
      BY <1>1, <3>1 DEF Others, Purges
    <3>. QED
      BY <3>1 DEF Purging
  <2>2. ASSUME NEW g \in Group
        PROVE  rec[Sole][g] = None \/ rec'[Sole][g] # None \/ Purging(g)'
    <3>1. CASE g \in page[s]
      <4>1. g \notin User
        BY SyncAssumption
      <4>2. Purges(s, g)'
        BY <1>1, <3>1, <4>1 DEF Purges
      <4>. QED
        BY <4>2 DEF Purging
    <3>2. CASE g \notin page[s]
      BY <1>1, <3>2 DEF Resource
    <3>. QED
      BY <3>1, <3>2
  <2>. QED
    BY <1>1, <1>2, <2>1, <2>2, MemberKeeps
<1>7. QuietInv'
  <2>1. ASSUME NEW d \in quiet PROVE QuietFits(d)'
    <3>1. dir'[d] = "gone"
      BY <1>1 DEF SyncInv, QuietInv, Gone
    <3>2. QuietMove(s, d)
      BY <1>1 DEF QuietMove, For
    <3>3. \A y \in Resource : rec'[Sole][y] # None => rec[Sole][y] # None
      BY <1>1, <1>3
    <3>. QED
      BY <1>1, <3>1, <3>2, <3>3, QuietKeeps DEF QuietMove
  <2>. QED
    BY <1>1, <2>1 DEF QuietInv, QuietFits
<1>8. \A y \in Resource : ~Tells(s, y) /\ ~Deletes(s, y)
  BY <1>1 DEF Tells, Deletes, On
<1>9. \A y \in Resource : Living(y) => rec'[Sole][y] = rec[Sole][y]
  BY <1>1, <1>3, LivingHome
<1>10. ToldInv'
  <2>1. \A x \in Resource : Living(x)' => ToldStays(s, x)
    BY <1>1, <1>2, <1>8, <1>9 DEF ToldStays
  <2>. QED
    BY <1>1, <2>1, ToldKeeps
<1>11. LinksInv'
  <2>1. ASSUME NEW g \in Group, NEW u \in User, Living(g)', Living(u)'
        PROVE  LinkStays(s, g, u)
    <3>1. ~Links(s, g, u)
      BY <1>1 DEF Links, On
    <3>. QED
      BY <1>1, <1>2, <1>8, <1>9, <2>1, <3>1 DEF LinkStays, Resource
  <2>. QED
    BY <1>1, <2>1, LinksKeep
<1>. QED
  BY <1>1, <1>3, <1>4, <1>5, <1>6, <1>7, <1>10, <1>11 DEF SyncInv

LEMMA DeactivateKeeps ==
  ASSUME SyncInv, OnlyTenant, NEW d \in Directory, Deactivate(d)
  PROVE  SyncInv'
<1>1. /\ TypeOK'
      /\ tenant' = tenant /\ rec' = rec /\ member' = member /\ home' = home /\ told' = told
      /\ links' = links /\ pc' = pc /\ req' = req /\ page' = page /\ todo' = todo
      /\ quiet' = quiet
      /\ \A e \in Directory : Gone(e) <=> dir'[e] = "gone"
  BY DeactivateStep
<1>2. /\ home \in [Resource -> Directory \cup {None}] /\ quiet \subseteq Directory
      /\ Sole' = Sole
  BY TypeSplits DEF SyncInv, Sole
<1>3. /\ HomeStays /\ FindsLess /\ GoneStays
  BY <1>1 DEF HomeStays, FindsLess, GoneStays, Findable
<1>4. \A x \in Resource : Living(x)' <=> Living(x)
  BY <1>1, <1>2 DEF Living, Gone
<1>5. \A r \in Slot : RequestInv(r)'
  <2>1. ASSUME NEW r \in Slot, pc[r] # "idle" PROVE Spares(r)
    BY <1>1, <1>3 DEF Spares, GoneStays, KeepsTenant
  <2>2. ASSUME NEW r \in Slot, pc[r] = "idle" PROVE RequestInv(r)'
    BY <1>1, <2>2 DEF RequestInv
  <2>. QED
    BY <2>1, <2>2, SparedKeeps
<1>6. Alone'
  BY <1>1 DEF SyncInv, Alone, Touches
<1>7. RecordInv'
  BY <1>1, <1>3, RecordKeeps
<1>8. \A g \in Group : Purging(g) <=> Purging(g)'
  BY <1>1 DEF Purging, Purges
<1>9. MemberInv'
  BY <1>1, <1>3, <1>8, MemberKeeps
<1>10. QuietInv'
  <2>1. ASSUME NEW e \in quiet PROVE QuietFits(e)'
    <3>1. QuietFits(e)
      BY DEF SyncInv, QuietInv, QuietFits
    <3>2. dir'[e] = "gone"
      BY <1>1, <1>2, <3>1 DEF QuietFits
    <3>3. (Deleted(e, Group) => Deleted(e, Group)') /\ (Deleted(e, User) => Deleted(e, User)')
          /\ (Unlinked(e) => Unlinked(e)')
      BY <1>1, <1>2 DEF Deleted, Unlinked, Rec
    <3>4. \A r \in Slot : For(r, e)' <=> For(r, e)
      BY <1>1 DEF For
    <3>. QED
      BY <1>1, <3>1, <3>2, <3>3, <3>4 DEF QuietFits, Gone
  <2>. QED
    BY <1>1, <2>1 DEF QuietInv, QuietFits
<1>11. \A x \in Resource : (Untold(x)' <=> Untold(x)) /\ (Deleting(x)' <=> Deleting(x))
                           /\ LabelOf(x)' = LabelOf(x)
  BY <1>1, <1>2 DEF Untold, Tells, Deleting, Deletes, On, LabelOf, Rec
<1>12. ToldInv'
  BY <1>1, <1>4, <1>11 DEF SyncInv, ToldInv
<1>13. LinksInv'
  <2>1. ASSUME NEW g \in Group, NEW u \in User, LinkFits(g, u)
        PROVE  LinkFits(g, u)'
    <3>1. Linking(g, u)' <=> Linking(g, u)
      BY <1>1 DEF Linking, Links, On
    <3>2. In(g, u)' <=> In(g, u)
      BY <1>1, <1>2 DEF In, Rec
    <3>. QED
      BY <1>1, <1>2, <1>11, <2>1, <3>1, <3>2 DEF LinkFits, Rec, Resource
  <2>. QED
    BY <1>4, <2>1 DEF SyncInv, LinksInv, Resource
<1>. QED
  BY <1>1, <1>5, <1>6, <1>7, <1>9, <1>10, <1>12, <1>13 DEF SyncInv

\* At first nothing is stored and nothing asked.
LEMMA InitKeeps ==
  ASSUME OnlyTenant, Init
  PROVE  SyncInv
<1>1. /\ \A s \in Slot : pc[s] = "idle"
      /\ \A t \in Tenant, x \in Resource : rec[t][x] = None
      /\ \A x \in Resource : home[x] = None /\ told[x] = None
      /\ member = {} /\ links = {} /\ quiet = {} /\ Sole \in Tenant
  BY DEF Init, OnlyTenant
<1>2. TypeOK
  <2>1. SlotTypes
    BY DEF Init, SlotTypes, Place
  <2>2. rec \in [Tenant -> [Resource -> Entry \cup {None}]]
    BY DEF Init
  <2>3. /\ tenant \in [Store -> Tenant \cup {None}]
        /\ dir \in [Directory -> {"active", "inactive", "gone"}]
        /\ home \in [Resource -> Directory \cup {None}]
        /\ told \in [Resource -> Label \cup {None}]
    BY DEF Init
  <2>. QED
    BY <1>1, <2>1, <2>2, <2>3, TypeSplits
<1>3. (\A s \in Slot : RequestInv(s)) /\ Alone
  BY <1>1 DEF RequestInv, Alone
<1>4. RecordInv /\ MemberInv /\ QuietInv
  BY <1>1 DEF RecordInv, MemberInv, QuietInv
<1>5. ToldInv
  BY <1>1 DEF ToldInv, LabelOf, Rec
<1>6. LinksInv
  BY <1>1 DEF LinksInv, LinkFits, In, Rec, Resource
<1>. QED
  BY <1>2, <1>3, <1>4, <1>5, <1>6 DEF SyncInv

LEMMA StepKeeps ==
  ASSUME SyncInv, OnlyTenant, [Next]_vars
  PROVE  SyncInv'
<1>1. CASE UNCHANGED vars
  <2>1. UNCHANGED <<tenant, dir, rec, member, home, told, links, pc, req, page, todo, quiet>>
    BY <1>1 DEF vars, webhookVars, requestVars
  <2>2. TypeOK'
    BY <2>1 DEF SyncInv, TypeOK
  <2>3. (\A s \in Slot : RequestInv(s)') /\ Alone'
    BY <2>1 DEF SyncInv, RequestInv, AskFits, PlaceFits, HandFits, TenantFits, StillHolds,
                On, Gone, Rec, Sole, Alone, Touches
  <2>4. RecordInv' /\ MemberInv' /\ QuietInv'
    BY <2>1 DEF SyncInv, RecordInv, MemberInv, QuietInv, Findable, Gone, Rec, Sole,
                Purging, Purges, For, Deleted, Unlinked
  <2>5. ToldInv' /\ LinksInv'
    BY <2>1 DEF SyncInv, ToldInv, LinksInv, Living, LabelOf, Rec, Sole, Untold, Tells,
                Deletes, On, LinkFits, In, Deleting, Linking, Links
  <2>. QED
    BY <2>2, <2>3, <2>4, <2>5 DEF SyncInv
<1>2. ASSUME NEW s \in Slot, Step(s) PROVE SyncInv'
  BY <1>2, LookupKeeps, SearchKeeps, PutNewKeeps, PutAgainKeeps, CheckKeeps, DeleteKeeps,
     PurgeKeeps, UnlinkKeeps, TakeMemberKeeps, LinkKeeps, WhomKeeps, EventKeeps, NoEventKeeps,
     DropConfigKeeps, DropGroupsKeeps, DropUsersKeeps, DropPageKeeps DEF Step
<1>. QED
  BY <1>1, <1>2, StartKeeps, StartDropKeeps, DeactivateKeeps DEF Next

\* The invariant of SCIM requests and deletions: what each request relies on is
\* so, however the steps of requests on other users, groups and directories of
\* the same tenant and product come in between.
THEOREM SyncInvariant == ASSUME OnlyTenant PROVE Spec => []SyncInv
<1>1. Init => SyncInv
  BY InitKeeps
<1>2. SyncInv /\ [Next]_vars => SyncInv'
  BY StepKeeps
<1>. QED
  BY <1>1, <1>2, PTL DEF Spec

\* Every state is well typed, and an idle slot has no request and nothing in
\* hand (TypeOK).
THEOREM SyncTyped == ASSUME OnlyTenant PROVE Spec => []TypeOK
BY SyncInvariant, PTL DEF SyncInv

\* No membership outlives its group, unless a request on the group or the
\* deletion of its directory is under way (MembersHaveGroup).
THEOREM MembersKeepGroup == ASSUME OnlyTenant PROVE Spec => []MembersHaveGroup
<1>1. SyncInv => MembersHaveGroup
  <2> SUFFICES ASSUME SyncInv, NEW m \in member,
                      m[2] \notin Busy, dir[home[m[2]]] # "gone"
               PROVE  rec[m[1]][m[2]] # None
    BY DEF MembersHaveGroup
  <2>1. member \subseteq Tenant \X Group \X User
    BY TypeSplits DEF SyncInv
  <2>2. PICK t \in Tenant, g \in Group, u \in User : m = <<t, g, u>>
    BY <2>1
  <2>3. t = Sole /\ (Findable(home[g]) => Rec(g) # None \/ Purging(g))
    BY <2>2 DEF SyncInv, MemberInv
  <2>4. g \notin Busy /\ ~Gone(home[g])
    BY <2>2 DEF Gone
  <2>5. ASSUME NEW s \in Slot, Purges(s, g) PROVE FALSE
    <3>1. pc[s] \in {"purge", "unlink"} /\ g \in todo[s] /\ pc[s] # "idle"
      BY <2>5 DEF Purges
    <3>2. /\ req[s].op \in {"delete", "drop"}
          /\ req[s].op = "drop" => Gone(home[g])
          /\ req[s].op = "delete" => g = req[s].x
      BY <3>1, PurgesFit
    <3>3. req[s].op = "delete" => g \in Busy
      BY <3>1, <3>2 DEF Busy, Touches
    <3>. QED
      BY <2>4, <3>2, <3>3
  <2>. QED
    BY <2>2, <2>3, <2>4, <2>5 DEF Findable, Purging, Rec
<1>. QED
  BY <1>1, SyncInvariant, PTL

\* A directory deleted while none of its requests was under way leaves no
\* record behind (NothingLeftBehind).
THEOREM DeletionIsComplete == ASSUME OnlyTenant PROVE Spec => []NothingLeftBehind
<1>1. ASSUME OnlyTenant, SyncInv PROVE NothingLeftBehind
  <2> SUFFICES ASSUME NEW d \in quiet, ~Dropping(d)
               PROVE  /\ \A t \in Tenant, x \in Resource : home[x] = d => rec[t][x] = None
                      /\ \A m \in member : home[m[2]] # d
    BY DEF NothingLeftBehind
  <2>1. QuietFits(d) /\ member \subseteq Tenant \X Group \X User
    BY <1>1, TypeSplits DEF SyncInv, QuietInv, QuietFits
  <2>2. \A s \in Slot : ~For(s, d)
    BY <2>1 DEF QuietFits, For, Dropping
  <2>3. Deleted(d, User) /\ Deleted(d, Group) /\ Unlinked(d)
    BY <2>1, <2>2 DEF QuietFits
  <2>4. ASSUME NEW t \in Tenant, NEW x \in Resource, home[x] = d PROVE rec[t][x] = None
    BY <1>1, <2>3, <2>4 DEF Deleted, Rec, Resource, SyncInv, RecordInv
  <2>5. ASSUME NEW m \in member PROVE home[m[2]] # d
    BY <2>1, <2>3 DEF Unlinked
  <2>. QED
    BY <2>4, <2>5
<1>. QED
  BY <1>1, SyncInvariant, PTL

-----------------------------------------------------------------------------
\* What a step does to an item of the feed: nothing, a change of what the
\* webhook knew as it was, or the telling of such a change.
Follows(was, is, knew, knows) ==
  \/ is = was /\ knows = knew
  \/ knew = was /\ knows = knew
  \/ knows = is /\ is = was
ItemFollows(x) == Living(x)' => Follows(LabelOf(x), LabelOf(x)', told[x], told'[x])
LinkFollows(g, u) == Living(g)' /\ Living(u)' =>
  Follows(In(g, u), In(g, u)', <<g, u>> \in links, <<g, u>> \in links')
AllFollow == (\A x \in Resource : ItemFollows(x)) /\ \A g \in Group, u \in User : LinkFollows(g, u)

\* A step that changes neither store nor webhook follows.
LEMMA StaysFollow ==
  ASSUME rec' = rec, member' = member, told' = told, links' = links
  PROVE  AllFollow
<1>1. Sole' = Sole
  BY DEF Sole
<1>. QED
  BY <1>1 DEF AllFollow, ItemFollows, LinkFollows, Follows, LabelOf, In, Rec

\* The only request on x knows whether it has yet to tell of it.
LEMMA OnlyTeller ==
  ASSUME SyncInv, NEW s \in Slot, pc[s] # "idle", NEW x \in Resource, x \in Touches(req[s])
  PROVE  /\ Untold(x) => Tells(s, x)
         /\ Deleting(x) => Deletes(s, x)
<1>1. x # None
  BY SyncAssumption DEF Resource
<1>2. ASSUME NEW r \in Slot, Tells(r, x) \/ Deletes(r, x) PROVE r = s
  <2>1. pc[r] # "idle" /\ x \in Touches(req[r])
    BY <1>2 DEF Tells, Deletes, On, Touches
  <2>. QED
    BY <1>1, <2>1, ApartFrom
<1>. QED
  BY <1>2 DEF Untold, Deleting

\* ... and of a membership.
LEMMA OnlyLinker ==
  ASSUME SyncInv, NEW s \in Slot, pc[s] # "idle", NEW g \in Group, NEW u \in User,
         g \in Touches(req[s]) \/ u \in Touches(req[s])
  PROVE  Linking(g, u) => Links(s, g, u)
<1>1. g # None /\ u # None
  BY SyncAssumption DEF Resource
<1>2. ASSUME NEW r \in Slot, Links(r, g, u) PROVE r = s
  <2>1. pc[r] # "idle" /\ g \in Touches(req[r]) /\ HandFits(r)
    BY <1>2, Known DEF Links, On, Touches
  <2>2. u \in Touches(req[r])
    BY <1>2, <2>1 DEF HandFits, Links, On, Touches
  <2>. QED
    BY <1>1, <2>1, <2>2, ApartFrom
<1>. QED
  BY <1>2 DEF Linking

\* A living resource that a request is deleting is no longer stored.
LEMMA DeletingGone ==
  ASSUME SyncInv, NEW x \in Resource, Living(x), Deleting(x)
  PROVE  Rec(x) = None
<1>1. PICK r \in Slot : Deletes(r, x)
  BY DEF Deleting
<1>2. pc[r] # "idle" /\ req[r].op = "delete" /\ req[r].x = x /\ StillHolds(r)
  BY <1>1, Known DEF Deletes, On
<1>3. home[x] = req[r].dir /\ home[x] # None
  BY <1>2, About, SyncAssumption DEF IdOps
<1>4. ~Gone(req[r].dir)
  BY <1>3, LivingHome
<1>. QED
  BY <1>1, <1>2, <1>4 DEF StillHolds, Deletes, On

\* A group whose memberships are purged has none in the feed already.
LEMMA UnlinkFollows ==
  ASSUME SyncInv, OnlyTenant, NEW s \in Slot, Unlink(s)
  PROVE  AllFollow
<1>1. /\ dir' = dir /\ rec' = rec /\ home' = home /\ told' = told /\ links' = links /\ quiet' = quiet
      /\ \A t \in Tenant, g \in Group, u \in User :
           <<t, g, u>> \in member /\ <<t, g, u>> \notin member' => g \in todo[s]
      /\ member' \subseteq member /\ pc[s] = "unlink" /\ pc[s] # "idle"
      /\ Sole \in Tenant /\ Sole' = Sole
  BY UnlinkStep DEF OnlyTenant, Sole
<1>2. \A x \in Resource : Living(x)' <=> Living(x)
  BY <1>1, DirsStay
<1>3. /\ req[s].op \in {"delete", "drop"} /\ req[s].dir # None
      /\ req[s].op = "drop" => Gone(req[s].dir) /\ \A g \in todo[s] : home[g] = req[s].dir
      /\ req[s].op = "delete" => todo[s] = {req[s].x} /\ req[s].x \in Group
  <2>1. req[s].dir \in Directory
    BY <1>1, Known, Requested
  <2>. QED
    BY <1>1, <2>1, PurgesFit, SyncAssumption
<1>4. ASSUME NEW g \in Group, Living(g), g \in todo[s] PROVE Rec(g) = None
  <2>1. req[s].op = "delete"
    BY <1>3, <1>4, LivingHome
  <2>2. Deleting(g)
    BY <1>1, <1>3, <1>4, <2>1 DEF Deleting, Deletes, On
  <2>. QED
    BY <1>4, <2>2, DeletingGone DEF Resource
<1>5. \A x \in Resource : ItemFollows(x)
  BY <1>1 DEF ItemFollows, Follows, LabelOf, Rec
<1>6. ASSUME NEW g \in Group, NEW u \in User, Living(g)', Living(u)'
      PROVE  In(g, u)' <=> In(g, u)
  <2>1. CASE g \in todo[s]
    <3>1. Rec(g) = None
      BY <1>2, <1>4, <1>6, <2>1 DEF Resource
    <3>. QED
      BY <1>1, <3>1 DEF In, Rec
  <2>2. CASE g \notin todo[s]
    BY <1>1, <2>2 DEF In, Rec
  <2>. QED
    BY <2>1, <2>2
<1>. QED
  BY <1>1, <1>5, <1>6 DEF AllFollow, LinkFollows, Follows, In

\* A membership is put, or deleted, only when its last change was told.
LEMMA LinkFollow ==
  ASSUME SyncInv, OnlyTenant, NEW s \in Slot, Link(s)
  PROVE  AllFollow
<1>1. /\ dir' = dir /\ rec' = rec /\ home' = home /\ told' = told /\ links' = links /\ quiet' = quiet
      /\ \A t \in Tenant, g \in Group, u \in User :
           ~(<<t, g, u>> \in member <=> <<t, g, u>> \in member') =>
              t = Sole /\ g = req[s].x /\ u \in page[s]
      /\ pc[s] = "link" /\ pc[s] # "idle" /\ page[s] \subseteq req[s].who
      /\ req[s].x \in Group
      /\ Sole \in Tenant /\ Sole' = Sole
  BY LinkStep DEF OnlyTenant, Sole
<1>2. \A x \in Resource : Living(x)' <=> Living(x)
  BY <1>1, DirsStay
<1>3. \A x \in Resource : ItemFollows(x)
  BY <1>1 DEF ItemFollows, Follows, LabelOf, Rec
<1>4. ASSUME NEW g \in Group, NEW u \in User, Living(g)', Living(u)'
      PROVE  (In(g, u)' <=> In(g, u)) \/ (In(g, u) <=> <<g, u>> \in links)
  <2>1. CASE g = req[s].x /\ u \in page[s]
    <3>1. /\ g \in Resource /\ u \in Resource
          /\ g \in Touches(req[s]) /\ u \in Touches(req[s])
      BY <1>1, <2>1 DEF Resource, Touches
    <3>2. ~Deleting(g) /\ ~Deleting(u)
      BY <1>1, <3>1, OnlyTeller DEF Deletes, On
    <3>3. ~Linking(g, u)
      BY <1>1, <3>1, OnlyLinker DEF Links, On
    <3>4. LinkFits(g, u)
      BY <1>2, <1>4, <3>1 DEF SyncInv, LinksInv
    <3>. QED
      BY <3>2, <3>3, <3>4 DEF LinkFits
  <2>2. CASE ~(g = req[s].x /\ u \in page[s])
    BY <1>1, <2>2 DEF In, Rec
  <2>. QED
    BY <2>1, <2>2
<1>. QED
  BY <1>1, <1>3, <1>4 DEF AllFollow, LinkFollows, Follows, In

LEMMA DropPageFollows ==
  ASSUME SyncInv, OnlyTenant, NEW s \in Slot, DropPage(s)
  PROVE  AllFollow
<1>1. /\ dir' = dir /\ member' = member /\ home' = home /\ told' = told /\ links' = links
      /\ quiet' = quiet
      /\ req[s].dir \in Directory /\ Gone(req[s].dir)
      /\ \A x \in page[s] : x \in Resource /\ home[x] = req[s].dir
      /\ \A x \in Resource : x \notin page[s] => rec'[Sole][x] = rec[Sole][x]
      /\ Sole' = Sole /\ req[s].dir # None
  BY DropPageStep, SyncAssumption DEF Sole
<1>2. \A x \in Resource : Living(x)' <=> Living(x)
  BY <1>1, DirsStay
<1>3. ASSUME NEW x \in Resource, Living(x)' PROVE rec'[Sole][x] = rec[Sole][x]
  BY <1>1, <1>2, <1>3, LivingHome
<1>4. \A x \in Resource : ItemFollows(x)
  BY <1>1, <1>3 DEF ItemFollows, Follows, LabelOf, Rec
<1>5. ASSUME NEW g \in Group, NEW u \in User, Living(g)', Living(u)'
      PROVE  In(g, u)' <=> In(g, u)
  <2>1. rec'[Sole][g] = rec[Sole][g] /\ rec'[Sole][u] = rec[Sole][u]
    BY <1>3, <1>5 DEF Resource
  <2>. QED
    BY <1>1, <2>1 DEF In, Rec
<1>. QED
  BY <1>1, <1>4, <1>5 DEF AllFollow, LinkFollows, Follows, In

\* So is a new resource put, and any other changed or deleted.
LEMMA PutNewFollows ==
  ASSUME SyncInv, OnlyTenant, NEW s \in Slot, PutNew(s)
  PROVE  AllFollow
<1>1. /\ dir' = dir /\ member' = member /\ told' = told /\ links' = links /\ quiet' = quiet
      /\ Sole \in Tenant /\ Sole' = Sole
  BY PutNewStep DEF OnlyTenant, Sole
<1>2. PICK x \in Resource : home[x] = None /\ OnlyRec(x)
  BY PutNewStep
<1>3. /\ \A t \in Tenant : rec[t][x] = None
      /\ \A t \in Tenant, g \in Group, u \in User : <<t, g, u>> \in member => g # x /\ u # x
      /\ ~Untold(x)
  BY <1>2, NotGiven
<1>4. \A y \in Resource : y # x => rec'[Sole][y] = rec[Sole][y]
  BY <1>1, <1>2 DEF OnlyRec
<1>5. ASSUME NEW y \in Resource PROVE ItemFollows(y)
  <2>1. CASE y = x
    <3>1. Living(x)
      BY <1>2 DEF Living
    <3>2. told[x] = LabelOf(x)
      BY <1>3, <3>1 DEF SyncInv, ToldInv
    <3>. QED
      BY <1>1, <2>1, <3>2 DEF ItemFollows, Follows
  <2>2. CASE y # x
    BY <1>1, <1>4, <2>2 DEF ItemFollows, Follows, LabelOf, Rec
  <2>. QED
    BY <2>1, <2>2
<1>6. ASSUME NEW g \in Group, NEW u \in User PROVE In(g, u)' <=> In(g, u)
  <2>1. CASE x \in {g, u}
    BY <1>1, <1>3, <2>1 DEF In
  <2>2. CASE x \notin {g, u}
    BY <1>1, <1>4, <2>2 DEF In, Rec, Resource
  <2>. QED
    BY <2>1, <2>2
<1>. QED
  BY <1>1, <1>5, <1>6 DEF AllFollow, LinkFollows, Follows, In

\* An update or a delete changes what the webhook knew as it was.
LEMMA RecordFollows ==
  ASSUME SyncInv, OnlyTenant, NEW s \in Slot, pc[s] \in {"put", "delete"},
         NEW x \in Resource, x \in Touches(req[s]), pc[s] = "delete" => rec'[Sole][x] = None,
         pc[s] = "put" /\ Living(x) => Rec(x) # None,
         \A y \in Resource : y # x => rec'[Sole][y] = rec[Sole][y],
         dir' = dir, home' = home, quiet' = quiet, member' = member, told' = told, links' = links
  PROVE  AllFollow
<1>1. Sole' = Sole /\ pc[s] # "idle"
  BY DEF Sole
<1>2. \A y \in Resource : Living(y)' <=> Living(y)
  BY DirsStay
<1>3. ~Tells(s, x) /\ ~Deletes(s, x)
  BY DEF Tells, Deletes, On
<1>4. ~Untold(x) /\ ~Deleting(x)
  BY <1>1, <1>3, OnlyTeller
<1>5. ASSUME NEW y \in Resource PROVE ItemFollows(y)
  <2>1. ASSUME y = x, Living(x) PROVE told[y] = LabelOf(y)
    BY <1>4, <2>1 DEF SyncInv, ToldInv
  <2>2. y # x => LabelOf(y)' = LabelOf(y)
    BY <1>1 DEF LabelOf, Rec
  <2>. QED
    BY <1>2, <2>1, <2>2 DEF ItemFollows, Follows
<1>6. ASSUME NEW g \in Group, NEW u \in User, Living(g), Living(u), x \in {g, u}, In(g, u)
      PROVE  <<g, u>> \in links
  <2>1. g \in Resource /\ u \in Resource /\ Rec(g) # None /\ Rec(u) # None
    BY <1>6 DEF Resource, In
  <2>2. ~Deleting(g) /\ ~Deleting(u)
    BY <1>6, <2>1, DeletingGone
  <2>3. ~Linking(g, u)
    BY <1>1, <1>6, OnlyLinker DEF Links, On
  <2>4. LinkFits(g, u)
    BY <1>6, <2>1 DEF SyncInv, LinksInv
  <2>. QED
    BY <1>6, <2>2, <2>3, <2>4 DEF LinkFits
<1>7. ASSUME NEW g \in Group, NEW u \in User, Living(g)', Living(u)' PROVE LinkFollows(g, u)
  <2>1. g \in Resource /\ u \in Resource /\ Living(g) /\ Living(u)
    BY <1>2, <1>7 DEF Resource
  <2>2. CASE x \notin {g, u}
    BY <1>1, <2>1, <2>2 DEF LinkFollows, Follows, In, Rec
  <2>3. CASE x \in {g, u} /\ In(g, u)
    BY <1>6, <2>1, <2>3 DEF LinkFollows, Follows, In
  <2>4. CASE x \in {g, u} /\ ~In(g, u)
    <3>1. ASSUME NEW y \in {g, u} PROVE rec'[Sole][y] # None => rec[Sole][y] # None
      <4>1. CASE y = x
        BY <2>1, <3>1, <4>1 DEF Rec
      <4>2. CASE y # x
        BY <2>1, <3>1, <4>2
      <4>. QED
        BY <4>1, <4>2
    <3>. QED
      BY <1>1, <2>1, <2>4, <3>1 DEF LinkFollows, Follows, In, Rec
  <2>. QED
    BY <2>2, <2>3, <2>4
<1>. QED
  BY <1>5, <1>7 DEF AllFollow, LinkFollows

LEMMA PutAgainFollows ==
  ASSUME SyncInv, OnlyTenant, NEW s \in Slot, PutAgain(s)
  PROVE  AllFollow
<1>0. PICK x : x = req[s].x
  OBVIOUS
<1>1. /\ dir' = dir /\ member' = member /\ home' = home /\ told' = told /\ links' = links
      /\ quiet' = quiet /\ pc[s] = "put" /\ pc[s] # "idle" /\ req[s].op = "update" /\ OnlyRec(x)
      /\ x = req[s].x
  BY <1>0, PutAgainStep
<1>2. x \in Resource /\ home[x] = req[s].dir /\ home[x] # None /\ Sole \in Tenant
  BY <1>1, About, SyncAssumption DEF IdOps, OnlyTenant
<1>3. Living(x) => Rec(x) # None
  BY <1>1, <1>2, Known, LivingHome DEF StillHolds, On
<1>. QED
  BY <1>1, <1>2, <1>3, RecordFollows DEF OnlyRec, Touches

LEMMA DeleteFollows ==
  ASSUME SyncInv, OnlyTenant, NEW s \in Slot, Delete(s)
  PROVE  AllFollow
<1>0. PICK x : x = req[s].x
  OBVIOUS
<1>1. /\ dir' = dir /\ member' = member /\ home' = home /\ told' = told /\ links' = links
      /\ quiet' = quiet /\ pc[s] = "delete" /\ pc[s] # "idle" /\ req[s].op = "delete" /\ OnlyRec(x)
      /\ x = req[s].x /\ rec'[Sole][x] = None
  BY <1>0, DeleteStep
<1>2. x \in Resource /\ Sole \in Tenant
  BY <1>1, About DEF IdOps, OnlyTenant
<1>. QED
  BY <1>1, <1>2, RecordFollows DEF OnlyRec, Touches

\* The event tells what is stored.
LEMMA EventFollows ==
  ASSUME SyncInv, OnlyTenant, NEW s \in Slot, Event(s)
  PROVE  AllFollow
<1>1. /\ dir' = dir /\ rec' = rec /\ member' = member /\ home' = home /\ quiet' = quiet
      /\ pc[s] = "event" /\ ~Gone(req[s].dir) /\ req[s].op \in {"create"} \cup IdOps
      /\ req[s].op \in {"add", "remove"} => told' = told
      /\ req[s].op \notin {"add", "remove"} =>
           /\ told'[req[s].x] = req[s].label
           /\ \A x \in Resource : x # req[s].x => told'[x] = told[x]
      /\ \A g \in Group, u \in User :
           /\ req[s].op = "add" =>
                (<<g, u>> \in links' <=> <<g, u>> \in links \/ (g = req[s].x /\ u \in page[s]))
           /\ req[s].op = "remove" =>
                (<<g, u>> \in links' <=> <<g, u>> \in links /\ ~(g = req[s].x /\ u \in page[s]))
           /\ req[s].op = "delete" =>
                (<<g, u>> \in links' <=> <<g, u>> \in links /\ req[s].x # g /\ req[s].x # u)
           /\ req[s].op \in {"create", "update"} => (<<g, u>> \in links' <=> <<g, u>> \in links)
      /\ Sole' = Sole
  BY EventStep DEF Sole
<1>2. AskFits(s) /\ StillHolds(s) /\ req[s].op # "drop"
  BY <1>1, Known DEF IdOps
<1>3. \A x \in Resource : LabelOf(x)' = LabelOf(x)
  BY <1>1 DEF LabelOf, Rec
<1>4. \A g \in Group, u \in User : In(g, u)' <=> In(g, u)
  BY <1>1 DEF In, Rec
<1>5. ASSUME NEW x \in Resource PROVE ItemFollows(x)
  <2>1. CASE req[s].op \in {"add", "remove"} \/ x # req[s].x
    BY <1>1, <1>3, <2>1 DEF ItemFollows, Follows
  <2>2. CASE req[s].op = "delete" /\ x = req[s].x
    <3>1. told'[x] = None /\ Rec(x) = None
      BY <1>1, <1>2, <2>2 DEF AskFits, StillHolds, On
    <3>. QED
      BY <1>3, <3>1 DEF ItemFollows, Follows, LabelOf
  <2>3. CASE req[s].op \in {"create", "update"} /\ x = req[s].x
    <3>1. told'[x] = req[s].label /\ Rec(x) # None /\ Rec(x).label = req[s].label
      BY <1>1, <1>2, <2>3 DEF StillHolds, On
    <3>. QED
      BY <1>3, <3>1 DEF ItemFollows, Follows, LabelOf
  <2>. QED
    BY <1>1, <2>1, <2>2, <2>3 DEF IdOps
<1>6. ASSUME NEW g \in Group, NEW u \in User PROVE LinkFollows(g, u)
  <2>1. CASE req[s].op \in {"create", "update"}
    BY <1>1, <1>4, <2>1 DEF LinkFollows, Follows, In
  <2>2. CASE req[s].op = "delete" /\ req[s].x \notin {g, u}
    BY <1>1, <1>4, <2>2 DEF LinkFollows, Follows, In
  <2>3. CASE req[s].op = "delete" /\ req[s].x \in {g, u}
    <3>1. Rec(req[s].x) = None
      BY <1>1, <1>2, <2>3 DEF StillHolds, On
    <3>2. ~In(g, u) /\ <<g, u>> \notin links'
      BY <1>1, <2>3, <3>1 DEF In
    <3>. QED
      BY <1>4, <3>2 DEF LinkFollows, Follows, In
  <2>4. CASE req[s].op \in {"add", "remove"} /\ ~(g = req[s].x /\ u \in page[s])
    BY <1>1, <1>4, <2>4 DEF LinkFollows, Follows, In
  <2>5. CASE req[s].op \in {"add", "remove"} /\ g = req[s].x /\ u \in page[s]
    <3>1. In(g, u) <=> req[s].op = "add"
      BY <1>1, <1>2, <2>5 DEF StillHolds, On, In
    <3>2. <<g, u>> \in links' <=> req[s].op = "add"
      BY <1>1, <2>5
    <3>. QED
      BY <1>4, <3>1, <3>2 DEF LinkFollows, Follows, In
  <2>. QED
    BY <1>1, <2>1, <2>2, <2>3, <2>4, <2>5 DEF IdOps
<1>. QED
  BY <1>5, <1>6 DEF AllFollow

LEMMA StepFollows ==
  ASSUME SyncInv, OnlyTenant, [Next]_vars
  PROVE  AllFollow
<1>1. CASE UNCHANGED vars
  BY <1>1, StaysFollow DEF vars, webhookVars
<1>2. ASSUME NEW s \in Slot, Step(s) PROVE AllFollow
  <2>1. CASE Lookup(s) \/ Search(s) \/ Check(s) \/ Purge(s) \/ TakeMember(s) \/ Whom(s)
             \/ NoEvent(s) \/ DropConfig(s) \/ DropGroups(s) \/ DropUsers(s)
    BY <2>1, StaysFollow DEF Lookup, Search, Check, Purge, TakeMember, Whom, NoEvent,
       DropConfig, DropGroups, DropUsers, webhookVars
  <2>. QED
    BY <1>2, <2>1, UnlinkFollows, LinkFollow, DropPageFollows, PutNewFollows, PutAgainFollows,
       DeleteFollows, EventFollows DEF Step
<1>3. ASSUME NEW s \in Slot, Start(s) \/ StartDrop(s) PROVE AllFollow
  BY <1>3, StaysFollow DEF Start, StartDrop, webhookVars
<1>4. ASSUME NEW d \in Directory, Deactivate(d) PROVE AllFollow
  BY <1>4, StaysFollow DEF Deactivate, webhookVars
<1>. QED
  BY <1>1, <1>2, <1>3, <1>4 DEF Next

\* What the webhook does not know as it is, a request has yet to tell.
LEMMA UntoldConcerned ==
  ASSUME SyncInv
  PROVE  /\ \A x \in Resource : Living(x) /\ told[x] # LabelOf(x) => x \in Busy
         /\ \A g \in Group, u \in User :
              Living(g) /\ Living(u) /\ ~(<<g, u>> \in links <=> In(g, u)) =>
                g \in Busy \/ u \in Busy
<1>1. \A x \in Resource : Untold(x) \/ Deleting(x) => x \in Busy
  BY DEF Untold, Tells, Deleting, Deletes, On, Busy, Touches
<1>2. \A g \in Group, u \in User : Linking(g, u) => g \in Busy
  BY DEF Linking, Links, On, Busy, Touches
<1>. QED
  BY <1>1, <1>2 DEF SyncInv, ToldInv, LinksInv, LinkFits, Resource

-----------------------------------------------------------------------------
\* The items of the feed in the terms of the invariant.
ContentFits ==
  /\ \A x \in Resource : Content[x] = LabelOf(x) /\ Told[x] = told[x]
  /\ \A g \in Group, u \in User :
       /\ Content[<<g, u>>] = (IF In(g, u) THEN "in" ELSE None)
       /\ Told[<<g, u>>] = (IF <<g, u>> \in links THEN "in" ELSE None)

\* The items are resources and memberships.
LEMMA Items ==
  /\ \A x \in Resource : x \in Item
  /\ \A g \in Group, u \in User :
       <<g, u>> \in Item /\ <<g, u>> \notin Resource /\ g \in Resource /\ u \in Resource
  /\ \A i \in Item : i \in Resource \/ \E g \in Group, u \in User : i = <<g, u>>
BY SyncAssumption DEF Item, Resource

\* What is stored of each item.
LEMMA ContentFit == ASSUME OnlyTenant PROVE SyncInv => ContentFits
<1> SUFFICES ASSUME SyncInv PROVE ContentFits
  OBVIOUS
<1>1. Sole \in Tenant /\ \A d \in Directory : TenantOf[d] = Sole
  BY DEF OnlyTenant
<1>2. home \in [Resource -> Directory \cup {None}]
  BY TypeSplits DEF SyncInv
<1>3. ASSUME NEW x \in Resource PROVE Own(x) = Rec(x) /\ (home[x] = None => Rec(x) = None)
  <2>1. CASE home[x] = None
    BY <1>1, <2>1, NotGiven DEF Own, Rec
  <2>2. CASE home[x] # None
    BY <1>1, <1>2, <2>2 DEF Own, Rec
  <2>. QED
    BY <2>1, <2>2
<1>4. ASSUME NEW x \in Resource PROVE Content[x] = LabelOf(x) /\ Told[x] = told[x]
  BY <1>3, Items DEF Content, Told, LabelOf
<1>5. ASSUME NEW g \in Group, NEW u \in User
      PROVE  /\ Content[<<g, u>>] = (IF In(g, u) THEN "in" ELSE None)
             /\ Told[<<g, u>>] = (IF <<g, u>> \in links THEN "in" ELSE None)
  <2>1. <<g, u>> \in Item /\ <<g, u>> \notin Resource /\ g \in Resource /\ u \in Resource
    BY Items
  <2>2. Told[<<g, u>>] = (IF <<g, u>> \in links THEN "in" ELSE None)
    BY <2>1 DEF Told
  <2>3. Content[<<g, u>>] =
          (IF /\ Own(g) # None /\ Own(u) # None
              /\ <<TenantOf[home[g]], g, u>> \in member THEN "in" ELSE None)
    BY <2>1 DEF Content
  <2>4. Own(g) = Rec(g) /\ Own(u) = Rec(u)
    BY <1>3, <2>1
  <2>5. Rec(g) # None => TenantOf[home[g]] = Sole
    BY <1>1, <1>2, <1>3, <2>1
  <2>. QED
    BY <2>2, <2>3, <2>4, <2>5 DEF In
<1>. QED
  BY <1>4, <1>5 DEF ContentFits

LEMMA ContentTyped ==
  ASSUME OnlyTenant, SyncInv
  PROVE  Content \in [Item -> Label \cup {"in", None}]
<1>1. ContentFits
  BY ContentFit
<1>2. rec \in [Tenant -> [Resource -> Entry \cup {None}]] /\ Sole \in Tenant
  BY TypeSplits DEF SyncInv, OnlyTenant
<1>3. ASSUME NEW x \in Resource PROVE LabelOf(x) \in Label \cup {"in", None}
  BY <1>2 DEF LabelOf, Rec, Entry
<1>4. ASSUME NEW i \in Item PROVE Content[i] \in Label \cup {"in", None}
  <2>1. CASE i \in Resource
    BY <1>1, <1>3, <2>1 DEF ContentFits
  <2>2. ASSUME NEW g \in Group, NEW u \in User, i = <<g, u>>
        PROVE  Content[i] \in Label \cup {"in", None}
    BY <1>1, <2>2 DEF ContentFits
  <2>. QED
    BY <2>1, <2>2, Items
<1>5. Content = [i \in Item |-> Content[i]]
  BY DEF Content
<1>. QED
  BY <1>4, <1>5

\* At first there is nothing to tell.
LEMMA FeedInit ==
  ASSUME OnlyTenant, Init
  PROVE  Feed!Init
<1>1. SyncInv
  BY InitKeeps
<1>2. /\ \A s \in Slot : pc[s] = "idle"
      /\ \A t \in Tenant, x \in Resource : rec[t][x] = None
      /\ \A x \in Resource : home[x] = None /\ told[x] = None
      /\ member = {} /\ links = {} /\ Sole \in Tenant
  BY DEF Init, OnlyTenant
<1>3. ContentFits
  BY <1>1, ContentFit
<1>4. Told = Content
  <2>1. ASSUME NEW i \in Item PROVE Told[i] = Content[i]
    <3>1. CASE i \in Resource
      BY <1>2, <1>3, <3>1 DEF ContentFits, LabelOf, Rec
    <3>2. ASSUME NEW g \in Group, NEW u \in User, i = <<g, u>> PROVE Told[i] = Content[i]
      BY <1>2, <1>3, <3>2 DEF ContentFits, In
    <3>. QED
      BY <3>1, <3>2, Items
  <2>2. Told = [i \in Item |-> Told[i]] /\ Content = [i \in Item |-> Content[i]]
    BY DEF Told, Content
  <2>. QED
    BY <2>1, <2>2
<1>5. Concerned = {}
  <2>1. Busy = {}
    BY <1>2 DEF Busy
  <2>. QED
    BY <2>1 DEF Concerned
<1>6. Open = Item
  <2>1. \A x \in Resource : Living(x)
    BY <1>2 DEF Living
  <2>2. ASSUME NEW i \in Item PROVE i \in Open
    <3>1. CASE i \in Resource
      BY <2>1, <3>1 DEF Open
    <3>2. ASSUME NEW g \in Group, NEW u \in User, i = <<g, u>> PROVE i \in Open
      BY <2>1, <3>2, Items DEF Open
    <3>. QED
      BY <3>1, <3>2, Items
  <2>. QED
    BY <2>2 DEF Open
<1>. QED
  BY <1>1, <1>4, <1>5, <1>6, ContentTyped DEF Feed!Init

\* No item comes back to life.
LEMMA LivingShrinks ==
  ASSUME SyncInv, OnlyTenant, [Next]_vars
  PROVE  \A x \in Resource : Living(x)' => Living(x)
<1>1. home \in [Resource -> Directory \cup {None}]
  BY TypeSplits DEF SyncInv
<1>2. HomeStays /\ GoneStays
  <2>1. CASE home' = home /\ dir' = dir
    BY <2>1 DEF HomeStays, GoneStays, Gone
  <2>2. ASSUME NEW s \in Slot, PutNew(s) PROVE HomeStays /\ GoneStays
    BY <2>2, PutNewStep DEF HomeStays, GoneStays, Gone
  <2>3. ASSUME NEW s \in Slot, DropConfig(s) PROVE HomeStays /\ GoneStays
    BY <2>3, DropConfigStep DEF HomeStays, GoneStays, Gone
  <2>4. ASSUME NEW d \in Directory, Deactivate(d) PROVE HomeStays /\ GoneStays
    BY <2>4, DeactivateStep DEF HomeStays, GoneStays
  <2>5. ASSUME NEW s \in Slot, Step(s), ~PutNew(s), ~DropConfig(s)
        PROVE  home' = home /\ dir' = dir
    BY <2>5 DEF Step, Lookup, Search, PutAgain, Check, Delete, Purge, Unlink, TakeMember, Link,
       Whom, Event, NoEvent, DropGroups, DropUsers, DropPage
  <2>6. ASSUME NEW s \in Slot, Start(s) \/ StartDrop(s) PROVE home' = home /\ dir' = dir
    BY <2>6 DEF Start, StartDrop
  <2>7. UNCHANGED vars => home' = home /\ dir' = dir
    BY DEF vars
  <2>. QED
    BY <2>1, <2>2, <2>3, <2>4, <2>5, <2>6, <2>7 DEF Next
<1>. QED
  BY <1>1, <1>2 DEF HomeStays, GoneStays, Living, Gone

\* A step of directory sync is one of the feed, or changes nothing in it.
LEMMA FeedStep ==
  ASSUME OnlyTenant, SyncInv, [Next]_vars, SyncInv', ContentFits, ContentFits',
         (\A x \in Resource : Living(x) /\ told[x] # LabelOf(x) => x \in Busy)',
         (\A g \in Group, u \in User :
            Living(g) /\ Living(u) /\ ~(<<g, u>> \in links <=> In(g, u)) =>
              g \in Busy \/ u \in Busy)'
  PROVE  Feed!Next
<1>1. AllFollow
  BY StepFollows
<1>2. \A x \in Resource : Living(x)' => Living(x)
  BY LivingShrinks
<1>3. Open' \subseteq Open
  <2>1. ASSUME NEW i \in Open' PROVE i \in Open
    <3>1. CASE i \in Resource
      BY <1>2, <2>1, <3>1 DEF Open
    <3>2. CASE i \notin Resource
      BY <1>2, <2>1, <3>2, Items DEF Open
    <3>. QED
      BY <3>1, <3>2
  <2>. QED
    BY <2>1
<1>4. ASSUME NEW i \in Open'
      PROVE  /\ \/ Content'[i] = Content[i] /\ Told'[i] = Told[i]
                \/ Told[i] = Content[i] /\ Told'[i] = Told[i]
                \/ Told'[i] = Content'[i] /\ Content'[i] = Content[i]
             /\ Content'[i] # Told'[i] => i \in Concerned'
  <2>1. CASE i \in Resource
    <3>1. Living(i)' /\ i \in Item
      BY <1>4, <2>1 DEF Open
    <3>2. /\ Content[i] = LabelOf(i) /\ Told[i] = told[i]
          /\ Content'[i] = LabelOf(i)' /\ Told'[i] = told'[i]
      BY <2>1 DEF ContentFits
    <3>3. Follows(LabelOf(i), LabelOf(i)', told[i], told'[i])
      BY <1>1, <2>1, <3>1 DEF AllFollow, ItemFollows
    <3>4. Content'[i] # Told'[i] => i \in Concerned'
      BY <2>1, <3>1, <3>2 DEF Concerned
    <3>. QED
      BY <3>2, <3>3, <3>4 DEF Follows
  <2>2. ASSUME NEW g \in Group, NEW u \in User, i = <<g, u>>
        PROVE  /\ \/ Content'[i] = Content[i] /\ Told'[i] = Told[i]
                  \/ Told[i] = Content[i] /\ Told'[i] = Told[i]
                  \/ Told'[i] = Content'[i] /\ Content'[i] = Content[i]
               /\ Content'[i] # Told'[i] => i \in Concerned'
    <3>1. Living(g)' /\ Living(u)' /\ i \in Item /\ i \notin Resource
      BY <1>4, <2>2, Items DEF Open
    <3>2. /\ Content[i] = (IF In(g, u) THEN "in" ELSE None)
          /\ Told[i] = (IF <<g, u>> \in links THEN "in" ELSE None)
          /\ Content'[i] = (IF In(g, u)' THEN "in" ELSE None)
          /\ Told'[i] = (IF <<g, u>> \in links' THEN "in" ELSE None)
      BY <2>2 DEF ContentFits
    <3>3. \/ (In(g, u)' <=> In(g, u)) /\ (<<g, u>> \in links' <=> <<g, u>> \in links)
          \/ (<<g, u>> \in links <=> In(g, u)) /\ (<<g, u>> \in links' <=> <<g, u>> \in links)
          \/ (<<g, u>> \in links' <=> In(g, u)') /\ (In(g, u)' <=> In(g, u))
      BY <1>1, <3>1 DEF AllFollow, LinkFollows, Follows, In
    <3>4. Content'[i] # Told'[i] => i \in Concerned'
      BY <2>2, <3>1, <3>2 DEF Concerned
    <3>. QED
      BY <3>2, <3>3, <3>4
  <2>3. i \in Item
    BY <1>4 DEF Open
  <2>. QED
    BY <2>1, <2>2, <2>3, Items
<1>. QED
  BY <1>3, <1>4 DEF Feed!Next, Feed!Change, Feed!Tell

\* The webhook follows the store (WebhookFollowsStore): directory sync, as it
\* runs, implements the feed it promises.
THEOREM WebhookIsFed == ASSUME OnlyTenant PROVE Spec => WebhookFollowsStore
<1>1. Init => Feed!Init
  BY FeedInit
<1>2. SyncInv => /\ ContentFits
                 /\ \A x \in Resource : Living(x) /\ told[x] # LabelOf(x) => x \in Busy
                 /\ \A g \in Group, u \in User :
                      Living(g) /\ Living(u) /\ ~(<<g, u>> \in links <=> In(g, u)) =>
                        g \in Busy \/ u \in Busy
  BY ContentFit, UntoldConcerned
<1>3. SyncInv' => /\ ContentFits'
                  /\ (\A x \in Resource : Living(x) /\ told[x] # LabelOf(x) => x \in Busy)'
                  /\ (\A g \in Group, u \in User :
                       Living(g) /\ Living(u) /\ ~(<<g, u>> \in links <=> In(g, u)) =>
                         g \in Busy \/ u \in Busy)'
  BY <1>2, PTL
<1>4. SyncInv /\ SyncInv' /\ [Next]_vars => [Feed!Next]_(Feed!vars)
  BY <1>2, <1>3, FeedStep
<1>. QED
  BY <1>1, <1>4, SyncInvariant, PTL DEF Spec, WebhookFollowsStore, Feed!Spec

(***************************************************************************)
(* "Get users from a directory" (Users.ts:172) holds as long as all        *)
(* directories are of one tenant: it is the tenant that requests share,    *)
(* and nothing else, that makes a user be stored out of its directory's    *)
(* sight (Base.ts:24).                                                     *)
(***************************************************************************)
THEOREM OneTenantIsListed == ASSUME OnlyTenant PROVE Spec => []UsersListed
<1>1. SyncInv => UsersListed
  <2> SUFFICES ASSUME SyncInv, NEW u \in User, told[u] # None, u \notin Busy, Living(u)
               PROVE  Own(u) # None /\ Own(u).index # None
    BY DEF UsersListed
  <2>1. told[u] = LabelOf(u)
    BY UntoldConcerned DEF Resource
  <2>2. Rec(u) # None
    BY <2>1 DEF LabelOf
  <2>3. home[u] \in Directory /\ (Findable(home[u]) => Rec(u).index # None)
    BY <2>2 DEF SyncInv, RecordInv, Rec, OnlyTenant, Resource
  <2>4. home[u] # None /\ Findable(home[u])
    BY <2>3, SyncAssumption DEF Living, Findable, Gone
  <2>. QED
    BY <2>2, <2>3, <2>4 DEF Own, Rec, OnlyTenant
<1>. QED
  BY <1>1, SyncInvariant, PTL

-----------------------------------------------------------------------------
(***************************************************************************)
(* Side by side, whatever part a behaviour is of, both keep their types:   *)
(* what each stores is whole and filed where it belongs, for any number of *)
(* directories of one tenant (Base.ts:14-31, DirectoryConfig.ts:87-330).   *)
(***************************************************************************)
THEOREM PartsTyped ==
  ASSUME OnlyTenant, RecordsAssumption
  PROVE  DirectoriesSpec => []PartTypeOK
<1>1. DirectoriesInit => part \in {"scim", "records"} /\ Init /\ RecordsInit
  BY DEF DirectoriesInit
<1>2. [DirectoriesNext]_<<part, vars, recordsVars>> =>
        [Next]_vars /\ [RecordsNext]_recordsVars
  BY DEF DirectoriesNext
<1>3. DirectoriesSpec => Spec /\ RecordsSpec
  BY <1>1, <1>2, PTL DEF DirectoriesSpec, Spec, RecordsSpec
<1>. QED
  BY <1>3, SyncTyped, TypeCorrect, PTL DEF PartTypeOK
=============================================================================
