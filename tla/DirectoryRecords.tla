---------------------------- MODULE DirectoryRecords ----------------------------
(***************************************************************************)
(* The records of directories (npm/src/directory-sync/scim/DirectoryConfig *)
(* .ts): created, updated and deleted by the administrators' API and by    *)
(* the portal of a setup link, and given the tokens that Google grants     *)
(* (non-scim/google/oauth.ts).  Requests of the directory's provider store *)
(* users, groups and logs meanwhile; here only whether there are any.  A   *)
(* step is one request to the store, to Google or to the webhook; any of   *)
(* them may fail.                                                          *)
(***************************************************************************)
EXTENDS Absence, Naturals

CONSTANTS
  DirectoryId, Caller,
  Grant,        \* tokens that Google may grant
  MaxCalls, MaxFaults   \* calls made and failures (bounds)

Kept == {"groups", "users", "logs"}
Record == [whole : BOOLEAN,      \* has it more than what updates put?
           active : BOOLEAN, webhook : BOOLEAN, grant : Grant \cup {None}]
Empty == [whole |-> FALSE, active |-> TRUE, webhook |-> FALSE, grant |-> None]
New == [Empty EXCEPT !.whole = TRUE]

Change == {[of |-> "active", to |-> b] : b \in BOOLEAN} \cup {[of |-> "webhook", to |-> b] : b \in BOOLEAN}
Granted == {[of |-> "grant", to |-> g] : g \in Grant}
With(record, change) ==
  CASE change.of = "active" -> [record EXCEPT !.active = change.to]
    [] change.of = "webhook" -> [record EXCEPT !.webhook = change.to]
    [] change.of = "grant" -> [record EXCEPT !.grant = change.to]

Call == [op : {"create", "update", "authorize", "delete"}, on : DirectoryId,
         change : Change \cup Granted \cup {None},
         saved : Record \cup {None},      \* the record as read or as put
         at : {"get", "grant", "read", "put", "config", "notify"} \cup Kept]

\* What is assumed of the constants, by the modules that instantiate this one.
RecordsAssumption ==
  None \notin Record \cup Call /\ MaxCalls \in Nat /\ MaxFaults \in Nat

VARIABLES
  config,    \* config[d]: the stored record, or None
  listed,    \* directories found by tenant and product, or by provider
  kept,      \* what is stored for directories besides
  serving,   \* directories that a request of a provider has found active
  call,      \* the call each caller has under way, or None
  calls, faults,   \* numbers of calls and of failures
  born,      \* directories created, whose ids are therefore known
  heard,     \* history: what the webhook was last told of a directory
  want,      \* history: the settings last put, one by one
  crossed,   \* history: directories where an update met another or a deletion,
  unheard,   \* those where events may be missing or out of order,
  abandoned  \* and those of which something may be left

history == <<heard, want, crossed, unheard, abandoned>>
recordsVars == <<config, listed, kept, serving, call, calls, faults, born, history>>

RecordsTypeOK ==
  /\ config \in [DirectoryId -> Record \cup {None}]
  /\ listed \subseteq {d \in born : config[d] # None}
  /\ kept \subseteq born \X Kept /\ serving \subseteq born
  /\ call \in [Caller -> Call \cup {None}]
  /\ calls \in 0..MaxCalls /\ faults \in 0..MaxFaults
  /\ heard \in [DirectoryId -> {"gone", "active", "inactive"}] /\ want \in [DirectoryId -> Record]
  /\ born \subseteq DirectoryId
  /\ crossed \cup unheard \cup abandoned \subseteq born

RecordsInit ==
  /\ config = [d \in DirectoryId |-> None] /\ listed = {} /\ kept = {} /\ serving = {}
  /\ call = [p \in Caller |-> None]
  /\ calls = 0 /\ faults = 0 /\ born = {}
  /\ heard = [d \in DirectoryId |-> "gone"] /\ want = [d \in DirectoryId |-> New]
  /\ crossed = {} /\ unheard = {} /\ abandoned = {}

-----------------------------------------------------------------------------
At(p, label) == call[p] # None /\ call[p].at = label
Move(p, c) == call' = [call EXCEPT ![p] = c]
Continue(p, label) == Move(p, [call[p] EXCEPT !.at = label])
Ends(p) == Move(p, None)
Frame == UNCHANGED <<serving, calls, born>>
NoFault == UNCHANGED faults
Whole(d) == config[d] # None /\ config[d].whole

\* Other calls on the directory of p that are at one of some places.
Meets(p, places) == \E q \in Caller \ {p} :
  call[q] # None /\ call[q].on = call[p].on /\ call[q].at \in places
Mark(set, p, is) == IF is THEN set \cup {call[p].on} ELSE set
\* Calls that have changed a record and not yet told the webhook.
Telling == Kept \cup {"notify"}

\* A call arrives.  A new directory has an id of its own; the others are known.
Arrive(p, op, d, change, label) ==
  /\ call[p] = None /\ calls < MaxCalls /\ calls' = calls + 1
  /\ Move(p, [op |-> op, on |-> d, change |-> change, saved |-> None, at |-> label])
  /\ NoFault /\ UNCHANGED <<config, listed, kept, serving, born, history>>

Begin(p) ==
  \/ \E d \in DirectoryId \ born :
       /\ \A q \in Caller : call[q] # None => call[q].on # d
       /\ Arrive(p, "create", d, None, "put")
  \/ \E d \in born, change \in Change : Arrive(p, "update", d, change, "read")
  \/ \E d \in born : Arrive(p, "authorize", d, None, "get") \/ Arrive(p, "delete", d, None, "get")

\* create: the record with its indexes.
PutRecord(p) ==
  LET d == call[p].on
  IN /\ At(p, "put") /\ call[p].op = "create"
     /\ config' = [config EXCEPT ![d] = New] /\ listed' = listed \cup {d}
     /\ born' = born \cup {d}
     /\ Move(p, [call[p] EXCEPT !.at = "notify", !.saved = New])
     /\ NoFault /\ UNCHANGED <<kept, serving, calls, history>>

After_ConfigLast(label) == CASE label = "get" -> "groups" [] label = "groups" -> "users"
                             [] label = "users" -> "logs" [] label = "logs" -> "config"
                             [] label = "config" -> "notify"

\* The order of a deletion: the record with its indexes, then the groups (with
\* memberships), the users and the webhook's logs, each until none is found.
After(label) == CASE label = "get" -> "config" [] label = "config" -> "groups"
                  [] label = "groups" -> "users" [] label = "users" -> "logs"
                  [] label = "logs" -> "notify"

\* Deletions and authorizations start with get; one that finds nothing, or
\* less than a directory, is answered with an error.
GetDirectory(p) ==
  /\ At(p, "get")
  /\ IF Whole(call[p].on)
     THEN Continue(p, IF call[p].op = "delete" THEN After("get") ELSE "grant")
     ELSE Ends(p)
  /\ Frame /\ NoFault /\ UNCHANGED <<config, listed, kept, history>>

ExchangeCode_WritesOld(p) ==
  /\ At(p, "grant")
  /\ \E change \in Granted :
       Move(p, [call[p] EXCEPT !.change = change, !.saved = config[call[p].on],
                  !.at = IF config[call[p].on] = None THEN "read" ELSE "put"])
  /\ Frame /\ NoFault /\ UNCHANGED <<config, listed, kept, history>>

\* Google's answer to the code, which setToken puts like any update.
ExchangeCode(p) ==
  /\ At(p, "grant")
  /\ \E change \in Granted : Move(p, [call[p] EXCEPT !.change = change, !.at = "read"])
  /\ Frame /\ NoFault /\ UNCHANGED <<config, listed, kept, history>>

\* update reads the record again.  Where there is none it goes on with an
\* empty one, unless it has to change the webhook inside of it.
ReadSaved(p) ==
  LET d == call[p].on
      found == IF config[d] = None THEN Empty ELSE config[d]
  IN /\ At(p, "read")
     /\ IF ~found.whole /\ call[p].change.of = "webhook" THEN Ends(p)
        ELSE Move(p, [call[p] EXCEPT !.at = "put", !.saved = found])
     /\ crossed' = Mark(crossed, p, ~found.whole \/ Meets(p, {"put"}))
     /\ Frame /\ NoFault /\ UNCHANGED <<config, listed, kept, heard, want, unheard, abandoned>>

PutSaved_TellsOld(p) ==
  LET d == call[p].on
      record == With(call[p].saved, call[p].change)
      tells == call[p].change.of = "active" /\ record.whole
  IN /\ At(p, "put") /\ call[p].op # "create"
     /\ config' = [config EXCEPT ![d] = record]
     /\ IF tells THEN Continue(p, "notify") ELSE Ends(p)
     /\ want' = [want EXCEPT ![d] = With(@, call[p].change)]
     /\ unheard' = Mark(unheard, p, tells /\ Meets(p, Telling))
     /\ Frame /\ NoFault /\ UNCHANGED <<listed, kept, heard, crossed, abandoned>>

\* The record as read, with the change, whatever has happened to it; without
\* indexes, so those of a record that is still there stay.  The webhook hears
\* of it if the change says whether the directory is active.  Less than a
\* directory is put, but cannot be answered with.
PutSaved(p) ==
  LET d == call[p].on
      record == With(call[p].saved, call[p].change)
      tells == call[p].change.of = "active" /\ record.whole
  IN /\ At(p, "put") /\ call[p].op # "create"
     /\ config' = [config EXCEPT ![d] = record]
     /\ IF tells THEN Move(p, [call[p] EXCEPT !.at = "notify", !.saved = record]) ELSE Ends(p)
     /\ want' = [want EXCEPT ![d] = With(@, call[p].change)]
     /\ unheard' = Mark(unheard, p, tells /\ Meets(p, Telling))
     /\ Frame /\ NoFault /\ UNCHANGED <<listed, kept, heard, crossed, abandoned>>

DropRecord(p) ==
  LET d == call[p].on
  IN /\ At(p, "config")
     /\ config' = [config EXCEPT ![d] = None] /\ listed' = listed \ {d}
     /\ Continue(p, After("config"))
     /\ crossed' = Mark(crossed, p, Meets(p, {"put"}))
     /\ unheard' = Mark(unheard, p, Meets(p, Telling))
     /\ Frame /\ NoFault /\ UNCHANGED <<kept, heard, want, abandoned>>

DropContent(p) == \E k \in Kept :
  /\ At(p, k)
  /\ kept' = kept \ {<<call[p].on, k>>}
  /\ Continue(p, After(k))
  /\ Frame /\ NoFault /\ UNCHANGED <<config, listed, history>>

EventOf(p) == IF call[p].op = "delete" THEN "gone"
            ELSE IF call[p].saved.active THEN "active" ELSE "inactive"

Notify(p) ==
  /\ At(p, "notify")
  /\ heard' = [heard EXCEPT ![call[p].on] = EventOf(p)]
  /\ Ends(p)
  /\ Frame /\ NoFault /\ UNCHANGED <<config, listed, kept, want, crossed, unheard, abandoned>>

\* A request fails and its call ends with an error.  What it has done stays;
\* a deletion cannot be asked for again, for get finds no record.
Fail(p) ==
  /\ call[p] # None /\ faults < MaxFaults /\ faults' = faults + 1
  /\ Ends(p)
  /\ unheard' = Mark(unheard, p, call[p].at \in Telling)
  /\ abandoned' = Mark(abandoned, p, call[p].at \in Kept)
  /\ Frame /\ UNCHANGED <<config, listed, kept, heard, want, crossed>>

CallStep(p) ==
  \/ PutRecord(p) \/ GetDirectory(p) \/ ExchangeCode(p) \/ ReadSaved(p) \/ PutSaved(p)
  \/ DropRecord(p) \/ DropContent(p) \/ Notify(p) \/ Fail(p)

\* A request of the provider finds the directory and stores something later.
Serve(d) ==
  /\ Whole(d) /\ config[d].active /\ serving' = serving \cup {d}
  /\ UNCHANGED <<config, listed, kept, call, calls, faults, born, history>>

StoreLate(d, k) ==
  /\ d \in serving /\ serving' = serving \ {d}
  /\ kept' = kept \cup {<<d, k>>}
  /\ abandoned' = IF config[d] = None THEN abandoned \cup {d} ELSE abandoned
  /\ UNCHANGED <<config, listed, call, calls, faults, born, heard, want, crossed, unheard>>

RecordsNext ==
  \/ \E p \in Caller : Begin(p) \/ CallStep(p)
  \/ \E d \in DirectoryId : Serve(d) \/ \E k \in Kept : StoreLate(d, k)

RecordsSpec == RecordsInit /\ [][RecordsNext]_recordsVars

-----------------------------------------------------------------------------
(***************************************************************************)
(* Each setting of a directory is the one that was put last, as if it were *)
(* stored by itself: Google's consent takes its time and other settings    *)
(* change meanwhile, which setToken must not undo (google/oauth.ts:117).   *)
(* Updates whose own read and put overlap do undo each other.              *)
(***************************************************************************)
SettingsKept == \A d \in born \ crossed : Whole(d) => config[d] = want[d]

(***************************************************************************)
(* Every directory that is stored is found by its tenant and product       *)
(* (DirectoryConfig.ts:534) and is a whole one, which all listings need    *)
(* (:631), unless an update met a deletion or came after it.               *)
(***************************************************************************)
StoredIsListed == \A d \in born \ crossed : config[d] # None => d \in listed /\ Whole(d)

(***************************************************************************)
(* Groups, users and logs outlive their directory only where a request     *)
(* failed that would have deleted them, or stored them too late            *)
(* (DirectoryConfig.ts:611-621).                                           *)
(***************************************************************************)
LeftByFailureOnly == \A e \in kept :
  config[e[1]] = None =>
    \/ e[1] \in abandoned
    \/ \E p \in Caller : call[p] # None /\ call[p].on = e[1] /\ call[p].at \in Kept

(***************************************************************************)
(* A directory is stored, and deleted, as a whole.                         *)
(***************************************************************************)
StoredAsAWhole == StoredIsListed /\ LeftByFailureOnly

(***************************************************************************)
(* When nothing is left to tell, the webhook knows whether a directory is  *)
(* there and active, unless its events crossed or one of them failed       *)
(* (DirectoryConfig.ts:316, 484-489, 623).                                 *)
(***************************************************************************)
EventsFollow == \A d \in born \ (crossed \cup unheard) :
  (\A p \in Caller : call[p] # None /\ call[p].on = d => call[p].at \notin Telling) =>
    heard[d] = IF config[d] = None THEN "gone" ELSE IF config[d].active THEN "active" ELSE "inactive"
=============================================================================
