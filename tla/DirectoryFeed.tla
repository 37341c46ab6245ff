--------------------------- MODULE DirectoryFeed ---------------------------
(***************************************************************************)
(* What directory sync promises an application: its picture of the         *)
(* directories, kept from the webhook's events, follows every item (user,  *)
(* group, membership) of the store change by change.  No change is told    *)
(* before it is made or after the next one, and once the requests on an    *)
(* item are answered, the application knows the item as it is.             *)
(***************************************************************************)
CONSTANTS Item, Value

VARIABLES
  content,  \* what the store holds for each item
  told,     \* what the webhook has been told of it
  busy,     \* the items that a request under way is about
  open      \* the items of directories that have not been deleted

vars == <<content, told, busy, open>>

Init ==
  /\ content \in [Item -> Value]
  /\ told = content
  /\ busy = {}
  /\ open = Item

\* An item changes only when its last change has been told ...
Change(i) == told[i] = content[i] /\ told'[i] = told[i]

\* ... and then that change is told.
Tell(i) == told'[i] = content[i] /\ content'[i] = content[i]

\* Deleting a directory closes its items: the webhook hears of the directory
\* as a whole, and no more of them.
Next ==
  /\ open' \subseteq open
  /\ \A i \in open' :
       /\ content'[i] # content[i] \/ told'[i] # told[i] => Change(i) \/ Tell(i)
       /\ content'[i] # told'[i] => i \in busy'

Spec == Init /\ [][Next]_vars
=============================================================================
