--------------------------- MODULE ServiceCatalog ---------------------------
(***************************************************************************)
(* The service catalog: ServiceCatalogService's create, update and delete  *)
(* on one table, whose index on the name is unique over active and         *)
(* inactive items alike.  A name is looked up before it is written, an     *)
(* item is read, changed in memory and saved, each in a statement of its   *)
(* own and without a lock.                                                 *)
(*                                                                         *)
(* The lookup and the index compare names as the collation of the database *)
(* does, the service compares them exactly.  The price stands for the      *)
(* columns that are neither looked up nor indexed; a request that fails    *)
(* its validation changes nothing and is left out.                         *)
(***************************************************************************)
EXTENDS Naturals

CONSTANTS
  Client,        (* requests that may be in flight at once                 *)
  Item,          (* ids that randomUUID may return                         *)
  Name, Price,   (* valid names, trimmed, and valid prices                 *)
  Fold(_),       (* what the collation compares of a name                  *)
  MaxRequests,   (* bound on the requests                                  *)
  NULL

ASSUME CatalogAssumption ==
  MaxRequests \in Nat /\ NULL \notin Item \cup Name \cup Price

VARIABLES
  items,      (* service_catalog_items: a row for each id, or NULL         *)
  request,    (* what each client asks, or NULL                            *)
  phase,      (* the statement its request awaits                          *)
  entity,     (* its ServiceCatalogItem in memory                          *)
  loaded,     (* the row that its save has loaded again                    *)
  requests,   (* requests so far                                           *)
  asked,      (* history: each item as the saved requests meant it         *)
  overlapped  (* history: the items on which requests have overlapped      *)

work == <<request, phase, entity, loaded>>
history == <<requests, asked, overlapped>>
vars == <<items, work, history>>

ItemRow == [name : Name, price : Price, active : BOOLEAN]

Create == [kind : {"create"}, item : Item, name : Name, price : Price]
Update == [kind : {"update"}, item : Item, name : Name \cup {NULL}, price : Price \cup {NULL}]
Delete == [kind : {"delete"}, item : Item]

ASSUME AbsentAssumption == NULL \notin ItemRow \cup Create \cup Update \cup Delete

TypeOK ==
  /\ items \in [Item -> ItemRow \cup {NULL}]
  /\ request \in [Client -> Create \cup Update \cup Delete \cup {NULL}]
  /\ phase \in [Client -> {"idle", "lookUp", "reload", "write"}]
  /\ entity \in [Client -> ItemRow \cup {NULL}]
  /\ loaded \in [Client -> ItemRow \cup {NULL}]
  /\ \A c \in Client : (phase[c] = "idle") = (request[c] = NULL)
  /\ requests \in Nat
  /\ asked \in [Item -> ItemRow \cup {NULL}]
  /\ overlapped \subseteq Item

Init ==
  /\ items = [i \in Item |-> NULL]
  /\ request = [c \in Client |-> NULL]
  /\ phase = [c \in Client |-> "idle"]
  /\ entity = [c \in Client |-> NULL]
  /\ loaded = [c \in Client |-> NULL]
  /\ requests = 0
  /\ asked = [i \in Item |-> NULL]
  /\ overlapped = {}

-----------------------------------------------------------------------------
InFlight == {c \in Client : request[c] # NULL}

(* A client's request arrives and has its first answer of the database.    *)
Start(c, r, row, next) ==
  /\ request[c] = NULL /\ requests < MaxRequests
  /\ requests' = requests + 1
  /\ request' = [request EXCEPT ![c] = r]
  /\ phase' = [phase EXCEPT ![c] = next]
  /\ entity' = [entity EXCEPT ![c] = row]
  /\ overlapped' = overlapped \cup {i \in {r.item} : \E d \in InFlight : request[d].item = i}
  /\ UNCHANGED <<items, loaded, asked>>

End(c) ==
  /\ request' = [request EXCEPT ![c] = NULL]
  /\ phase' = [phase EXCEPT ![c] = "idle"]
  /\ entity' = [entity EXCEPT ![c] = NULL]
  /\ loaded' = [loaded EXCEPT ![c] = NULL]

(* findByName: active or not, an item has the name.                        *)
IsTaken(name) == \E i \in Item : items[i] # NULL /\ Fold(items[i].name) = Fold(name)

(* Seeded fault of IndexRefuses: the index is not unique.                  *)
NeverRefuses(i, name) == FALSE

(* The unique index, when item i is written with the name.                 *)
IndexRefuses(i, name) ==
  \E j \in Item \ {i} : items[j] # NULL /\ Fold(items[j].name) = Fold(name)

(* ServiceCatalogItem.create: an item is active.                           *)
NewItem(r) == [name |-> r.name, price |-> r.price, active |-> TRUE]

(* ServiceCatalogItem.deactivate.                                          *)
Deactivated(row) == [row EXCEPT !.active = FALSE]

(* create, when findByName has found nothing; what a request that finds    *)
(* the name does is to answer.                                             *)
FindFreeName(c, r) ==
  /\ items[r.item] = NULL /\ \A d \in InFlight : request[d].item # r.item
  /\ ~IsTaken(r.name)
  /\ Start(c, r, NewItem(r), "write")

(* Seeded faults of Updated: what the request leaves out is not kept; an   *)
(* updated item is active; the price is forgotten.                         *)
UpdatedWhole(row, r) == [row EXCEPT !.name = r.name, !.price = r.price]

UpdatedActive(row, r) ==
  [name |-> IF r.name = NULL THEN row.name ELSE r.name,
   price |-> IF r.price = NULL THEN row.price ELSE r.price, active |-> TRUE]

UpdatedName(row, r) == [row EXCEPT !.name = IF r.name = NULL THEN @ ELSE r.name]

(* ServiceCatalogItem.update.                                              *)
Updated(row, r) ==
  [row EXCEPT !.name = IF r.name = NULL THEN @ ELSE r.name,
              !.price = IF r.price = NULL THEN @ ELSE r.price]

(* update and delete, when findById has found the item, active or not.     *)
FindToUpdate(c, r) ==
  /\ items[r.item] # NULL
  /\ LET row == items[r.item]
     IN IF r.name \in {NULL, row.name} THEN Start(c, r, Updated(row, r), "reload")
        ELSE Start(c, r, row, "lookUp")

FindToDelete(c, r) ==
  /\ items[r.item] # NULL
  /\ Start(c, r, Deactivated(items[r.item]), "reload")

(* update's findByName, when the name changes.                             *)
FindNewName(c) ==
  /\ phase[c] = "lookUp"
  /\ IF IsTaken(request[c].name) THEN End(c)
     ELSE /\ entity' = [entity EXCEPT ![c] = Updated(@, request[c])]
          /\ phase' = [phase EXCEPT ![c] = "reload"]
          /\ UNCHANGED <<request, loaded>>
  /\ UNCHANGED <<items, history>>

(* Repository.save loads the row of an item it is to update ...            *)
Reload(c) ==
  /\ phase[c] = "reload"
  /\ loaded' = [loaded EXCEPT ![c] = items[request[c].item]]
  /\ phase' = [phase EXCEPT ![c] = "write"]
  /\ UNCHANGED <<items, request, entity, history>>

(* ... and writes the columns that differ; a price that is the same may be *)
(* written too, for the number is compared with the text of a decimal.     *)
SavedRows(current, before, after) ==
  LET changed == [col \in DOMAIN current |->
                    IF after[col] = before[col] THEN current[col] ELSE after[col]]
  IN {changed, [changed EXCEPT !.price = after.price]}

(* What the request means to do to the item.                               *)
Meant(row, r) ==
  CASE r.kind = "create" -> [name |-> r.name, price |-> r.price, active |-> TRUE]
    [] r.kind = "delete" -> [row EXCEPT !.active = FALSE]
    [] r.kind = "update" ->
         [col \in DOMAIN row |->
            IF col \in DOMAIN r /\ r[col] # NULL THEN r[col] ELSE row[col]]

Write(c) ==
  /\ phase[c] = "write"
  /\ LET r == request[c]
         i == r.item
         rows == IF r.kind = "create" THEN {entity[c]}
                 ELSE SavedRows(items[i], loaded[c], entity[c])
     IN \E row \in rows :
          IF IndexRefuses(i, row.name) THEN UNCHANGED <<items, asked>>
          ELSE /\ items' = [items EXCEPT ![i] = row]
               /\ asked' = [asked EXCEPT ![i] = Meant(@, r)]
  /\ End(c)
  /\ UNCHANGED <<requests, overlapped>>

(* The database refuses the next statement, or the replica dies.           *)
Fail(c) ==
  /\ request[c] # NULL
  /\ End(c)
  /\ UNCHANGED <<items, history>>

Next ==
  \E c \in Client :
    \/ \E r \in Create : FindFreeName(c, r)
    \/ \E r \in Update : FindToUpdate(c, r)
    \/ \E r \in Delete : FindToDelete(c, r)
    \/ FindNewName(c) \/ Reload(c) \/ Write(c) \/ Fail(c)

Spec == Init /\ [][Next]_vars

-----------------------------------------------------------------------------
(* No two items have names that the database cannot tell apart, whatever   *)
(* lookups the inserts and renames in between have made stale (create and  *)
(* update look up, then write).                                            *)
NamesAreDistinct ==
  \A i, j \in Item :
    items[i] # NULL /\ items[j] # NULL /\ Fold(items[i].name) = Fold(items[j].name) => i = j

(* A deactivated item is active again only when an update has overlapped   *)
(* with its deactivation and saved the item as it had read it (delete,     *)
(* update).                                                                *)
IsInactive(i) == items[i] # NULL /\ ~items[i].active

StaysDeactivated ==
  [][\A i \in Item : IsInactive(i) /\ ~IsInactive(i)' => i \in overlapped]_vars

(* Where requests on an item do not overlap, the item is what the saved    *)
(* ones asked for, one after the other (Repository.save writes the whole   *)
(* item or what has changed of it).                                        *)
NothingIsLost == \A i \in Item \ overlapped : items[i] = asked[i]
=============================================================================
