------------------------ MODULE ServiceCatalogProofs ------------------------
(***************************************************************************)
(* Proofs about the service catalog, for any number of clients and items,  *)
(* any names and prices, and whatever the collation compares of a name.    *)
(***************************************************************************)
EXTENDS ServiceCatalog, TLAPS

-----------------------------------------------------------------------------
(* What the operations on a row give.                                      *)

(* A changed item is an item.                                              *)
LEMMA ChangedIsRow ==
  ASSUME NEW row \in ItemRow
  PROVE  /\ \A r \in Update : Updated(row, r) \in ItemRow
         /\ Deactivated(row) \in ItemRow
  BY DEF Updated, Deactivated, Update, ItemRow

(* A new item is an item.                                                  *)
LEMMA NewIsRow == \A r \in Create : NewItem(r) \in ItemRow
  BY DEF NewItem, Create, ItemRow

(* What save writes is an item.                                            *)
LEMMA SavedIsRow ==
  ASSUME NEW current \in ItemRow, NEW before \in ItemRow, NEW after \in ItemRow,
         NEW row \in SavedRows(current, before, after)
  PROVE  row \in ItemRow
  BY DEF SavedRows, ItemRow

(* What save writes of an item that nobody has changed in between is what  *)
(* the request made of it.                                                 *)
LEMMA SavedIsEntity ==
  ASSUME NEW before \in ItemRow, NEW after \in ItemRow,
         NEW row \in SavedRows(before, before, after)
  PROVE  row = after
  BY DEF SavedRows, ItemRow

(* The service makes of an item what the request means.                    *)
LEMMA ServiceDoesWhatIsMeant ==
  /\ \A r \in Create : \A row : Meant(row, r) = NewItem(r)
  /\ \A r \in Update : \A row \in ItemRow : Meant(row, r) = Updated(row, r)
  /\ \A r \in Delete : \A row : Meant(row, r) = Deactivated(row)
<1>1. \A r \in Create : \A row : Meant(row, r) = NewItem(r)
  BY DEF Meant, NewItem, Create
<1>2. ASSUME NEW r \in Update, NEW row \in ItemRow PROVE Meant(row, r) = Updated(row, r)
  <2>1. Meant(row, r) =
          [col \in DOMAIN row |-> IF col \in DOMAIN r /\ r[col] # NULL THEN r[col] ELSE row[col]]
    BY DEF Meant, Update
  <2>2. DOMAIN row = {"name", "price", "active"} /\ DOMAIN r = {"kind", "item", "name", "price"}
    BY DEF ItemRow, Update
  <2> QED
    BY <2>1, <2>2 DEF Updated, ItemRow
<1>3. \A r \in Delete : \A row : Meant(row, r) = Deactivated(row)
  BY DEF Meant, Deactivated, Delete
<1> QED
  BY <1>1, <1>2, <1>3

-----------------------------------------------------------------------------
(* The inductive invariant, by parts.                                      *)

AsksFor(c, i) == request[c] # NULL /\ request[c].item = i

IsCreate(c) == request[c].kind = "create"

(* What a request has in memory when it reaches a statement; items are     *)
(* never deleted.                                                          *)
HasWhatItNeeds ==
  \A c \in Client :
    /\ request[c] # NULL => entity[c] \in ItemRow
    /\ phase[c] = "lookUp" => request[c] \in Update
    /\ phase[c] = "reload" => request[c] \in Update \cup Delete
    /\ request[c] # NULL /\ ~IsCreate(c) => items[request[c].item] \in ItemRow
    /\ phase[c] = "write" /\ ~IsCreate(c) => loaded[c] \in ItemRow

(* History and table know the same items.                                  *)
AskedExists == \A i \in Item : items[i] = NULL <=> asked[i] = NULL

(* Two requests on one item overlap.                                       *)
AloneUnlessOverlapped ==
  \A i \in Item : \A c, d \in Client :
    AsksFor(c, i) /\ AsksFor(d, i) /\ c # d => i \in overlapped

(* A request that is alone on its item works on the row that is there, and *)
(* has made of it what it means.                                           *)
WorksOnItsRow ==
  \A c \in Client :
    request[c] # NULL /\ request[c].item \notin overlapped =>
      LET r == request[c]
          row == items[r.item]
      IN /\ IsCreate(c) => row = NULL
         /\ phase[c] = "lookUp" => entity[c] = row
         /\ phase[c] # "lookUp" => entity[c] = Meant(row, r)
         /\ phase[c] = "write" /\ ~IsCreate(c) => loaded[c] = row

CatalogInv ==
  /\ TypeOK
  /\ HasWhatItNeeds
  /\ AskedExists
  /\ AloneUnlessOverlapped
  /\ WorksOnItsRow
  /\ NothingIsLost
  /\ NamesAreDistinct

-----------------------------------------------------------------------------
(* The first state satisfies every part.                                   *)
LEMMA InitEstablishesCatalogInv == Init => CatalogInv
  BY CatalogAssumption
  DEF Init, CatalogInv, TypeOK, HasWhatItNeeds, AskedExists, AloneUnlessOverlapped, AsksFor,
      WorksOnItsRow, NothingIsLost, NamesAreDistinct

(* A request starts with what it needs, and spoils nothing of the others.  *)
LEMMA StartKeepsCatalogInv ==
  ASSUME CatalogInv,
         NEW c \in Client, NEW r \in Create \cup Update \cup Delete, NEW row \in ItemRow,
         NEW next \in {"lookUp", "reload", "write"}, Start(c, r, row, next),
         next = "lookUp" => r \in Update /\ row = items[r.item],
         next = "reload" => r \in Update \cup Delete,
         next = "write" => r \in Create,
         next # "lookUp" => row = Meant(items[r.item], r),
         r \notin Create => items[r.item] \in ItemRow,
         r \in Create => items[r.item] = NULL
  PROVE  CatalogInv'
<1> USE AbsentAssumption
<1>a. TypeOK /\ HasWhatItNeeds /\ AskedExists /\ AloneUnlessOverlapped /\ WorksOnItsRow
      /\ NothingIsLost /\ NamesAreDistinct
  BY DEF CatalogInv
<1>b. /\ request' = [request EXCEPT ![c] = r] /\ phase' = [phase EXCEPT ![c] = next]
      /\ entity' = [entity EXCEPT ![c] = row] /\ requests' = requests + 1
      /\ UNCHANGED <<items, loaded, asked>>
      /\ request[c] = NULL
  BY DEF Start
<1>c. /\ r # NULL /\ r.item \in Item
      /\ r \in Create <=> r.kind = "create"
  BY DEF Create, Update, Delete
<1>d. overlapped \subseteq overlapped' /\ overlapped' \subseteq Item
  BY <1>a, <1>c DEF Start, TypeOK
<1>e. ASSUME NEW d \in Client, d # c, AsksFor(d, r.item) PROVE r.item \in overlapped'
  BY <1>e DEF Start, InFlight, AsksFor
<1>1. TypeOK'
  <2>1. request' \in [Client -> Create \cup Update \cup Delete \cup {NULL}]
    BY <1>a, <1>b DEF TypeOK
  <2>2. phase' \in [Client -> {"idle", "lookUp", "reload", "write"}]
    BY <1>a, <1>b DEF TypeOK
  <2>3. \A d \in Client : (phase'[d] = "idle") = (request'[d] = NULL)
    BY <1>a, <1>b, <1>c DEF TypeOK
  <2> QED
    BY <1>a, <1>b, <1>d, <2>1, <2>2, <2>3 DEF TypeOK
<1>2. HasWhatItNeeds'
  BY <1>a, <1>b, <1>c DEF HasWhatItNeeds, TypeOK, IsCreate
<1>3. AskedExists' /\ NothingIsLost' /\ NamesAreDistinct'
  BY <1>a, <1>b, <1>d DEF AskedExists, NothingIsLost, NamesAreDistinct
<1>4. AloneUnlessOverlapped'
  BY <1>a, <1>b, <1>c, <1>d, <1>e DEF AloneUnlessOverlapped, AsksFor, TypeOK
<1>5. WorksOnItsRow'
  BY <1>a, <1>b, <1>c, <1>d DEF WorksOnItsRow, TypeOK, IsCreate
<1> QED
  BY <1>1, <1>2, <1>3, <1>4, <1>5 DEF CatalogInv

(* A request that ends without having written leaves the others as they    *)
(* were.                                                                   *)
LEMMA EndKeepsCatalogInv ==
  ASSUME CatalogInv, NEW c \in Client, End(c), UNCHANGED <<items, history>>
  PROVE  CatalogInv'
<1>a. TypeOK /\ HasWhatItNeeds /\ AskedExists /\ AloneUnlessOverlapped /\ WorksOnItsRow
      /\ NothingIsLost /\ NamesAreDistinct
  BY DEF CatalogInv
<1>b. UNCHANGED <<items, requests, asked, overlapped>>
  BY DEF history
<1>1. TypeOK'
  BY <1>a, <1>b DEF End, TypeOK
<1>2. HasWhatItNeeds'
  BY <1>a, <1>b DEF End, HasWhatItNeeds, TypeOK, IsCreate
<1>3. AskedExists' /\ NothingIsLost' /\ NamesAreDistinct'
  BY <1>a, <1>b DEF AskedExists, NothingIsLost, NamesAreDistinct
<1>4. AloneUnlessOverlapped'
  BY <1>a, <1>b DEF End, AloneUnlessOverlapped, AsksFor, TypeOK
<1>5. WorksOnItsRow'
  BY <1>a, <1>b DEF End, WorksOnItsRow, TypeOK, IsCreate
<1> QED
  BY <1>1, <1>2, <1>3, <1>4, <1>5 DEF CatalogInv

(* The row that a write puts in the table: an item whose name no other has *)
(* and, where nothing has overlapped, what the request means.              *)
LEMMA WriteWrites ==
  ASSUME CatalogInv, NEW c \in Client, Write(c), ~UNCHANGED <<items, asked>>
  PROVE  LET r == request[c]
             i == r.item
         IN /\ i \in Item /\ AsksFor(c, i)
            /\ items'[i] \in ItemRow
            /\ items' = [items EXCEPT ![i] = items'[i]]
            /\ ~IndexRefuses(i, items'[i].name)
            /\ asked' = [asked EXCEPT ![i] = Meant(@, r)]
            /\ asked'[i] \in ItemRow
            /\ i \notin overlapped => items'[i] = Meant(items[i], r)
<1> DEFINE r == request[c]
           i == r.item
           rows == IF r.kind = "create" THEN {entity[c]}
                   ELSE SavedRows(items[i], loaded[c], entity[c])
<1> USE AbsentAssumption
<1>a. TypeOK /\ HasWhatItNeeds /\ AskedExists /\ WorksOnItsRow /\ NothingIsLost
  BY DEF CatalogInv
<1>1. r \in Create \cup Update \cup Delete /\ i \in Item /\ r # NULL /\ phase[c] = "write"
  BY <1>a DEF Write, TypeOK, Create, Update, Delete
<1>2. /\ r.kind = "create" <=> r \in Create
      /\ entity[c] \in ItemRow
      /\ r.kind # "create" => items[i] \in ItemRow /\ loaded[c] \in ItemRow
  BY <1>a, <1>1 DEF HasWhatItNeeds, IsCreate, Create, Update, Delete
<1>3. PICK row \in rows : /\ ~IndexRefuses(i, row.name)
                          /\ items' = [items EXCEPT ![i] = row]
                          /\ asked' = [asked EXCEPT ![i] = Meant(@, r)]
  BY DEF Write
<1>4. items'[i] = row /\ asked'[i] = Meant(asked[i], r)
  BY <1>a, <1>1, <1>3 DEF TypeOK
<1>5. row \in ItemRow
  BY <1>2, SavedIsRow
<1>6. Meant(asked[i], r) \in ItemRow
  <2>1. r.kind # "create" => asked[i] \in ItemRow
    BY <1>a, <1>1, <1>2 DEF AskedExists, TypeOK
  <2> QED
    BY <1>1, <1>2, <2>1, ServiceDoesWhatIsMeant, NewIsRow, ChangedIsRow
<1>7. ASSUME i \notin overlapped PROVE row = Meant(items[i], r)
  <2>1. /\ entity[c] = Meant(items[i], r)
        /\ r.kind # "create" => loaded[c] = items[i]
    BY <1>a, <1>1, <1>7 DEF WorksOnItsRow, IsCreate
  <2> QED
    BY <1>2, <2>1, SavedIsEntity
<1> QED
  BY <1>1, <1>3, <1>4, <1>5, <1>6, <1>7 DEF AsksFor

(* A write keeps the names apart, and the table what was asked.            *)
LEMMA WriteKeepsCatalogInv ==
  ASSUME CatalogInv, NEW c \in Client, Write(c), ~UNCHANGED <<items, asked>>
  PROVE  CatalogInv'
<1> DEFINE r == request[c]
           i == r.item
<1> USE AbsentAssumption
<1>a. TypeOK /\ HasWhatItNeeds /\ AskedExists /\ AloneUnlessOverlapped /\ WorksOnItsRow
      /\ NothingIsLost /\ NamesAreDistinct
  BY DEF CatalogInv
<1>b. /\ i \in Item /\ AsksFor(c, i)
      /\ items'[i] \in ItemRow
      /\ items' = [items EXCEPT ![i] = items'[i]]
      /\ ~IndexRefuses(i, items'[i].name)
      /\ asked' = [asked EXCEPT ![i] = Meant(@, r)]
      /\ asked'[i] \in ItemRow
      /\ i \notin overlapped => items'[i] = Meant(items[i], r)
  BY WriteWrites
<1>c. End(c) /\ UNCHANGED <<requests, overlapped>>
  BY DEF Write
<1>d. /\ items \in [Item -> ItemRow \cup {NULL}] /\ asked \in [Item -> ItemRow \cup {NULL}]
      /\ items' \in [Item -> ItemRow \cup {NULL}] /\ asked' \in [Item -> ItemRow \cup {NULL}]
  BY <1>a, <1>b DEF TypeOK
<1>e. \A j \in Item : j # i => items'[j] = items[j] /\ asked'[j] = asked[j]
  BY <1>b, <1>d
<1>f. /\ request' = [request EXCEPT ![c] = NULL] /\ phase' = [phase EXCEPT ![c] = "idle"]
      /\ entity' = [entity EXCEPT ![c] = NULL] /\ loaded' = [loaded EXCEPT ![c] = NULL]
  BY <1>c DEF End
<1>1. TypeOK'
  BY <1>a, <1>c, <1>d, <1>f DEF TypeOK
<1>2. HasWhatItNeeds'
  <2> SUFFICES ASSUME NEW d \in Client, d # c
               PROVE  /\ request[d] # NULL => entity[d] \in ItemRow
                      /\ phase[d] = "lookUp" => request[d] \in Update
                      /\ phase[d] = "reload" => request[d] \in Update \cup Delete
                      /\ request[d] # NULL /\ ~IsCreate(d) => items'[request[d].item] \in ItemRow
                      /\ phase[d] = "write" /\ ~IsCreate(d) => loaded[d] \in ItemRow
    BY <1>a, <1>f DEF HasWhatItNeeds, TypeOK, IsCreate
  <2>1. request[d] # NULL => request[d].item \in Item
    BY <1>a DEF TypeOK, Create, Update, Delete
  <2> QED
    BY <1>a, <1>b, <1>e, <2>1 DEF HasWhatItNeeds
<1>3. AskedExists'
  BY <1>a, <1>b, <1>d, <1>e DEF AskedExists
<1>4. AloneUnlessOverlapped'
  BY <1>a, <1>c, <1>f DEF AloneUnlessOverlapped, AsksFor, TypeOK
<1>5. WorksOnItsRow'
  <2> SUFFICES ASSUME NEW d \in Client, d # c, request[d] # NULL, request[d].item \notin overlapped
               PROVE  LET q == request[d]
                          row == items'[q.item]
                      IN /\ IsCreate(d) => row = NULL
                         /\ phase[d] = "lookUp" => entity[d] = row
                         /\ phase[d] # "lookUp" => entity[d] = Meant(row, q)
                         /\ phase[d] = "write" /\ ~IsCreate(d) => loaded[d] = row
    BY <1>a, <1>c, <1>f DEF WorksOnItsRow, TypeOK, IsCreate
  <2>1. request[d].item \in Item
    BY <1>a DEF TypeOK, Create, Update, Delete
  <2>2. request[d].item # i
    BY <1>a, <1>b, <2>1 DEF AloneUnlessOverlapped, AsksFor
  <2> QED
    BY <1>a, <1>e, <2>1, <2>2 DEF WorksOnItsRow
<1>6. NothingIsLost'
  <2>1. i \notin overlapped => items'[i] = asked'[i]
    BY <1>a, <1>b, <1>d DEF NothingIsLost
  <2> QED
    BY <1>a, <1>c, <1>e, <2>1 DEF NothingIsLost
<1>7. NamesAreDistinct'
  <2>1. \A j \in Item : j # i /\ items[j] # NULL => Fold(items[j].name) # Fold(items'[i].name)
    BY <1>b DEF IndexRefuses
  <2> QED
    BY <1>a, <1>b, <1>e, <2>1 DEF NamesAreDistinct
<1> QED
  BY <1>1, <1>2, <1>3, <1>4, <1>5, <1>6, <1>7 DEF CatalogInv

(* Every statement of every request preserves it.                          *)
LEMMA NextPreservesCatalogInv == CatalogInv /\ [Next]_vars => CatalogInv'
<1> SUFFICES ASSUME CatalogInv, [Next]_vars PROVE CatalogInv'
  OBVIOUS
<1> USE AbsentAssumption
<1>a. TypeOK /\ HasWhatItNeeds /\ AskedExists /\ AloneUnlessOverlapped /\ WorksOnItsRow
      /\ NothingIsLost /\ NamesAreDistinct
  BY DEF CatalogInv
<1>1. CASE UNCHANGED vars
  BY <1>1, <1>a
  DEF vars, work, history, CatalogInv, TypeOK, HasWhatItNeeds, AskedExists,
      AloneUnlessOverlapped, AsksFor, WorksOnItsRow, NothingIsLost, NamesAreDistinct, IsCreate
<1>2. ASSUME NEW c \in Client, NEW r \in Create, FindFreeName(c, r) PROVE CatalogInv'
  BY <1>2, StartKeepsCatalogInv, NewIsRow, ServiceDoesWhatIsMeant DEF FindFreeName
<1>3. ASSUME NEW c \in Client, NEW r \in Update, FindToUpdate(c, r) PROVE CatalogInv'
  <2>1. items[r.item] \in ItemRow /\ r \notin Create
    BY <1>3, <1>a DEF FindToUpdate, TypeOK, Update, Create
  <2>2. CASE Start(c, r, Updated(items[r.item], r), "reload")
    BY <2>1, <2>2, StartKeepsCatalogInv, ChangedIsRow, ServiceDoesWhatIsMeant
  <2>3. CASE Start(c, r, items[r.item], "lookUp")
    BY <2>1, <2>3, StartKeepsCatalogInv
  <2> QED
    BY <1>3, <2>2, <2>3 DEF FindToUpdate
<1>4. ASSUME NEW c \in Client, NEW r \in Delete, FindToDelete(c, r) PROVE CatalogInv'
  <2>1. items[r.item] \in ItemRow /\ r \notin Create
    BY <1>4, <1>a DEF FindToDelete, TypeOK, Delete, Create
  <2> QED
    BY <1>4, <2>1, StartKeepsCatalogInv, ChangedIsRow, ServiceDoesWhatIsMeant
    DEF FindToDelete
<1>5. ASSUME NEW c \in Client, FindNewName(c) PROVE CatalogInv'
  <2>1. CASE End(c)
    BY <1>5, <2>1, EndKeepsCatalogInv DEF FindNewName
  <2>2. CASE ~End(c)
    <3>1. /\ entity' = [entity EXCEPT ![c] = Updated(@, request[c])]
          /\ phase' = [phase EXCEPT ![c] = "reload"]
          /\ UNCHANGED <<request, loaded, items, requests, asked, overlapped>>
          /\ phase[c] = "lookUp"
      BY <1>5, <2>2 DEF FindNewName, history
    <3>2. /\ request[c] \in Update /\ request[c] # NULL /\ entity[c] \in ItemRow
          /\ ~IsCreate(c) /\ items[request[c].item] \in ItemRow
      BY <1>a, <3>1 DEF HasWhatItNeeds, TypeOK, IsCreate, Update
    <3>3. entity'[c] = Updated(entity[c], request[c]) /\ entity'[c] \in ItemRow
      BY <1>a, <3>1, <3>2, ChangedIsRow DEF TypeOK
    <3>4. TypeOK'
      BY <1>a, <3>1, <3>2, <3>3 DEF TypeOK
    <3>5. HasWhatItNeeds'
      BY <1>a, <3>1, <3>2, <3>3 DEF HasWhatItNeeds, TypeOK, IsCreate
    <3>6. WorksOnItsRow'
      BY <1>a, <3>1, <3>2, <3>3, ServiceDoesWhatIsMeant DEF WorksOnItsRow, TypeOK, IsCreate
    <3> QED
      BY <1>a, <3>1, <3>4, <3>5, <3>6
      DEF CatalogInv, AskedExists, AloneUnlessOverlapped, AsksFor, NothingIsLost,
          NamesAreDistinct
  <2> QED
    BY <2>1, <2>2
<1>6. ASSUME NEW c \in Client, Reload(c) PROVE CatalogInv'
  <2>1. /\ loaded' = [loaded EXCEPT ![c] = items[request[c].item]]
        /\ phase' = [phase EXCEPT ![c] = "write"]
        /\ UNCHANGED <<request, entity, items, requests, asked, overlapped>>
        /\ phase[c] = "reload"
    BY <1>6 DEF Reload, history
  <2>2. /\ request[c] \in Update \cup Delete /\ request[c] # NULL
        /\ ~IsCreate(c) /\ items[request[c].item] \in ItemRow
    BY <1>a, <2>1 DEF HasWhatItNeeds, TypeOK, IsCreate, Update, Delete
  <2>3. TypeOK'
    BY <1>a, <2>1, <2>2 DEF TypeOK
  <2>4. HasWhatItNeeds'
    BY <1>a, <2>1, <2>2 DEF HasWhatItNeeds, TypeOK, IsCreate
  <2>5. WorksOnItsRow'
    BY <1>a, <2>1, <2>2 DEF WorksOnItsRow, TypeOK, IsCreate
  <2> QED
    BY <1>a, <2>1, <2>3, <2>4, <2>5
    DEF CatalogInv, AskedExists, AloneUnlessOverlapped, AsksFor, NothingIsLost,
        NamesAreDistinct
<1>7. ASSUME NEW c \in Client, Write(c) PROVE CatalogInv'
  <2>1. CASE UNCHANGED <<items, asked>>
    BY <1>7, <2>1, EndKeepsCatalogInv DEF Write, history
  <2>2. CASE ~UNCHANGED <<items, asked>>
    BY <1>7, <2>2, WriteKeepsCatalogInv
  <2> QED
    BY <1>7, <2>1, <2>2
<1>8. ASSUME NEW c \in Client, Fail(c) PROVE CatalogInv'
  BY <1>8, EndKeepsCatalogInv DEF Fail
<1> QED
  BY <1>1, <1>2, <1>3, <1>4, <1>5, <1>6, <1>7, <1>8 DEF Next

(* Every reachable state of the catalog satisfies every part.              *)
LEMMA CatalogInvariant == Spec => []CatalogInv
  BY InitEstablishesCatalogInv, NextPreservesCatalogInv, PTL DEF Spec

-----------------------------------------------------------------------------
(* The catalog's variables keep the types declared for them; that a save   *)
(* always finds the row it changes is part of it.                          *)
THEOREM CatalogTypeCorrect == Spec => []TypeOK
<1>1. CatalogInv => TypeOK
  BY DEF CatalogInv
<1> QED
  BY <1>1, CatalogInvariant, PTL

(* No two items have names that the database cannot tell apart.            *)
THEOREM NamesStayDistinct == Spec => []NamesAreDistinct
<1>1. CatalogInv => NamesAreDistinct
  BY DEF CatalogInv
<1> QED
  BY <1>1, CatalogInvariant, PTL

(* Saves are lost only where requests on an item overlap (Repository.save).*)
THEOREM OnlyOverlapsLose == Spec => []NothingIsLost
<1>1. CatalogInv => NothingIsLost
  BY DEF CatalogInv
<1> QED
  BY <1>1, CatalogInvariant, PTL

(* A save of a request that is alone on its item does not activate it.     *)
LEMMA StepKeepsDeactivated ==
  CatalogInv /\ [Next]_vars =>
    \A i \in Item : IsInactive(i) /\ ~IsInactive(i)' => i \in overlapped
<1> SUFFICES ASSUME CatalogInv, [Next]_vars,
                    NEW i \in Item, IsInactive(i), ~IsInactive(i)', i \notin overlapped
             PROVE  FALSE
  OBVIOUS
<1> USE AbsentAssumption
<1>a. TypeOK /\ HasWhatItNeeds /\ WorksOnItsRow
  BY DEF CatalogInv
<1>1. items'[i] # items[i]
  BY DEF IsInactive
<1>2. PICK c \in Client : Write(c)
  BY <1>1
  DEF Next, vars, FindFreeName, FindToUpdate, FindToDelete, Start, FindNewName, Reload, Fail
<1>3. /\ request[c].item \in Item /\ AsksFor(c, request[c].item)
      /\ items'[request[c].item] \in ItemRow
      /\ items' = [items EXCEPT ![request[c].item] = items'[request[c].item]]
      /\ request[c].item \notin overlapped =>
           items'[request[c].item] = Meant(items[request[c].item], request[c])
  BY <1>1, <1>2, WriteWrites
<1>4. request[c].item = i
  BY <1>a, <1>1, <1>3 DEF TypeOK
<1>5. items[i] \in ItemRow /\ items[i] # NULL /\ ~items[i].active
  BY <1>a DEF IsInactive, TypeOK
<1>6. request[c] \in Update \cup Delete
  <2>1. request[c] \in Create \cup Update \cup Delete /\ request[c] # NULL
    BY <1>a, <1>3 DEF TypeOK, AsksFor
  <2>2. ~IsCreate(c)
    BY <1>a, <1>4, <1>5, <2>1 DEF WorksOnItsRow
  <2> QED
    BY <2>1, <2>2 DEF IsCreate, Create
<1>7. \/ items'[i] = Updated(items[i], request[c])
      \/ items'[i] = Deactivated(items[i])
  BY <1>3, <1>4, <1>5, <1>6, ServiceDoesWhatIsMeant
<1>8. ~items'[i].active
  BY <1>5, <1>7 DEF Updated, Deactivated, ItemRow
<1>9. items'[i] # NULL
  BY <1>3, <1>4
<1> QED
  BY <1>8, <1>9 DEF IsInactive

(* A deactivated item comes back only where requests on it overlap         *)
(* (delete, update).                                                       *)
THEOREM OnlyOverlapsReactivate == Spec => StaysDeactivated
  BY CatalogInvariant, StepKeepsDeactivated, PTL DEF Spec, StaysDeactivated
=============================================================================
