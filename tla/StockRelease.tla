---------------------------- MODULE StockRelease ----------------------------
(***************************************************************************)
(* Observable stock release: StockEventsService.consumeRelease, its unit   *)
(* of work (one InnoDB transaction with row locks and a command table) and *)
(* the publication of the result.  A worker is one delivery being handled; *)
(* deliveries of the same command may overlap, because the ledger's lease  *)
(* can run out while the first is still at work.                           *)
(*                                                                         *)
(* InnoDB reads: a plain SELECT sees the snapshot taken by the first one   *)
(* of its transaction, a locking SELECT the latest committed row.          *)
(***************************************************************************)
EXTENDS StockTables

CONSTANTS
  Worker,
  Command,               (* event ids of release commands                  *)
  Request,               (* validated messages: [id, order, items], items  *)
                         (* a function from parts to positive quantities   *)
  InitialReservation,    (* the possible contents of stock_reservations    *)
  InitialAvailable,      (* available_quantity of each part at first       *)
  MaxAttempts,           (* bound on the calls of the unit of work         *)
  NULL

(* What normalizeCommand lets through: some parts, each named once.        *)
IsNormalized(items) ==
  DOMAIN items # {} /\ IsPartMap(items, Nat) /\ \A p \in DOMAIN items : items[p] > 0

(* What asReleaseRequested lets through.                                   *)
Valid(r) ==
  /\ r = [id |-> r.id, order |-> r.order, items |-> r.items]
  /\ r.id \in Command /\ r.order \in Order
  /\ IsNormalized(r.items)

ASSUME RequestAssumption == \A r \in Request : Valid(r)
ASSUME InitialAssumption ==
  /\ InitialReservation \subseteq [Order -> [Part -> ReservationRow({})]]
  /\ \A t \in InitialReservation : \A o \in Order, p \in Part : t[o][p].status # "RELEASED"
  /\ InitialAvailable \in [Part -> Nat]
ASSUME AttemptsAssumption == MaxAttempts \in Nat

VARIABLES
  operation,   (* stock_release_operations: the committed row of a command *)
  attempts,    (* calls so far; stands for the time new Date() returns     *)
  pc,
  request,     (* what each worker handles                                 *)
  snapshot,    (* the tables as the plain SELECTs of its transaction see them *)
  held,        (* the row locks of its transaction                         *)
  verdict,     (* `results`: the parts judged so far                       *)
  write,       (* the part rows it has updated and not committed           *)
  occurredAt,  (* when its transaction started to release                  *)
  published    (* the envelopes that the broker has confirmed              *)

workerVars == <<pc, request, snapshot, held, verdict, write, occurredAt>>
vars == <<tables, operation, attempts, published, workerVars>>

Phase == {"idle", "insert", "recover", "lockReservation", "lockPart", "commit", "publish"}

Verdict == {"RELEASED", "STOCK_RESERVATION_NOT_FOUND", "STOCK_RESERVATION_QUANTITY_MISMATCH",
            "STOCK_RESERVATION_ALREADY_RELEASED", "STOCK_RESERVATION_ALREADY_COMMITTED",
            "STOCK_RESERVATION_NOT_ACTIVE", "PART_RESERVED_STOCK_INSUFFICIENT"}

ASSUME NullAssumption ==
  /\ NULL \notin Request /\ NULL \notin Verdict
  /\ NULL \notin [request : Request, verdict : UNION {[P -> Verdict] : P \in SUBSET Part},
                 at : Nat]

IsOperationRow(row) ==
  /\ row = [request |-> row.request, verdict |-> row.verdict, at |-> row.at]
  /\ row.request \in Request /\ IsPartMap(row.verdict, Verdict) /\ row.at \in Nat

RowName == ({"operation"} \X Command) \cup ({"reservation"} \X (Order \X Part))
           \cup ({"part"} \X Part)

TypeOK ==
  /\ stock \in [Part -> StockRow]
  /\ reservation \in [Order -> [Part -> ReservationRow(Command)]]
  /\ DOMAIN operation = Command
  /\ \A c \in Command : operation[c] = NULL \/ IsOperationRow(operation[c])
  /\ attempts \in Nat
  /\ pc \in [Worker -> Phase]
  /\ request \in [Worker -> Request \cup {NULL}]
  /\ snapshot \in [Worker -> [stock : [Part -> StockRow],
                             reservation : [Order -> [Part -> ReservationRow(Command)]]]
                            \cup {NULL}]
  /\ held \in [Worker -> SUBSET RowName]
  /\ DOMAIN verdict = Worker /\ DOMAIN write = Worker
  /\ \A w \in Worker : IsPartMap(verdict[w], Verdict) /\ IsPartMap(write[w], StockRow)
  /\ occurredAt \in [Worker -> Nat]

-----------------------------------------------------------------------------
Goto(w, phase) == pc' = [pc EXCEPT ![w] = phase]

Extend(f, x, y) == [z \in DOMAIN f \cup {x} |-> IF z = x THEN y ELSE f[z]]

ToDo(w) == DOMAIN request[w].items \ DOMAIN verdict[w]

(* Seeded fault of Item: the items are released in another order.          *)
ItemByQuantity(w) ==
  CHOOSE p \in ToDo(w) : \A q \in ToDo(w) : request[w].items[p] <= request[w].items[q]

(* The items are released in the order of their part ids.                  *)
Item(w) == CHOOSE p \in ToDo(w) : \A q \in ToDo(w) : p <= q

(* The row a worker's next statement locks.                                *)
Wanted(w) ==
  CASE pc[w] = "insert"          -> <<"operation", request[w].id>>
    [] pc[w] = "lockReservation" -> <<"reservation", <<request[w].order, Item(w)>>>>
    [] pc[w] = "lockPart"        -> <<"part", Item(w)>>

Waits(w) == pc[w] \in {"insert", "lockReservation", "lockPart"}

WaitsFor(w, v) == v # w /\ Waits(w) /\ Wanted(w) \in held[v]

Lock(w) == /\ \A v \in Worker : ~WaitsFor(w, v)
           /\ held' = [held EXCEPT ![w] = @ \cup {Wanted(w)}]

(* COMMIT or ROLLBACK: the locks go and so does what was not committed.    *)
EndTransaction(w) ==
  /\ held' = [held EXCEPT ![w] = {}]
  /\ write' = [write EXCEPT ![w] = <<>>]
  /\ verdict' = [verdict EXCEPT ![w] = <<>>]
  /\ snapshot' = [snapshot EXCEPT ![w] = NULL]
  /\ occurredAt' = [occurredAt EXCEPT ![w] = 0]

Finish(w) == Goto(w, "idle") /\ request' = [request EXCEPT ![w] = NULL]

(* assertSameCommand: the stored hash covers the whole content.            *)
SameCommand(r) == operation[r.id].request = r

(* Seeded faults of ReservationVerdict: the row's own status is reported;  *)
(* RELEASED is not looked at, or not whose release it was; what is missing *)
(* passes for released; the quantity is not compared.                      *)
StatusAsVerdict(row, quantity, command) ==
  IF row.status = "RESERVED" /\ row.quantity = quantity THEN NULL ELSE row.status

VerdictIgnoringReleased(row, quantity, command) ==
  IF row.status = "ABSENT" THEN "STOCK_RESERVATION_NOT_FOUND"
  ELSE IF row.quantity # quantity THEN "STOCK_RESERVATION_QUANTITY_MISMATCH"
  ELSE IF row.status \in {"COMMITTED", "FAILED"} THEN "STOCK_RESERVATION_NOT_ACTIVE"
  ELSE NULL

VerdictOnMissing(row, quantity, command) ==
  IF row.status = "ABSENT" THEN "RELEASED"
  ELSE IF row.quantity # quantity THEN "STOCK_RESERVATION_QUANTITY_MISMATCH"
  ELSE VerdictIgnoringReleased(row, quantity, command)

VerdictIgnoringOwner(row, quantity, command) ==
  IF row.status = "RELEASED" THEN "RELEASED"
  ELSE VerdictIgnoringReleased(row, quantity, command)

VerdictIgnoringQuantity(row, quantity, command) ==
  IF row.status = "RELEASED" /\ row.releasedBy # {command}
    THEN "STOCK_RESERVATION_ALREADY_RELEASED"
  ELSE VerdictIgnoringOwner(row, row.quantity, command)

(* releaseOne, before the part is needed; NULL when the part decides.      *)
ReservationVerdict(row, quantity, command) ==
  IF row.status = "ABSENT" THEN "STOCK_RESERVATION_NOT_FOUND"
  ELSE IF row.quantity # quantity THEN "STOCK_RESERVATION_QUANTITY_MISMATCH"
  ELSE IF row.status = "RELEASED"
         THEN IF row.releasedBy = {command} THEN "RELEASED"
              ELSE "STOCK_RESERVATION_ALREADY_RELEASED"
  ELSE IF row.status = "COMMITTED" THEN "STOCK_RESERVATION_ALREADY_COMMITTED"
  ELSE IF row.status = "FAILED" THEN "STOCK_RESERVATION_NOT_ACTIVE"
  ELSE NULL

Judge(w, code) ==
  /\ verdict' = [verdict EXCEPT ![w] = Extend(@, Item(w), code)]
  /\ Goto(w, IF ToDo(w) = {Item(w)} THEN "commit" ELSE "lockReservation")

ResultName(v) ==
  IF \A p \in DOMAIN v : v[p] = "RELEASED" THEN "stock.released" ELSE "stock.release.failed"

(* Seeded fault of EnvelopeOf: stamped when it is published.               *)
EnvelopeStampedNow(c) ==
  [command |-> c, order |-> operation[c].request.order,
   name |-> ResultName(operation[c].verdict),
   verdict |-> operation[c].verdict, at |-> attempts]

(* releaseResultEnvelope, from the command row.                            *)
EnvelopeOf(c) ==
  [command |-> c, order |-> operation[c].request.order,
   name |-> ResultName(operation[c].verdict),
   verdict |-> operation[c].verdict, at |-> operation[c].at]

-----------------------------------------------------------------------------
TablesInit ==
  /\ reservation \in InitialReservation
  /\ stock = [p \in Part |-> [available |-> InitialAvailable[p],
                              reserved  |-> ReservedQuantity(p),
                              active    |-> TRUE]]

WorkersInit ==
  /\ operation = [c \in Command |-> NULL]
  /\ attempts = 0
  /\ pc = [w \in Worker |-> "idle"]
  /\ request = [w \in Worker |-> NULL]
  /\ snapshot = [w \in Worker |-> NULL]
  /\ held = [w \in Worker |-> {}]
  /\ verdict = [w \in Worker |-> <<>>]
  /\ write = [w \in Worker |-> <<>>]
  /\ occurredAt = [w \in Worker |-> 0]
  /\ published = {}

Init == TablesInit /\ WorkersInit

(* The transaction starts and looks for the command: found, its result is  *)
(* returned (or refused, if the content differs).                          *)
Begin(w, r) ==
  /\ pc[w] = "idle"
  /\ attempts < MaxAttempts
  /\ attempts' = attempts + 1
  /\ \/ /\ operation[r.id] = NULL
        /\ Goto(w, "insert")
        /\ request' = [request EXCEPT ![w] = r]
        /\ snapshot' = [snapshot EXCEPT ![w] = [stock |-> stock, reservation |-> reservation]]
     \/ /\ operation[r.id] # NULL /\ SameCommand(r)
        /\ Goto(w, "publish")
        /\ request' = [request EXCEPT ![w] = r]
        /\ UNCHANGED snapshot
     \/ /\ operation[r.id] # NULL /\ ~SameCommand(r)
        /\ UNCHANGED <<pc, request, snapshot>>
  /\ UNCHANGED <<tables, operation, held, verdict, write, occurredAt, published>>

(* INSERT of the command row: waits for a transaction that has inserted    *)
(* the same command, and fails on the unique key if that one committed.    *)
InsertOperation(w) ==
  /\ pc[w] = "insert"
  /\ IF operation[request[w].id] = NULL
       THEN /\ Lock(w)
            /\ occurredAt' = [occurredAt EXCEPT ![w] = attempts]
            /\ Goto(w, "lockReservation")
            /\ UNCHANGED <<verdict, write, snapshot>>
       ELSE Goto(w, "recover") /\ EndTransaction(w)
  /\ UNCHANGED <<tables, operation, attempts, request, published>>

(* After a duplicate key, the committed result is read outside the         *)
(* transaction; the duplicate key may also be another table's.             *)
Recover(w) ==
  /\ pc[w] = "recover"
  /\ IF operation[request[w].id] # NULL /\ SameCommand(request[w])
       THEN Goto(w, "publish") /\ UNCHANGED request
       ELSE Finish(w)
  /\ UNCHANGED <<tables, operation, attempts, snapshot, held, verdict, write,
                 occurredAt, published>>

(* SELECT the reservation FOR UPDATE and judge it.                         *)
LockReservation(w) ==
  /\ pc[w] = "lockReservation"
  /\ Lock(w)
  /\ LET code == ReservationVerdict(reservation[request[w].order][Item(w)],
                                    request[w].items[Item(w)], request[w].id)
     IN IF code = NULL THEN Goto(w, "lockPart") /\ UNCHANGED verdict
                       ELSE Judge(w, code)
  /\ UNCHANGED <<tables, operation, attempts, request, snapshot, write, occurredAt, published>>

(* SELECT the part FOR UPDATE, move the quantity back, save both rows.     *)
(* A reservation inserted since the snapshot is not found by the save,     *)
(* which inserts it again: a duplicate key.                                *)
Returned(w, p) ==
  LET entity == [stock[p] EXCEPT !.available = @ + request[w].items[p],
                                 !.reserved = @ - request[w].items[p]]
  IN SaveColumns(stock[p], snapshot[w].stock[p], entity)

(* The part is there: reservations refer to parts, and no part is ever     *)
(* removed, so PART_NOT_FOUND cannot be answered.                          *)
LockPart(w) ==
  /\ pc[w] = "lockPart"
  /\ \A v \in Worker : ~WaitsFor(w, v)
  /\ IF stock[Item(w)].reserved < request[w].items[Item(w)]
       THEN /\ Judge(w, "PART_RESERVED_STOCK_INSUFFICIENT")
            /\ Lock(w)
            /\ UNCHANGED <<write, snapshot, occurredAt>>
     ELSE IF snapshot[w].reservation[request[w].order][Item(w)].status = "ABSENT"
       THEN Goto(w, "recover") /\ EndTransaction(w)
     ELSE /\ Judge(w, "RELEASED")
          /\ Lock(w)
          /\ write' = [write EXCEPT ![w] = Extend(@, Item(w), Returned(w, Item(w)))]
          /\ UNCHANGED <<snapshot, occurredAt>>
  /\ UNCHANGED <<tables, operation, attempts, request, published>>

(* The result is saved on the command row and the transaction commits.     *)
Commit(w) ==
  /\ pc[w] = "commit"
  /\ operation' = [operation EXCEPT ![request[w].id] =
       [request |-> request[w], verdict |-> verdict[w], at |-> occurredAt[w]]]
  /\ stock' = [p \in Part |-> IF p \in DOMAIN write[w] THEN write[w][p] ELSE stock[p]]
  /\ reservation' = [reservation EXCEPT ![request[w].order] =
       [p \in Part |-> IF p \in DOMAIN write[w]
                         THEN [@[p] EXCEPT !.status = "RELEASED", !.releasedBy = {request[w].id}]
                         ELSE @[p]]]
  /\ EndTransaction(w)
  /\ Goto(w, "publish")
  /\ UNCHANGED <<attempts, request, published>>

(* The result is published, and confirmed, from the command row.           *)
Publish(w) ==
  /\ pc[w] = "publish"
  /\ published' = published \cup {EnvelopeOf(request[w].id)}
  /\ Finish(w)
  /\ UNCHANGED <<tables, operation, attempts, snapshot, held, verdict, write, occurredAt>>

(* A technical error, a broken publication, or the end of the replica: the *)
(* database rolls back, and the message will be delivered again.           *)
Abort(w) ==
  /\ pc[w] # "idle"
  /\ EndTransaction(w)
  /\ Finish(w)
  /\ UNCHANGED <<tables, operation, attempts, published>>

Step(w) ==
  \/ InsertOperation(w) \/ Recover(w) \/ LockReservation(w) \/ LockPart(w)
  \/ Commit(w) \/ Publish(w)

Next == \E w \in Worker : Step(w) \/ Abort(w) \/ \E r \in Request : Begin(w, r)

Spec == Init /\ [][Next]_vars

-----------------------------------------------------------------------------
(* A part's reserved quantity is what its RESERVED rows add up to, and no  *)
(* unit is created or lost: releases are all or nothing, and never twice   *)
(* (executeTransaction, releaseOne).                                       *)
StockConserved ==
  \A p \in Part :
    /\ stock[p].reserved = ReservedQuantity(p)
    /\ stock[p].available = InitialAvailable[p] + QuantityIn(p, "RELEASED")

(* What a command reports as released is what it released: an item is      *)
(* RELEASED in a stored result exactly when that command is the one that   *)
(* released the reservation.                                               *)
ReportIsPhysical ==
  \A c \in Command, o \in Order, p \in Part :
    (reservation[o][p].releasedBy = {c}) <=>
      /\ operation[c] # NULL
      /\ operation[c].request.order = o
      /\ p \in DOMAIN operation[c].verdict
      /\ operation[c].verdict[p] = "RELEASED"

(* However often a command is delivered, every envelope published for it   *)
(* is the same one (consumeRelease publishes from the command row).        *)
SameEnvelope == \A e, f \in published : e.command = f.command => e = f

(* No circle of transactions wait for one another's rows: items are locked *)
(* in the order of their part ids (releaseReservations).                   *)
NoDeadlock ==
  \A ring \in (SUBSET Worker) \ {{}} : \E w \in ring : \A v \in ring : ~WaitsFor(w, v)

(* The transactions, interleaved statement by statement, behave as if each *)
(* command were decided in one step.                                       *)
Atomic == INSTANCE AtomicRelease WITH
  decision <- [c \in Command |->
    IF operation[c] = NULL THEN NULL
    ELSE [request |-> operation[c].request,
          granted |-> {p \in DOMAIN operation[c].verdict : operation[c].verdict[p] = "RELEASED"}]]

IsAtomicRelease == Atomic!Spec
=============================================================================
