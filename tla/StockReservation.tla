-------------------------- MODULE StockReservation --------------------------
(***************************************************************************)
(* Stock reservation: StockEventsService.consumeReserve and, for every     *)
(* item of the message at the same time, StockReservationService's         *)
(* reserveStock.  Nothing is locked: a reservation is looked up, the part  *)
(* is read, changed in memory and saved, and the reservation is inserted,  *)
(* each in a statement of its own.                                         *)
(*                                                                         *)
(* A worker is one delivery.  Promise.all rejects as soon as one item      *)
(* throws, and the items left go on while the message is delivered again:  *)
(* they are the tasks of a worker that no longer answers.                  *)
(***************************************************************************)
EXTENDS StockTables, FiniteSetsExt, Sequences

CONSTANTS
  Worker,
  Request,           (* messages that asReserveRequested lets through:     *)
                     (* [id, order, items], items a sequence, perhaps      *)
                     (* empty, of [part, quantity]                         *)
  InitialAvailable,
  InitialActive,     (* the possible values of the active columns          *)
  ReleaseCommand,    (* event ids of release commands, which may be stored *)
  MaxAttempts,       (* bound on the deliveries                            *)
  NULL

Valid(r) ==
  /\ r = [id |-> r.id, order |-> r.order, items |-> r.items]
  /\ r.order \in Order
  /\ r.items \in Seq([part : Part, quantity : Nat \ {0}])

ASSUME RequestAssumption == \A r \in Request : Valid(r)
ASSUME IdAssumption == \A q, r \in Request : q.id = r.id => q = r
ASSUME InitialAssumption == /\ InitialAvailable \in [Part -> Nat]
                            /\ InitialActive \subseteq [Part -> BOOLEAN]
ASSUME AttemptsAssumption == MaxAttempts \in Nat
ASSUME NullAssumption == /\ NULL \notin Request /\ NULL \notin StockRow
                         /\ NULL \notin {"PART_NOT_FOUND", "INSUFFICIENT_STOCK"}

VARIABLES
  origin,     (* stock_reservations: created_at and failure_code           *)
  attempts,   (* deliveries so far; stands for the time new Date() returns *)
  request,    (* what each worker handles                                  *)
  task,       (* its reserveStock calls, one per item                      *)
  published   (* the envelopes that the broker has confirmed               *)

vars == <<tables, origin, attempts, request, task, published>>

Code == {"PART_NOT_FOUND", "INSUFFICIENT_STOCK", NULL}

(* part is the Part entity in memory, loaded the row that its save has     *)
(* loaded again, at the created_at of the reservation that is returned.    *)
Task == [phase : {"find", "findPart", "reload", "update", "insert", "done", "threw"},
         part : StockRow \cup {NULL}, loaded : StockRow \cup {NULL},
         code : Code, at : Nat]

TypeOK ==
  /\ stock \in [Part -> [available : Nat, reserved : Nat, active : BOOLEAN]]
  /\ reservation \in [Order -> [Part -> ReservationRow(ReleaseCommand)]]
  /\ origin \in [Order -> [Part -> [at : Nat, code : Code]]]
  /\ attempts \in Nat
  /\ request \in [Worker -> Request \cup {NULL}]
  /\ DOMAIN task = Worker
  /\ \A w \in Worker : IF request[w] = NULL THEN task[w] = <<>>
                       ELSE task[w] \in [DOMAIN request[w].items -> Task]

-----------------------------------------------------------------------------
Item(w, i) == request[w].items[i]
RowOf(w, i) == reservation[request[w].order][Item(w, i).part]

Set(w, i, t) == task' = [task EXCEPT ![w][i] = t]

(* A call with nothing in memory: it has read nothing, or needs it no more. *)
Fresh(phase) == [phase |-> phase, part |-> NULL, loaded |-> NULL, code |-> NULL, at |-> 0]

Advance(w, i, phase) == Set(w, i, Fresh(phase))

(* A task that awaits its next statement.                                  *)
At(w, i, phase) == i \in DOMAIN task[w] /\ task[w][i].phase = phase

Finish(w) == /\ request' = [request EXCEPT ![w] = NULL]
             /\ task' = [task EXCEPT ![w] = <<>>]

Init ==
  /\ \E active \in InitialActive :
       stock = [p \in Part |-> [available |-> InitialAvailable[p], reserved |-> 0,
                                active |-> active[p]]]
  /\ reservation = [o \in Order |-> [p \in Part |->
                     [status |-> "ABSENT", quantity |-> 0, releasedBy |-> {}]]]
  /\ origin = [o \in Order |-> [p \in Part |-> [at |-> 0, code |-> NULL]]]
  /\ attempts = 0
  /\ request = [w \in Worker |-> NULL]
  /\ task = [w \in Worker |-> <<>>]
  /\ published = {}

(* The claim succeeded: a call of reserveStock starts for every item.      *)
Begin(w, r) ==
  /\ request[w] = NULL
  /\ attempts < MaxAttempts
  /\ attempts' = attempts + 1
  /\ request' = [request EXCEPT ![w] = r]
  /\ task' = [task EXCEPT ![w] = [i \in DOMAIN r.items |-> Fresh("find")]]
  /\ UNCHANGED <<tables, origin, published>>

(* findExistingReservation: what is there already is the answer, or a      *)
(* conflict.                                                               *)
Returned(w, i) ==
  LET o == origin[request[w].order][Item(w, i).part]
  IN [task[w][i] EXCEPT !.phase = "done", !.code = o.code, !.at = o.at]

FindReservation(w, i) ==
  /\ At(w, i, "find")
  /\ \/ RowOf(w, i).status = "ABSENT" /\ Advance(w, i, "findPart")
     \/ /\ RowOf(w, i).status # "ABSENT"
        /\ IF RowOf(w, i).quantity = Item(w, i).quantity
             THEN Set(w, i, Returned(w, i)) ELSE Advance(w, i, "threw")
  /\ UNCHANGED <<tables, origin, attempts, request, published>>

(* Seeded fault of Reserved: the units are removed, not reserved.          *)
Removed(row, quantity) ==
  [row EXCEPT !.available = @ - quantity]

(* PartRepository.findById, and Part.reserveStock on the copy.             *)
Reserved(row, quantity) ==
  [row EXCEPT !.available = @ - quantity, !.reserved = @ + quantity]

(* Why the part cannot give the quantity, or NULL.                         *)
Refusal(p, quantity) ==
  IF ~stock[p].active THEN "PART_NOT_FOUND"
  ELSE IF stock[p].available < quantity THEN "INSUFFICIENT_STOCK"
  ELSE NULL

FindPart(w, i) ==
  /\ At(w, i, "findPart")
  /\ LET p == Item(w, i).part
         q == Item(w, i).quantity
     IN IF Refusal(p, q) = NULL
          THEN Set(w, i, [task[w][i] EXCEPT !.phase = "reload",
                                            !.part = Reserved(stock[p], q)])
          ELSE Set(w, i, [task[w][i] EXCEPT !.phase = "insert", !.code = Refusal(p, q)])
  /\ UNCHANGED <<tables, origin, attempts, request, published>>

(* PartRepository.save: the row is loaded again, then its columns updated. *)
ReloadPart(w, i) ==
  /\ At(w, i, "reload")
  /\ Set(w, i, [task[w][i] EXCEPT !.phase = "update", !.loaded = stock[Item(w, i).part]])
  /\ UNCHANGED <<tables, origin, attempts, request, published>>

UpdatePart(w, i) ==
  /\ At(w, i, "update")
  /\ stock' = [stock EXCEPT ![Item(w, i).part] =
       SaveColumns(@, task[w][i].loaded, task[w][i].part)]
  /\ Advance(w, i, "insert")
  /\ UNCHANGED <<reservation, origin, attempts, request, published>>

(* createReserved and createFailed.                                        *)
NewReservation(quantity, failure) ==
  [status |-> IF failure = NULL THEN "RESERVED" ELSE "FAILED",
   quantity |-> quantity, releasedBy |-> {}]

(* The reservation is inserted, RESERVED or FAILED; the unique key throws. *)
InsertReservation(w, i) ==
  /\ At(w, i, "insert")
  /\ LET o == request[w].order
         p == Item(w, i).part
     IN IF RowOf(w, i).status = "ABSENT"
          THEN /\ reservation' = [reservation EXCEPT ![o][p] =
                    NewReservation(Item(w, i).quantity, task[w][i].code)]
               /\ origin' = [origin EXCEPT ![o][p] =
                    [at |-> attempts, code |-> task[w][i].code]]
               /\ Set(w, i, [task[w][i] EXCEPT !.phase = "done", !.at = attempts])
          ELSE Advance(w, i, "threw") /\ UNCHANGED <<reservation, origin>>
  /\ UNCHANGED <<stock, attempts, request, published>>

(* The database refuses a statement of one task.                           *)
Break(w, i) ==
  /\ i \in DOMAIN task[w] /\ task[w][i].phase \notin {"done", "threw"}
  /\ Advance(w, i, "threw")
  /\ UNCHANGED <<tables, origin, attempts, request, published>>

(* Seeded faults: it takes every item to fail (of ResultName); the result  *)
(* is stamped when it is published (of OccurredAt).                        *)
NameIfAllFailed(results) ==
  IF \A i \in DOMAIN results : results[i].code # NULL
    THEN "stock.reservation.failed" ELSE "stock.reserved"

PublishedAt(results) == attempts

(* Every call has returned: the result is published and confirmed.         *)
ResultName(results) ==
  IF \E i \in DOMAIN results : results[i].code # NULL
    THEN "stock.reservation.failed" ELSE "stock.reserved"

(* reservationResultOccurredAt: the youngest of the reservations; it       *)
(* throws when there is none.                                              *)
OccurredAt(results) == Max({results[i].at : i \in DOMAIN results})

Answer(w) ==
  /\ request[w] # NULL /\ task[w] # <<>>
  /\ \A i \in DOMAIN task[w] : At(w, i, "done")
  /\ published' = published \cup
       {[id |-> request[w].id, name |-> ResultName(task[w]), at |-> OccurredAt(task[w]),
         code |-> [i \in DOMAIN task[w] |-> task[w][i].code]]}
  /\ Finish(w)
  /\ UNCHANGED <<tables, origin, attempts>>

(* The delivery is over without an answer: its tasks have ended and one    *)
(* threw, the publication failed, or, at any moment, the replica died.     *)
Abort(w) ==
  /\ request[w] # NULL
  /\ Finish(w)
  /\ UNCHANGED <<tables, origin, attempts, published>>

Next ==
  \E w \in Worker :
    \/ \E r \in Request : Begin(w, r)
    \/ \E i \in DOMAIN task[w] :
         \/ FindReservation(w, i) \/ FindPart(w, i) \/ ReloadPart(w, i)
         \/ UpdatePart(w, i) \/ InsertReservation(w, i) \/ Break(w, i)
    \/ Answer(w) \/ Abort(w)

Spec == Init /\ [][Next]_vars

-----------------------------------------------------------------------------
(* However often a reserve command is delivered, before or after the       *)
(* release of its order, every envelope published for it is the same one,  *)
(* under the same id (consumeReserve derives it from the reservations).    *)
SameAnswer == \A e, f \in published : e.id = f.id => e = f

(* The saga is told that its stock is reserved only when a reservation of  *)
(* each quantity was made, which only a release may have ended since, and  *)
(* that it failed only when a FAILED row says so.                          *)
AnswerIsBacked ==
  \A e \in published : \A r \in Request : e.id = r.id =>
    LET row(i) == reservation[r.order][r.items[i].part]
    IN /\ \A i \in DOMAIN r.items : row(i).quantity = r.items[i].quantity
       /\ e.name = IF \A i \in DOMAIN r.items : row(i).status \in {"RESERVED", "RELEASED"}
                     THEN "stock.reserved" ELSE "stock.reservation.failed"

(* No more is promised than there was (Part.ensureAvailableStock).         *)
NoOversell == \A p \in Part : ReservedQuantity(p) <= InitialAvailable[p]

(* "returns the existing reservation for duplicate reserve commands":      *)
(* the parts give what the commands ask for, each command counted once.    *)
QuantityOf(r, p) ==
  SumFunctionOnSet([i \in DOMAIN r.items |-> r.items[i].quantity],
                   {i \in DOMAIN r.items : r.items[i].part = p})

TakenOnce ==
  \A p \in Part : stock[p].reserved <= SumFunction([r \in Request |-> QuantityOf(r, p)])
=============================================================================
