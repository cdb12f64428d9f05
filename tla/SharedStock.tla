---------------------------- MODULE SharedStock ----------------------------
(***************************************************************************)
(* Everything that works on the tables of the parts, together: the reserve *)
(* deliveries (StockReservation), which lock nothing, the operators'       *)
(* commands (PartStock), which lock nothing either, and the transactions   *)
(* of the release deliveries (StockRelease), whose row locks make the      *)
(* others' writes wait while their plain reads go on.                      *)
(***************************************************************************)
EXTENDS PartStock

CONSTANTS
  Releaser,         (* release deliveries that may be in flight            *)
  ReleaseRequest,   (* the messages of release commands                    *)
  MaxReleases       (* bound on the calls of the unit of work              *)

VARIABLES
  operation, releases, pc, releaseRequest, snapshot, held, verdict, write, occurredAt,
  released,         (* the envelopes of StockRelease                       *)
  calm,             (* history: no two requests have ever overlapped       *)
  clashed           (* history: the parts of which an operator and another *)
                    (* request have been at work on at once                *)

Release == INSTANCE StockRelease WITH
  Worker <- Releaser, Command <- ReleaseCommand, Request <- ReleaseRequest,
  InitialReservation <- {}, MaxAttempts <- MaxReleases,
  attempts <- releases, request <- releaseRequest, published <- released

(* The assumptions of StockRelease, about the messages of this module.     *)
ASSUME ReleaseAssumption == \A r \in ReleaseRequest : Release!Valid(r)
ASSUME MaxReleasesAssumption == MaxReleases \in Nat
ASSUME NoReleaseAssumption ==
  /\ NULL \notin ReleaseRequest /\ NULL \notin Release!Verdict
  /\ NULL \notin [request : ReleaseRequest,
                  verdict : UNION {[P -> Release!Verdict] : P \in SUBSET Part}, at : Nat]
  /\ NULL \notin [stock : [Part -> StockRow],
                  reservation : [Order -> [Part -> ReservationRow(ReleaseCommand)]]]

(* A request is of one kind only.                                          *)
ASSUME ActorAssumption ==
  /\ Worker \cap Operator = {} /\ Worker \cap Releaser = {} /\ Operator \cap Releaser = {}

reserveVars == <<origin, attempts, request, task, published>>
releaseVars == <<operation, releases, pc, releaseRequest, snapshot, held, verdict, write,
                 occurredAt, released>>
sharedVars == <<tables, reserveVars, operatorVars, releaseVars, calm, clashed>>

SharedTypeOK == PartTypeOK /\ Release!TypeOK /\ calm \in BOOLEAN /\ clashed \subseteq Part

SharedInit == PartInit /\ Release!WorkersInit /\ calm = TRUE /\ clashed = {}

-----------------------------------------------------------------------------
(* No release transaction has the row, or the gap where it would be.       *)
IsFree(name) == \A v \in Releaser : name \notin held[v]

PartIsFree(p) == IsFree(<<"part", p>>)

(* Seeded fault of KeyIsFree: rows are locked, the gaps between them not.  *)
RowIsFree(o, p) ==
  reservation[o][p].status # "ABSENT" => IsFree(<<"reservation", <<o, p>>>>)

KeyIsFree(o, p) == IsFree(<<"reservation", <<o, p>>>>)

ReserveStep(w) ==
  /\ \/ \E r \in Request : Begin(w, r)
     \/ \E i \in DOMAIN task[w] :
          \/ FindReservation(w, i) \/ FindPart(w, i) \/ ReloadPart(w, i)
          \/ PartIsFree(Item(w, i).part) /\ UpdatePart(w, i)
          \/ KeyIsFree(request[w].order, Item(w, i).part) /\ InsertReservation(w, i)
          \/ Break(w, i)
     \/ Answer(w) \/ Abort(w)
  /\ UNCHANGED <<operatorVars, releaseVars>>

OperatorStep(o) ==
  /\ \/ Ask(o)
     \/ ReloadForCommand(o)
     \/ (command[o] # NULL => PartIsFree(command[o].part)) /\ UpdateForCommand(o)
     \/ InsertPart(o) \/ CommandEnds(o)
  /\ UNCHANGED releaseVars

ReleaseStep(v) ==
  /\ \/ \E r \in ReleaseRequest : Release!Begin(v, r)
     \/ Release!Step(v) \/ Release!Abort(v)
  /\ UNCHANGED <<reserveVars, operatorVars>>

(* At most one request is in flight, of an order or of an operator.  The   *)
(* items of a message still overlap, and a crash may come anywhere.        *)
Busy == {w \in Worker : request[w] # NULL} \cup {o \in Operator : command[o] # NULL}
        \cup {v \in Releaser : pc[v] # "idle"}

OneAtATime == \A a, b \in Busy : a = b

(* Who has read a part and may still write what it makes of it: the calls  *)
(* of reserveStock, the commands, the transactions with their snapshot.    *)
CallsOn(w, p) ==
  {i \in DOMAIN task[w] : Item(w, i).part = p /\ task[w][i].phase \in {"reload", "update"}}

CommandsOn(p) == {o \in Operator : command[o] # NULL /\ command[o].part = p}

ReleasesOn(p) ==
  {v \in Releaser : /\ pc[v] \in {"insert", "lockReservation", "lockPart", "commit"}
                    /\ p \in DOMAIN releaseRequest[v].items}

(* An operator's command is at work on a part together with another        *)
(* request.                                                                *)
Clashes(o) ==
  /\ command[o] # NULL
  /\ LET p == command[o].part
     IN CommandsOn(p) # {o} \/ ReleasesOn(p) # {} \/ \E w \in Worker : CallsOn(w, p) # {}

SharedNext ==
  /\ \/ \E w \in Worker : ReserveStep(w)
     \/ \E o \in Operator : OperatorStep(o)
     \/ \E v \in Releaser : ReleaseStep(v)
  /\ calm' = (calm /\ OneAtATime')
  /\ clashed' = clashed \cup {command'[o].part : o \in {u \in Operator : Clashes(u)'}}

SharedSpec == SharedInit /\ [][SharedNext]_sharedVars

-----------------------------------------------------------------------------
(* Nothing keeps a reserve message from naming a part twice (asReserve-    *)
(* Requested).  The calls of reserveStock for it overlap, and when they    *)
(* ask for different quantities the row may be the larger one and the      *)
(* part have set aside the smaller.                                        *)
ItemsAgree ==
  \A r \in Request : \A i, j \in DOMAIN r.items :
    r.items[i].part = r.items[j].part => r.items[i].quantity = r.items[j].quantity

(* As long as no two requests overlap, and where ItemsAgree, a RESERVED    *)
(* row stands for units that its part has set aside, whatever crashes      *)
(* (reserveStock saves the part first); only an operator's release or      *)
(* commit can take them away.                                              *)
OrdersAreCounted ==
  calm => \A p \in Part : ReservedQuantity(p) + byHand[p].reserved <= stock[p].reserved

(* The two quantities of a part add up to what it had and what operators   *)
(* added and took: however the saves of reservations and releases          *)
(* overwrite one another, no unit is created or lost (reserveStock,        *)
(* releaseOne, PartRepository.save).  Only a command that was at work on   *)
(* the part together with another request can break this.                  *)
Balanced ==
  \A p \in Part \ clashed :
    stock[p].available + stock[p].reserved = InitialAvailable[p] + byHand[p].units

(* A deactivated part is frozen, whatever overlaps: no movement, no        *)
(* reservation and no update takes it up any more (findById); and once     *)
(* those that had read it before are over, it only takes units back, from  *)
(* a release, which locks parts whatever their state and never makes one   *)
(* active again, though its snapshot may still show it active.             *)
IsDeactivated(p) == code[p] # NULL /\ ~stock[p].active

IsFrozen(p) == IsDeactivated(p) /\ CommandsOn(p) = {} /\ \A w \in Worker : CallsOn(w, p) = {}

DeactivatedIsFrozen ==
  [][\A p \in Part : IsDeactivated(p) =>
       /\ CommandsOn(p)' \subseteq CommandsOn(p)
       /\ \A w \in Worker : CallsOn(w, p)' \subseteq CallsOn(w, p)
       /\ IsFrozen(p) => stock'[p] = stock[p] \/ operation' # operation
       /\ operation' # operation \/ IsFrozen(p) => ~stock'[p].active]_sharedVars

(* A code names one part for good, also when that part has been            *)
(* deactivated and findByCode no longer sees it (create, idx_parts_code).  *)
CodesAreDistinct ==
  \A p, q \in Part : code[p] # NULL /\ code[p] = code[q] => p = q

(* A saga that has released its order knows of every unit still held for   *)
(* it: a reservation of an item it asked for that is RESERVED now, because *)
(* the reserve command came later or asked for more, was reported as not   *)
(* released and for that reason (releaseOne).                              *)
LeftoversAreReported ==
  \A e \in released : \A p \in DOMAIN e.verdict :
    reservation[e.order][p].status = "RESERVED" =>
      e.verdict[p] \in {"STOCK_RESERVATION_NOT_FOUND", "STOCK_RESERVATION_QUANTITY_MISMATCH",
                        "PART_RESERVED_STOCK_INSUFFICIENT"}

(* A command is decided in one transaction: the items reported as RELEASED *)
(* are those that can be released when it commits, whatever reserved,      *)
(* moved or created while it ran, and their rows become RELEASED in that   *)
(* step, by that command, and no others (executeTransaction, releaseOne).  *)
IsDue(r, p) ==
  /\ reservation[r.order][p].status = "RESERVED"
  /\ reservation[r.order][p].quantity = r.items[p]
  /\ stock[p].reserved >= r.items[p]

IsDecidedNow(c) == operation[c] = NULL /\ operation'[c] # NULL

IsDecidedByRows(c) ==
  LET r == operation'[c].request
      due == {p \in DOMAIN r.items : IsDue(r, p)}
  IN /\ DOMAIN operation'[c].verdict = DOMAIN r.items
     /\ {p \in DOMAIN r.items : operation'[c].verdict[p] = "RELEASED"} = due
     /\ \A o \in Order, p \in Part : reservation'[o][p] =
          IF o = r.order /\ p \in due
            THEN [reservation[o][p] EXCEPT !.status = "RELEASED", !.releasedBy = {c}]
            ELSE reservation[o][p]

DecidedAtCommit ==
  [][\A c \in ReleaseCommand : IsDecidedNow(c) => IsDecidedByRows(c)]_sharedVars

(* What a command reports as released is what it released, with the rows   *)
(* of its order inserted before, between and after its statements.         *)
ReleasesArePhysical == Release!ReportIsPhysical

(* "locks and releases a RESERVED item in one transaction": an item that a *)
(* release reports as RELEASED goes back to what the part has available    *)
(* in the transaction that says so.                                        *)
IsGrantedNow(c, p) ==
  /\ operation[c] = NULL /\ operation'[c] # NULL
  /\ p \in DOMAIN operation'[c].verdict /\ operation'[c].verdict[p] = "RELEASED"

ReleaseReturnsUnits ==
  [][\A c \in ReleaseCommand, p \in Part : IsGrantedNow(c, p) =>
       stock'[p].available = stock[p].available + operation'[c].request.items[p]]_sharedVars
=============================================================================
