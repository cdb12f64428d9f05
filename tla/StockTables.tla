---------------------------- MODULE StockTables ----------------------------
(***************************************************************************)
(* The two tables that every stock operation of the part module works on,  *)
(* and the external TypeORM call that all of them write through.  A saga   *)
(* and its order are one name here: the code always uses them together.    *)
(***************************************************************************)
EXTENDS Integers, FiniteSets, Functions

CONSTANTS
  Part,   (* part ids: integers, because the code sorts them               *)
  Order   (* sagaId and orderId                                            *)

ASSUME PartAssumption == IsFiniteSet(Part) /\ Part \subseteq Int
ASSUME OrderAssumption == IsFiniteSet(Order)

VARIABLES
  stock,        (* parts: the quantities of every part, and its active flag *)
  reservation   (* stock_reservations: one row per order and part          *)

tables == <<stock, reservation>>

StockRow == [available : Int, reserved : Int, active : BOOLEAN]

ReservationStatus == {"ABSENT", "RESERVED", "RELEASED", "COMMITTED", "FAILED"}

(* releasedBy is the released_by_event_id column: a set of at most one id. *)
ReservationRow(Event) ==
  [status : ReservationStatus, quantity : Nat, releasedBy : SUBSET Event]

(* f maps some of the parts to elements of R.                              *)
IsPartMap(f, R) == DOMAIN f \subseteq Part /\ f \in [DOMAIN f -> R]

(* Repository.save(entity) loads the row again and updates only the        *)
(* columns in which the entity differs from what it has just loaded.       *)
SaveColumns(current, loaded, entity) ==
  [c \in DOMAIN current |-> IF entity[c] = loaded[c] THEN current[c] ELSE entity[c]]

(* What the rows of a part add up to that have a given status.             *)
QuantityIn(p, status) ==
  SumFunctionOnSet([o \in Order |-> reservation[o][p].quantity],
                   {o \in Order : reservation[o][p].status = status})

ReservedQuantity(p) == QuantityIn(p, "RESERVED")
=============================================================================
