--------------------------- MODULE AtomicRelease ---------------------------
(***************************************************************************)
(* What a stock release promises: each command is decided once, in one     *)
(* step, against the tables as they are then; the stock moves exactly for  *)
(* the items reported as released, and the decision is kept.               *)
(***************************************************************************)
EXTENDS StockTables

CONSTANTS
  Command,    (* ids of release commands                                   *)
  Request,    (* what a command may ask: [id, order, items]                *)
  NULL

VARIABLE decision   (* per command: NULL, or the request and its verdicts  *)

vars == <<stock, reservation, decision>>

Init == /\ decision = [c \in Command |-> NULL]
        /\ \A o \in Order, p \in Part : reservation[o][p].status # "RELEASED"

Grants(r, p) ==
  /\ reservation[r.order][p].status = "RESERVED"
  /\ reservation[r.order][p].quantity = r.items[p]
  /\ stock[p].reserved >= r.items[p]

Granted(r) == {p \in DOMAIN r.items : Grants(r, p)}

Decide(r) ==
  /\ decision[r.id] = NULL
  /\ decision' = [decision EXCEPT ![r.id] = [request |-> r, granted |-> Granted(r)]]
  /\ stock' = [p \in Part |->
       IF p \in Granted(r)
         THEN [stock[p] EXCEPT !.available = @ + r.items[p], !.reserved = @ - r.items[p]]
         ELSE stock[p]]
  /\ reservation' = [o \in Order |-> [p \in Part |->
       IF o = r.order /\ p \in Granted(r)
         THEN [reservation[o][p] EXCEPT !.status = "RELEASED", !.releasedBy = {r.id}]
         ELSE reservation[o][p]]]

Next == \E r \in Request : Decide(r)

Spec == Init /\ [][Next]_vars
=============================================================================
