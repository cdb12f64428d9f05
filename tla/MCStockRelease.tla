--------------------------- MODULE MCStockRelease ---------------------------
(***************************************************************************)
(* Two deliveries at a time, of a command and its duplicate, of a second   *)
(* command for the same reservations, of one that asks for part of them    *)
(* under a used id, and of another order's command for a shared part.      *)
(***************************************************************************)
EXTENDS StockRelease, TLC

CONSTANTS w1, w2, o1, o2, c1, c2, c3

MCWorker == {w1, w2}
MCPart == {1, 2}
MCOrder == {o1, o2}
MCCommand == {c1, c2, c3}

Ask(id, order, items) == [id |-> id, order |-> order, items |-> items]

MCRequest ==
  { Ask(c1, o1, 1 :> 2 @@ 2 :> 1),
    Ask(c1, o1, 1 :> 2),
    Ask(c2, o1, 2 :> 1 @@ 1 :> 1),
    Ask(c3, o2, 1 :> 1 @@ 2 :> 2) }

Row(status, quantity) == [status |-> status, quantity |-> quantity, releasedBy |-> {}]

MCReservation ==
  { o1 :> (1 :> Row("RESERVED", 2) @@ 2 :> Row("RESERVED", 1)) @@
    o2 :> (1 :> Row("RESERVED", 1) @@ 2 :> other) :
    other \in {Row("ABSENT", 0), Row("RESERVED", 2), Row("FAILED", 2), Row("COMMITTED", 2)} }

MCAvailable == [p \in MCPart |-> 1]

Symmetry == Permutations(MCWorker)
=============================================================================
