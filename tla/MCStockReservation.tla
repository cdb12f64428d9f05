------------------------ MODULE MCStockReservation ------------------------
(***************************************************************************)
(* A command for two parts, a command of the same order for one of them in *)
(* another quantity, and another order's command for a part that has not   *)
(* enough units for both.                                                  *)
(***************************************************************************)
EXTENDS StockReservation, TLC

CONSTANTS w1, w2, o1, o2, c1, c2, c3

MCOneWorker == {w1}
MCTwoWorkers == {w1, w2}
MCPart == {1, 2}
MCOrder == {o1, o2}

Take(p, q) == [part |-> p, quantity |-> q]
Ask(id, order, items) == [id |-> id, order |-> order, items |-> items]

MCRequest ==
  { Ask(c1, o1, <<Take(1, 2), Take(2, 1)>>),
    Ask(c2, o1, <<Take(1, 1)>>),
    Ask(c3, o2, <<Take(1, 2)>>) }
MCOneRequest == { Ask(c3, o2, <<Take(1, 2)>>) }

MCAvailable == 1 :> 3 @@ 2 :> 1
MCActive == { 1 :> TRUE @@ 2 :> b : b \in BOOLEAN }
MCPlenty == 1 :> 9 @@ 2 :> 9

Symmetry == Permutations(MCTwoWorkers)
=============================================================================
