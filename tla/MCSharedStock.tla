--------------------------- MODULE MCSharedStock ---------------------------
(***************************************************************************)
(* A part that two orders want and another that operators may create, a    *)
(* message that names no part, and a release command per order, one of     *)
(* them for a part that its order never had.  Every kind of command is     *)
(* given for the first part.                                               *)
(***************************************************************************)
EXTENDS SharedStock, TLC

CONSTANTS w1, w2, v1, op1, o1, o2, c1, c2, c3, d1, d2

MCWorker == {w1, w2}
MCReleaser == {v1}
MCOperator == {op1}
MCNobody == {}
MCPart == {1, 2}
MCOrder == {o1, o2}

Take(p, q) == [part |-> p, quantity |-> q]

MCRequest ==
  { [id |-> c1, order |-> o1, items |-> <<Take(1, 1)>>],
    [id |-> c2, order |-> o2, items |-> <<Take(2, 1), Take(1, 2)>>],
    [id |-> c3, order |-> o1, items |-> <<>>] }

(* Two orders that want the same quantity.                                 *)
MCAlike ==
  { [id |-> c1, order |-> o1, items |-> <<Take(1, 1)>>],
    [id |-> c2, order |-> o2, items |-> <<Take(1, 1)>>] }

MCReleaseCommand == {d1, d2}
MCReleaseRequest ==
  { [id |-> d1, order |-> o1, items |-> 1 :> 1 @@ 2 :> 1],
    [id |-> d2, order |-> o2, items |-> 1 :> 2] }

MCCommand == {[kind |-> k, part |-> 1, quantity |-> 1] : k \in Kind}
             \cup {[kind |-> "delete", part |-> 2, quantity |-> 1]}

MCCode == {"a", "b"}
MCCreation == [kind : {"create"}, part : {2}, quantity : {1}, code : MCCode]

MCInitialCode == 1 :> "a" @@ 2 :> NULL
MCAvailable == 1 :> 3 @@ 2 :> 0
Symmetry == Permutations(MCWorker)
(* Any three requests, of the same sort or of several.                     *)
MaxRequests == 3
FewRequests == attempts + commands + releases <= MaxRequests

(* What operators and releases ask leaves room for as many calls of        *)
(* reserveStock at once: two beside the first of them, one beside two.     *)
Calls == {<<w, i>> \in MCWorker \X (1..2) : i \in DOMAIN task[w]}
MaxAtOnce == 3
FewAtOnce ==
  commands + releases > 0 => Cardinality(Calls) + commands + releases <= MaxAtOnce

MCActive == {1 :> TRUE @@ 2 :> FALSE}
=============================================================================
