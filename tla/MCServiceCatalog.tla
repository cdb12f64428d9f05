-------------------------- MODULE MCServiceCatalog --------------------------
(***************************************************************************)
(* Two items, a name in two spellings that the collation takes for one,    *)
(* another name, and two clients.                                          *)
(***************************************************************************)
EXTENDS ServiceCatalog, TLC

CONSTANTS c1, c2, i1, i2, p1, p2

MCClient == {c1, c2}
MCItem == {i1, i2}
MCName == {"polish", "Polish", "rotate"}
MCPrice == {p1, p2}
MCFold(name) == IF name = "Polish" THEN "polish" ELSE name

Symmetry == Permutations(MCClient) \cup Permutations(MCItem) \cup Permutations(MCPrice)
=============================================================================
