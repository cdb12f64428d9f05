---------------------------- MODULE MCExecutions ----------------------------
(***************************************************************************)
(* Two messages of one saga; an execution from before, of the saga and     *)
(* order of the first, or of another saga and the order of the second, so  *)
(* that the second can meet two different executions; failures that share  *)
(* their code, their reason, or what the row keeps of both.                *)
(***************************************************************************)
EXTENDS Executions, TLC

CONSTANTS k1, k2, a1, a2

MCConsumer == {k1, k2}
MCOneCaller == {a1}
MCTwoCallers == {a1, a2}

Request(event, saga, order) == [event |-> event, saga |-> saga, order |-> order]

MCMessage == {Request("e1", "s1", "o1"), Request("e2", "s1", "o2")}
MCOneMessage == {Request("e1", "s1", "o1")}

MCLegacy == {Request(NULL, "s1", "o1"), Request(NULL, "s3", "o2")}
MCNoLegacy == {}

MCFailureCode == {"broken", "overlong"}
MCFailureReason == {"axle"}
MCKeptCode == [code \in MCFailureCode |-> "broken"]
MCFailure == {[code |-> "broken", reason |-> "axle"], [code |-> "broken", reason |-> NULL],
              [code |-> "overlong", reason |-> "axle"]}

Symmetry == Permutations(MCConsumer)
=============================================================================
