------------------------- MODULE MCMessageDelivery -------------------------
(***************************************************************************)
(* Two replicas, one retry before the dead letters.  The bound on claims   *)
(* is never reached: every fault adds at most one copy to the one there    *)
(* was, and a copy is claimed MaxRetries + 1 times.                        *)
(***************************************************************************)
EXTENDS MessageDelivery

CONSTANTS w1, w2

MCWorker == {w1, w2}
=============================================================================
