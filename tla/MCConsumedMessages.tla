------------------------ MODULE MCConsumedMessages ------------------------
(***************************************************************************)
(* Two replicas handle deliveries of one message.  With a lease of two     *)
(* ticks and a clock that reaches five, a lease can be live, expire, be    *)
(* taken over and the take-over's lease expire too; a column unit of two   *)
(* ticks rounds some leases up.                                            *)
(***************************************************************************)
EXTENDS ConsumedMessages, TLC

CONSTANTS w1, w2

MCWorker == {w1, w2}

Symmetry == Permutations(MCWorker)
=============================================================================
