----------------------- MODULE MCBrokerSubscriptions -----------------------
(***************************************************************************)
(* The two queues that the service subscribes to.                          *)
(***************************************************************************)
EXTENDS BrokerSubscriptions, TLC

CONSTANTS stockRequests, executionRequests

MCSubscription == {stockRequests, executionRequests}
=============================================================================
