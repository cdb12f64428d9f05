CONSTANTS
  stockRequests = stockRequests
  executionRequests = executionRequests
  NULL = NULL
  Subscription <- MCSubscription
  MaxFaults = 4
SPECIFICATION FairSpec
INVARIANTS
  TypeOK
  RecoveryIsPending
  ConsumedOnce
PROPERTIES
  EventuallyConsuming
CHECK_DEADLOCK FALSE
