CONSTANTS
  stockRequests = stockRequests
  executionRequests = executionRequests
  NULL = NULL
  Subscription <- MCSubscription
  MaxFaults = 2
SPECIFICATION FairSpec
PROPERTIES
  FailedSetupIsRetried
CHECK_DEADLOCK FALSE
