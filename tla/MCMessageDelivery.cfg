SPECIFICATION FairDeliverySpec
CONSTANTS
  w1 = w1
  w2 = w2
  NULL = NULL
  Worker <- MCWorker
  Lease = 1
  Precision = 1
  MaxClock = 1
  MaxRetries = 1
  MaxFaults = 2
  MaxClaims = 6
INVARIANTS
  DeliveryTypeOK
  NeverLost
  CopiesAreBounded
  ProcessedIsAnswered
PROPERTIES
  EventuallySettled
CHECK_DEADLOCK FALSE
