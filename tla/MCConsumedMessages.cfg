SPECIFICATION Spec
CONSTANTS
  w1 = w1
  w2 = w2
  NULL = NULL
  Worker <- MCWorker
  Lease = 2
  Precision = 3
  MaxClaims = 4
  MaxClock = 6
SYMMETRY Symmetry
INVARIANTS
  TypeOK
  NoOverlapWithinLease
  OnlyLatestClaimCompletes
PROPERTIES
  ProcessedIsFinal
  IsFencedJob
CHECK_DEADLOCK FALSE
