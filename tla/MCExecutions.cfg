SPECIFICATION Spec
CONSTANTS
  k1 = k1
  k2 = k2
  a1 = a1
  a2 = a2
  NULL = NULL
  Consumer <- MCConsumer
  Caller <- MCOneCaller
  Message <- MCMessage
  Legacy <- MCLegacy
  Failure <- MCFailure
  FailureCode <- MCFailureCode
  FailureReason <- MCFailureReason
  KeptCode <- MCKeptCode
  MaxDeliveries = 3
  MaxCommands = 3
SYMMETRY Symmetry
INVARIANTS
  TypeOK
  AcceptedHasExecution
  EventsAgreeWithRow
  OneContentPerEventId
  EventsAreComplete
PROPERTIES
  IsLifecycle
CHECK_DEADLOCK FALSE
