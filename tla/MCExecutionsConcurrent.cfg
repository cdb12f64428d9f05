SPECIFICATION Spec
CONSTANTS
  k1 = k1
  k2 = k2
  a1 = a1
  a2 = a2
  NULL = NULL
  Consumer <- MCConsumer
  Caller <- MCTwoCallers
  Message <- MCOneMessage
  Legacy <- MCNoLegacy
  Failure <- MCFailure
  FailureCode <- MCFailureCode
  FailureReason <- MCFailureReason
  KeptCode <- MCKeptCode
  MaxDeliveries = 1
  MaxCommands = 4
PROPERTIES
  TerminalIsFinal
CHECK_DEADLOCK FALSE
