SPECIFICATION SharedSpec
CONSTANTS
  w1 = w1
  w2 = w2
  v1 = v1
  op1 = op1
  o1 = o1
  o2 = o2
  c1 = c1
  c2 = c2
  c3 = c3
  d1 = d1
  d2 = d2
  NULL = NULL
  Worker <- MCWorker
  Operator <- MCOperator
  Releaser <- MCReleaser
  Part <- MCPart
  Order <- MCOrder
  Request <- MCRequest
  ReleaseCommand <- MCReleaseCommand
  ReleaseRequest <- MCReleaseRequest
  Command <- MCCommand
  Creation <- MCCreation
  PartCode <- MCCode
  InitialCode <- MCInitialCode
  InitialAvailable <- MCAvailable
  InitialActive <- MCActive
  MaxAttempts = 3
  MaxCommands = 3
  MaxReleases = 3
SYMMETRY Symmetry
CONSTRAINTS
  FewRequests
  FewAtOnce
INVARIANTS
  SharedTypeOK
  OrdersAreCounted
  Balanced
  CodesAreDistinct
  SameAnswer
  AnswerIsBacked
  LeftoversAreReported
  ReleasesArePhysical
PROPERTIES
  DeactivatedIsFrozen
  DecidedAtCommit
CHECK_DEADLOCK FALSE
