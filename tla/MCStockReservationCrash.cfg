SPECIFICATION Spec
CONSTANTS
  w1 = w1
  w2 = w2
  o1 = o1
  o2 = o2
  c1 = c1
  c2 = c2
  c3 = c3
  NULL = NULL
  Worker <- MCOneWorker
  Part <- MCPart
  Order <- MCOrder
  Request <- MCOneRequest
  ReleaseCommand = {}
  InitialAvailable <- MCPlenty
  InitialActive <- MCActive
  MaxAttempts = 2
INVARIANTS
  TakenOnce
CHECK_DEADLOCK FALSE
