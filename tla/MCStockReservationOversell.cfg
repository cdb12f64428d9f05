SPECIFICATION Spec
CONSTANTS
  w1 = w1
  w2 = w2
  o1 = o1
  o2 = o2
  c1 = c1
  c2 = c2
  c3 = c3
  NULL = NULL
  Worker <- MCTwoWorkers
  Part <- MCPart
  Order <- MCOrder
  Request <- MCRequest
  ReleaseCommand = {}
  InitialAvailable <- MCAvailable
  InitialActive <- MCActive
  MaxAttempts = 2
INVARIANTS
  NoOversell
CHECK_DEADLOCK FALSE
