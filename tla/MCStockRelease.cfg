SPECIFICATION Spec
CONSTANTS
  w1 = w1
  w2 = w2
  o1 = o1
  o2 = o2
  c1 = c1
  c2 = c2
  c3 = c3
  NULL = NULL
  Worker <- MCWorker
  Part <- MCPart
  Order <- MCOrder
  Command <- MCCommand
  Request <- MCRequest
  InitialReservation <- MCReservation
  InitialAvailable <- MCAvailable
  MaxAttempts = 4
SYMMETRY Symmetry
INVARIANTS
  TypeOK
  StockConserved
  ReportIsPhysical
  SameEnvelope
  NoDeadlock
PROPERTIES
  IsAtomicRelease
CHECK_DEADLOCK FALSE
