SPECIFICATION Spec
CONSTANTS
  c1 = c1
  c2 = c2
  i1 = i1
  i2 = i2
  p1 = p1
  p2 = p2
  NULL = NULL
  Client <- MCClient
  Item <- MCItem
  Name <- MCName
  Price <- MCPrice
  Fold <- MCFold
  MaxRequests = 5
SYMMETRY Symmetry
INVARIANTS
  TypeOK
  NamesAreDistinct
  NothingIsLost
PROPERTIES
  StaysDeactivated
CHECK_DEADLOCK FALSE
