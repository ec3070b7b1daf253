CONSTANTS
  Callers = {c1, c2}
  Names = {org1, org2}
  PageSize = 1
  MaxStoreId = 3
  MaxFaults = 1
SPECIFICATION Spec
CHECK_DEADLOCK FALSE
INVARIANT
  ErrorIsOwn
