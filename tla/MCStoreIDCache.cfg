CONSTANTS
  Callers = {c1, c2}
  Names = {org1, org2}
  PageSize = 2
  MaxStoreId = 3
  MaxFaults = 1
SPECIFICATION Spec
SYMMETRY Interchangeable
CHECK_DEADLOCK FALSE
INVARIANTS
  TypeOK
  IdsBelongToNames
  NotFoundIsTrue
