CONSTANTS
  m1 = "m1"  u1 = "u1"
  NoVersion = NoVersion
  Models = {"m1"}
  Versions = {"v1"}
  StoreTuples = {"t1"}
  ModelTuples <- MCModelTuples
  Foreign = 1
  PageSize = 4
  MaxStoreId = 4
  MaxEdits <- MCMaxEdits
  MaxFaults <- MCMaxFaults
  Patience = {FALSE}
SPECIFICATION Spec
CHECK_DEADLOCK FALSE
INVARIANT
  NoTupleLeftBehind
