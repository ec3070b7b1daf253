CONSTANTS
  Accounts = {"a", "b"}
  Users = {"u1"}
  Roles = {"owner", "member"}
  NoUser = "nobody"
  Org = "org"
  MaxClusters = 2
  MaxShares = 1
  MaxFaults = 1
  Patience = {TRUE, FALSE}
SPECIFICATION FairSpec
CHECK_DEADLOCK FALSE
INVARIANTS
  TypeOK
  NothingInherited
  ReadyAccountsAreOwned
PROPERTIES
  TuplesFallWithTheirAccount
  AccountsSettle
