CONSTANTS
  Names = {"a", "b"}
  Secrets = {"s1", "s2"}
  NoSecret = "none"
  Specs <- MCSpecs
  MaxId = 6
  MaxEdits = 4
  MaxFaults = 2
  Patience = {TRUE, FALSE}
SPECIFICATION FairSpec
CHECK_DEADLOCK FALSE
INVARIANTS
  TypeOK
  NoDuplicateClient
  NoOrphanedClient
  NoLeakedSecret
PROPERTIES
  ClientsConverge
  IdpDeletionCompletes
  IdpProvides
