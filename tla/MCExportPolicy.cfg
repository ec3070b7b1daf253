CONSTANTS
  Accounts = {"org1", "org2", "org1:sub"}
  Orgs = {"org1", "org2"}
  OrgOf <- MCOrgOf
  Specs <- MCSpecs
  MaxEdits <- MCMaxEdits
  MaxFaults <- MCMaxFaults
  Patience = {TRUE, FALSE}
SPECIFICATION FairSpec
CHECK_DEADLOCK FALSE
INVARIANTS
  TypeOK
  NoUnfoundedGrant
PROPERTIES
  GrantsConverge
  PolicyDeletionCompletes
