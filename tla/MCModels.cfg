CONSTANTS
  Bindings = {"a", "b", "c", "kcp.io"}
  Workspaces = {"w1", "w2"}
  Orgs = {"org1", "org2"}
  WorkspaceOf <- MCWorkspaceOf
  OrgOf <- MCOrgOf
  ExportOf <- MCExportOf
  SchemasOf <- MCSchemasOf
  Internal = {"tenancy.kcp.io"}
  Exempt = {"kcp.io"}
  Workers = 2
  MaxFaults <- MCMaxFaults
  MaxBinds = 2
  Patience = {TRUE, FALSE}
  Letters = {"x", "y"}
  Groups <- MCNames
  Plurals <- MCNames
  Core <- MCCore
  MaxLength = 12
SPECIFICATION FairSpec
CHECK_DEADLOCK FALSE
INVARIANTS
  TypeOK
  OnlyCrossingLeaks
  BoundModelsExist
  AccountInfoOutlivesBindings
PROPERTIES
  ModelsFallWithTheirBindings
  DeletionsComplete
