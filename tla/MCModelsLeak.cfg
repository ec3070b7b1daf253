CONSTANTS
  Bindings = {"a", "b", "c", "kcp.io"}
  Workspaces = {"w1", "w2"}
  Orgs = {"org1", "org2"}
  WorkspaceOf <- MCWorkspaceOf
  OrgOf <- MCOrgOf
  ExportOf <- MCExportOf
  SchemasOf <- MCSchemasOf
  Internal = {"tenancy.kcp.io"}
  Exempt = {"kcp.io"}
  Workers = 2
  MaxFaults <- MCNoFaults
  MaxBinds = 2
  Patience = {TRUE}
  Letters = {"x", "y"}
  Groups <- MCNames
  Plurals <- MCNames
  Core <- MCCore
  MaxLength = 12
SPECIFICATION Spec
CHECK_DEADLOCK FALSE
INVARIANT
  NoLeakedModel
