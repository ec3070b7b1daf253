CONSTANTS
  Tuples = {"creator", "member"}
  Base = {"org"}
  OrgClient = "org"
  UserClients = {"own"}
  Types = {"org", "account"}
  MaxEdits = 2
  MaxFaults = 1
SPECIFICATION FairSpec
CHECK_DEADLOCK FALSE
INVARIANTS
  TypeOK
  ReadyOrganizationIsUsable
  UserClientsRespected
  InviteReachesCreator
PROPERTIES
  OrganizationsBecomeReady
