CONSTANTS
  Names = {"a", "b"}
  Secrets = {"s1", "s2"}
  NoSecret = "none"
  Specs <- MCAddDrop
  MaxId = 4
  MaxEdits = 3
  MaxFaults = 2
  Patience = {FALSE}
SPECIFICATION Spec
CHECK_DEADLOCK FALSE
INVARIANTS
  ClientToUpdateExists
