SPECIFICATION Spec

CONSTANTS
  None = None
  Call = {c1, c2}
  Pods = {p1}
  Owners = {}
  Modes = {"tunnel"}
  TgName <- MCTgName
  MinUid = 10000
  UidLimit = 10002
  CentralAuthHost = FALSE
  Overlap = "any"
  Faults = {}

SYMMETRY Symmetry
PROPERTY ReusedWorkspaceIsNeverDeleted
CHECK_DEADLOCK FALSE
