SPECIFICATION Spec

CONSTANTS
  None = None
  Call = {c1, c2, c3}
  Pods = {p1, p2}
  Owners = {}
  Modes = {"browser"}
  TgName <- MCTgName
  MinUid = 10000
  UidLimit = 10002
  CentralAuthHost = FALSE
  Overlap = "none"
  Faults = {"create", "stop"}

SYMMETRY Symmetry
PROPERTY ImplementsPodStates
CHECK_DEADLOCK FALSE
