SPECIFICATION Spec

CONSTANTS
  None = None
  Call = {c1, c2}
  Pods = {p1, p2}
  Owners = {}
  Modes = {"tunnel"}
  TgName <- MCTgName
  MinUid = 10000
  UidLimit = 10002
  CentralAuthHost = FALSE
  Overlap = "none"
  Faults = {}

SYMMETRY Symmetry
INVARIANT UidIsUniquePerPod
CHECK_DEADLOCK FALSE
