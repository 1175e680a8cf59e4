SPECIFICATION Spec

CONSTANTS
  None = None
  Call = {c1, c2, c3}
  Pods = {p1}
  Owners = {}
  Modes = {"browser", "tunnel"}
  TgName <- MCTgName
  MinUid = 10000
  UidLimit = 10002
  CentralAuthHost = FALSE
  Overlap = "ups"
  Faults = {"create", "lost"}

SYMMETRY Symmetry
INVARIANT NoOrphans
INVARIANT FailedUpLeavesNothing
CHECK_DEADLOCK FALSE
