SPECIFICATION Spec

CONSTANTS
  None = None
  Call = {c1, c2, c3}
  Pods = {p1}
  Owners = {}
  Modes = {"browser"}
  TgName <- MCTgName
  MinUid = 10000
  UidLimit = 10002
  CentralAuthHost = FALSE
  Overlap = "none"
  Faults = {"create", "delete", "die", "stop"}

SYMMETRY Symmetry
INVARIANT RegisteredPodIsIntact
INVARIANT OneWorkspacePerPod
PROPERTY AdoptedWorkspaceIsKept
CHECK_DEADLOCK FALSE
