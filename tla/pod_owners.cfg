SPECIFICATION Spec

CONSTANTS
  None = None
  Call = {c1, c2, c3}
  Pods = {p1, p2}
  Owners = {ann, bob}
  Modes = {"tunnel"}
  TgName <- MCTgName
  MinUid = 10000
  UidLimit = 10001
  CentralAuthHost = TRUE
  Overlap = "any"
  Faults = {}

SYMMETRY Symmetry
INVARIANT TypeOK
INVARIANT WorkspaceIsThePods
INVARIANT WorkspaceOwnerBinding
CHECK_DEADLOCK FALSE
