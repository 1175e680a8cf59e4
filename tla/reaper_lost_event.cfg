SPECIFICATION ReaperFairSpec

CONSTANTS
  None = None
  Call = {c1, r1}
  ReaperCalls = {r1}
  Pods = {p1}
  NeverIdle = {}
  Owners = {}
  Modes = {"tunnel"}
  TgName <- MCTgName
  MinUid = 10000
  UidLimit = 10001
  CentralAuthHost = FALSE
  Overlap = "none"
  Faults = {"stop"}
  MaxThrows = 0

PROPERTY StoppedPodIsCleaned
CHECK_DEADLOCK FALSE
