SPECIFICATION ReaperFairSpec

CONSTANTS
  None = None
  Call = {c1, c2, r1}
  ReaperCalls = {r1}
  Pods = {p1}
  NeverIdle = {}
  Owners = {}
  Modes = {"browser"}
  TgName <- MCTgName
  MinUid = 10000
  UidLimit = 10001
  CentralAuthHost = FALSE
  Overlap = "none"
  Faults = {"stop"}
  MaxThrows = 1

INVARIANT ReaperTypeOK
INVARIANT ReapedPodWasWarned
PROPERTY WorkspaceSurvivesReaper
PROPERTY UselessPodIsReaped
CHECK_DEADLOCK FALSE
