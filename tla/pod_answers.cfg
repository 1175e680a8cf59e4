SPECIFICATION FairSpec

CONSTANTS
  None = None
  Call = {c1, c2}
  Pods = {p1}
  Owners = {}
  Modes = {"browser"}
  TgName <- MCTgName
  MinUid = 10000
  UidLimit = 10002
  CentralAuthHost = FALSE
  Overlap = "any"
  Faults = {"create", "die"}

PROPERTY EveryInvocationAnswers
CHECK_DEADLOCK FALSE
