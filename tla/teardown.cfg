SPECIFICATION FairSpec

CONSTANTS
  None = None
  Pods = {p1}
  MaxRuns = 3
  ListLimit = 50
  FaultSets = {{"call", "destroy"}, {"cancel"}, {"local"}, {"list"}}

INVARIANT TypeOK
INVARIANT DestroyMeetsNoPod
PROPERTY WorkspacesLostOnlyIfAgreed
PROPERTY EveryRunCompletes
CHECK_DEADLOCK FALSE
