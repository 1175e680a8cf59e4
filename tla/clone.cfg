SPECIFICATION CloneSpec

CONSTANTS
  Cmds = {"terminal"}
  Regions = {"region"}
  DefaultRegion = "region"
  Names = {"alice", "007", "bob"}
  OrgMembers = {"bob"}
  Owners = {"alice", "alice ", "007"}
  Trimmed <- MCTrimmed
  Numeric = {"007"}
  Zones = {"zone", "short"}
  ValidIds = {"zone"}
  Accounts <- MCAccounts
  Domains = {"pods.zone"}
  UserLists <- MCUserLists
  Org = "org"
  Tenants = {"tenant"}
  Groups = {"group"}
  FlagSets <- MCFlagSets
  Blank = Blank
  None = None
  Runs = {"r1", "r2"}
  Keys = {"k1", "k2"}
  MaxFaults = 3
  NoKey = NoKey

INVARIANT CloneTypeOK
INVARIANT WrittenConfigLoads
INVARIANT RestrictedAsAnswered
INVARIANT ModesAgree
INVARIANT NeverNeither
INVARIANT ExitZeroMeansGone
INVARIANT UntouchedFilesFollow
PROPERTY EditsAreNotOverwritten
PROPERTY ModifiedFilesAreKept
PROPERTY EditsSurviveSync
PROPERTY SyncCatchesUp
CHECK_DEADLOCK FALSE
