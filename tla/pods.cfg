SPECIFICATION PodsSpec

CONSTANTS
  None = None
  Blank = Blank
  Everyone = Everyone
  Personal = Personal
  Org = Org
  ann = ann
  bob = bob
  eve = eve
  devs = devs
  corp = corp
  home = home
  Users <- MCUsers
  Groups = {devs}
  Domains = {corp}
  Tenants = {home}
  HomeTenant = home
  OrgMembers = {ann, bob}
  GroupsOf <- MCGroupsOf
  DomainOf <- MCDomainOf
  TenantOf <- MCTenantOf
  RawConfigs <- MCRawConfigs
  BrowserPods = {p1, p2}
  Undefined = Undefined
  Pods = {p1, p2}
  Hash <- MCHash
  Cut <- MCCut
  RuleLimit = 6
  FaultSets <- MCFaultSets
  Ips = {i1, i2}
  Single = {t0}
  Pair = {t1, t2}
  Trio = {u1, u2, u3}

SYMMETRY Symmetry
INVARIANT PodsTypeOK
INVARIANT NoPodIsOpenToAll
INVARIANT OwnerOnlyIsOwnerOnly
INVARIANT OwnerCanSignIn
INVARIANT AcceptedConfigNeverThrows
INVARIANT StopsBeforeKill
INVARIANT PodDownFreesSlot
INVARIANT UnwarnedFitTheCap
INVARIANT CodeIsTheTasks
INVARIANT RoutedToOwnTask
INVARIANT GivesUpAfterFive
CHECK_DEADLOCK FALSE
