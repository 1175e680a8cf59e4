------------------------------- MODULE MCPods -------------------------------
(***************************************************************************)
(* What surrounds a single pod, each on small instances, for TLC: who can  *)
(* open a browser pod, the tunnel pods of one account, and the way from a  *)
(* host to its task.  They share no variable, so interleaving them shows   *)
(* nothing that each by itself does not: part says which instance a        *)
(* behaviour is about.  The others stay as they start, BrowserAuth with a  *)
(* config that nobody deploys and TunnelPod with None.                     *)
(*                                                                         *)
(* "tunnel" is one container with the timing of the code; the tasks of     *)
(* "tunnels" are of one pod, and SIGTERM may meet them anywhere; in "cap"  *)
(* three pod-ups meet the tunnel cap.  The routes are checked where the    *)
(* calls fail that leave a rule or a group behind, and where those fail    *)
(* that leave an address registered.                                       *)
(***************************************************************************)
EXTENDS BrowserAuth, PodRoutes, TLC

CONSTANTS ann, bob, eve, devs, corp, home, Single, Pair, Trio

VARIABLES part, up, warned, box, slots, prompts, poll

tunnelVars == <<up, warned, box, slots, prompts, poll>>

-----------------------------------------------------------------------------
(* ann and bob work together, eve is a stranger with a personal account.   *)
(* Every provider comes with every combination of the keys it reads, the   *)
(* keys it does not read unset; and the deprecated keys alone.             *)

MCUsers == {ann, bob, eve}
Named(provider) == [DefaultBrowser EXCEPT !.provider = provider]
Github ==
  {[Named("github") EXCEPT !.allowedOrg = o, !.allowedUsers = us,
      !.ownerOnly = oo, !.adminUsers = as] :
     o \in {Undefined, Blank, Org}, us \in SUBSET {ann, Blank}, oo \in BOOLEAN,
     as \in SUBSET {<<bob, "login">>, <<bob, "email">>}}
Entra ==
  {[Named("entra-id") EXCEPT !.issuerUrl = i, !.allowedTenants = ts,
      !.allowedGroups = gs, !.allowedEmailDomains = ds, !.ownerOnly = oo,
      !.adminUsers = as] :
     i \in {Undefined, "tenant", "multi", "https", "http"},
     ts \in SUBSET {home, Personal}, gs \in SUBSET {devs},
     ds \in SUBSET {corp, Everyone}, oo \in BOOLEAN,
     as \in SUBSET {<<bob, "email">>}}
Oidc ==
  {[Named("oidc") EXCEPT !.issuerUrl = i, !.allowedGroups = gs,
      !.allowedEmailDomains = ds, !.ownerOnly = oo, !.adminUsers = as] :
     i \in {Undefined, "https", "http"}, gs \in SUBSET {devs},
     ds \in SUBSET {corp, Everyone, Blank}, oo \in BOOLEAN,
     as \in SUBSET {<<bob, "email">>, <<bob, "login">>}}

MCRawConfigs ==
  [browser : Github \cup Entra \cup Oidc, strategy : {"byo"},
   oauthAllowedOrg : {Undefined}, oauthAllowedUsers : {{}}]
  \cup
  [browser : {Undefined, DefaultBrowser}, strategy : {"byo", "alb-default"},
   oauthAllowedOrg : {Undefined, Org}, oauthAllowedUsers : SUBSET {ann, Blank}]

MCGroupsOf == [u \in MCUsers |-> IF u = ann THEN {devs} ELSE {}]
MCDomainOf == [u \in MCUsers |-> IF u = eve THEN Undefined ELSE corp]
MCTenantOf == [u \in MCUsers |-> IF u = eve THEN Personal ELSE home]

Tunnel == INSTANCE TunnelPod WITH
  Tasks <- Single, PodOf <- [t \in Single |-> "pod"], Cap <- 1, MaxUps <- 2,
  Grace <- 30, Loop <- 5, Limit <- 22, TermAt <- {"wait"}, Faults <- {"die", "scan"}
Tunnels == INSTANCE TunnelPod WITH
  Tasks <- Pair, PodOf <- [t \in Pair |-> "pod"], Cap <- 1, MaxUps <- 2,
  Grace <- 1, Loop <- 0, Limit <- 0, TermAt <- {"login", "fork", "wait"},
  Faults <- {"unregister"}
Tunnelled == INSTANCE TunnelPod WITH
  Tasks <- Trio, PodOf <- [t \in Trio |-> t], Cap <- 1, MaxUps <- 2,
  Grace <- 0, Loop <- 0, Limit <- 0, TermAt <- {"login"}, Faults <- {}

(* Both pods start at the last priority, from where the next one wraps;    *)
(* their names differ in the characters that their target groups keep.     *)
MCHash == [p \in Pods |-> 48999]
MCCut  == [p \in Pods |-> p]
LeavesGroups == {"rule", "group", "task", "down"}
MCFaultSets  == {LeavesGroups, {"put", "deregister", "address", "down"}}

Symmetry ==
  Permutations(Pods) \cup Permutations(Ips) \cup Permutations(Pair) \cup Permutations(Trio)

-----------------------------------------------------------------------------

NoAuth ==
  /\ raw = [browser |-> Undefined, strategy |-> "byo", oauthAllowedOrg |-> Undefined,
            oauthAllowedUsers |-> {}]
  /\ deployed = Undefined /\ pods = <<>> /\ threw = {}
NoTunnel ==
  /\ up = None /\ warned = None /\ box = None
  /\ slots = None /\ prompts = None /\ poll = None
NoRoutes == RoutesInit /\ faults = LeavesGroups

PodsInit ==
  \/ part = "auth" /\ Init /\ NoTunnel /\ NoRoutes
  \/ part = "tunnel" /\ Tunnel!Init /\ NoAuth /\ NoRoutes
  \/ part = "tunnels" /\ Tunnels!Init /\ NoAuth /\ NoRoutes
  \/ part = "cap" /\ Tunnelled!Init /\ NoAuth /\ NoRoutes
  \/ part = "routes" /\ RoutesInit /\ NoAuth /\ NoTunnel

PodsNext ==
  \/ part = "auth" /\ Next /\ UNCHANGED <<part, tunnelVars, routeVars>>
  \/ /\ \/ part = "tunnel" /\ Tunnel!Next
        \/ part = "tunnels" /\ Tunnels!Next
        \/ part = "cap" /\ Tunnelled!Next
     /\ UNCHANGED <<part, vars, routeVars>>
  \/ part = "routes" /\ RoutesNext /\ UNCHANGED <<part, vars, tunnelVars>>

PodsSpec == PodsInit /\ [][PodsNext]_<<part, vars, tunnelVars, routeVars>>

-----------------------------------------------------------------------------

(* The variables of each part have their types.                            *)
PodsTypeOK ==
  /\ TypeOK /\ RoutesTypeOK
  /\ part = "tunnel" => Tunnel!TypeOK
  /\ part = "tunnels" => Tunnels!TypeOK
  /\ part = "cap" => Tunnelled!TypeOK

(* A container that is told to end does so within its 30 s.                *)
StopsBeforeKill == part = "tunnel" => Tunnel!StopsBeforeKill
(* A container that was told to end, and ended, leaves no tunnel.          *)
PodDownFreesSlot == part = "tunnel" => Tunnel!PodDownFreesSlot
(* Tunnel pods started without a warning exceed the cap by at most the     *)
(* other pod-ups of that time.                                             *)
UnwarnedFitTheCap == part = "cap" => Tunnelled!UnwarnedFitTheCap
(* The code that a pod-up shows is the one its own task printed.           *)
CodeIsTheTasks == part = "tunnels" => Tunnels!CodeIsTheTasks
=============================================================================
