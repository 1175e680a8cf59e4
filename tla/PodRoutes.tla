------------------------------ MODULE PodRoutes ------------------------------
(***************************************************************************)
(* How the host of a browser pod finds its task: the listener rule and its *)
(* priority (priority.ts, createListenerRule in aws.ts), the target group  *)
(* and the address registered in it, through the browser part of podUp,    *)
(* its rollback and podDown (actions.ts).  ELB and ECS are external.  The  *)
(* calls for one pod are serial here; PodLifecycle lets them overlap, and  *)
(* lets stopTask fail.  A task may end by itself at any time, and its      *)
(* address is then free for another.                                       *)
(***************************************************************************)
EXTENDS FiniteSets, Integers

CONSTANTS
  Pods, Ips,  \* pods, and the addresses that tasks get
  Hash,       \* fnv1a of each pod's name
  Cut,        \* the first 28 characters of each pod's name
  RuleLimit,  \* ELB: rules per listener
  FaultSets,  \* of "rule", "group", "deregister", "put": that call fails;
              \* "task": the task does not start; "address": describeTasks
              \* gives no private address; "down": podDown throws midway
  None

Span     == 49000
Base     == 1000
Attempts == 5
MaxPriority == 50000  \* ELB: the last priority of a rule

VARIABLES
  step,     \* of each pod: its row's state, or where podUp or podDown is
  rows,     \* the pods with a row, that is, those podDown works on
  priority, \* the priority that createListenerRule tries
  refused,  \* the priorities that were in use in this podUp
  attempt,  \* how often it tried
  rule,     \* ruleArn: the rule of this podUp or row, or None
  rules,    \* ELB: the rules of the listener
  groups,   \* ELB: the names of the target groups
  targets,  \* ELB: the addresses registered in each
  live,     \* the pods whose task runs
  addr,     \* the address of each pod's latest task, or None
  told,     \* the pods whose podUp was given that address
  faults    \* one of FaultSets: the calls that may fail in this behaviour

locals == <<priority, refused, attempt>>
routeVars   == <<step, rows, locals, rule, rules, groups, targets, live, addr, told,
               faults>>

Steps == {"down", "rule", "gaveUp", "run", "target", "put", "up",
          "stop", "unrule", "deregister", "ungroup", "half"}
ElbRule == [priority : 1 .. MaxPriority, host : Pods, group : {Cut[p] : p \in Pods}]

(* FNV-1a gives a natural number; an address and a rule are not taken for  *)
(* a missing one.                                                          *)
ASSUME RoutesAssumption == Hash \in [Pods -> Nat] /\ None \notin Ips /\ None \notin ElbRule

RoutesTypeOK ==
  /\ faults \in FaultSets
  /\ step \in [Pods -> Steps] /\ rows \subseteq Pods
  /\ \A p \in Pods : priority[p] \in Base .. Base + Span - 1
  /\ \A p \in Pods : refused[p] \subseteq 1 .. MaxPriority
  /\ attempt \in [Pods -> 0 .. Attempts]
  /\ \A p \in Pods : rule[p] \in ElbRule \cup {None}
  /\ \A r \in rules : r \in ElbRule /\ r.group \in groups
  /\ \A q, r \in rules : q.priority = r.priority => q = r
  /\ targets \in [{Cut[p] : p \in Pods} -> SUBSET Ips]
  /\ live \subseteq Pods /\ addr \in [Pods -> Ips \cup {None}] /\ told \subseteq Pods

PriorityForPod(p) == (Hash[p] % Span) + Base
(* Mutants: the same priority again; a step without the wrap.              *)
SamePriority(q)      == q
UnwrappedPriority(q) == q + 1 + Base
NextPriority(q)      == ((q + 1) % Span) + Base
GroupName(p) == Cut[p]

RoutesInit ==
  /\ faults \in FaultSets
  /\ step = [p \in Pods |-> "down"] /\ rows = {}
  /\ priority = [p \in Pods |-> PriorityForPod(p)]
  /\ refused = [p \in Pods |-> {}] /\ attempt = [p \in Pods |-> 0]
  /\ rule = [p \in Pods |-> None] /\ rules = {} /\ groups = {}
  /\ targets = [g \in {Cut[p] : p \in Pods} |-> {}]
  /\ live = {} /\ addr = [p \in Pods |-> None] /\ told = {}

At(p, s)   == step[p] = s
Goto(p, s) == step' = [step EXCEPT ![p] = s]

-----------------------------------------------------------------------------
(* podUp.                                                                  *)

(* ELB answers with the group of that name, if there is one.               *)
UpCreatesGroup(p) ==
  /\ At(p, "down") /\ Goto(p, "rule")
  /\ groups' = groups \cup {GroupName(p)}
  /\ priority' = [priority EXCEPT ![p] = PriorityForPod(p)]
  /\ refused' = [refused EXCEPT ![p] = {}] /\ attempt' = [attempt EXCEPT ![p] = 0]
  /\ UNCHANGED <<rows, rule, rules, targets, live, addr, told>>

InUse(q) == \E r \in rules : r.priority = q

(* PriorityInUse: the next priority, as long as there is an attempt left.  *)
UpRetriesRule(p) ==
  /\ At(p, "rule") /\ InUse(priority[p])
  /\ refused' = [refused EXCEPT ![p] = @ \cup {priority[p]}]
  /\ attempt' = [attempt EXCEPT ![p] = @ + 1]
  /\ priority' = [priority EXCEPT ![p] = NextPriority(@)]
  /\ Goto(p, IF attempt[p] + 1 < Attempts THEN "rule" ELSE "gaveUp")
  /\ UNCHANGED <<rows, rule, rules, groups, targets, live, addr, told>>

UpCreatesRule(p) ==
  LET r == [priority |-> priority[p], host |-> p, group |-> GroupName(p)] IN
  /\ At(p, "rule") /\ ~InUse(priority[p])
  /\ IF GroupName(p) \in groups /\ Cardinality(rules) < RuleLimit
     THEN /\ rules' = rules \cup {r} /\ rule' = [rule EXCEPT ![p] = r]
          /\ Goto(p, "run")
     ELSE Goto(p, "stop") /\ UNCHANGED <<rules, rule>>
  /\ UNCHANGED <<rows, locals, groups, targets, live, addr, told>>

(* runTask and waitForTaskRunning.  Without taskState.privateIp podUp      *)
(* registers no target and goes on to the row.                             *)
UpRunsTask(p) ==
  /\ At(p, "run")
  /\ \/ /\ \E ip \in Ips \ {addr[q] : q \in live} : addr' = [addr EXCEPT ![p] = ip]
        /\ live' = live \cup {p}
        /\ \/ Goto(p, "target") /\ told' = told \cup {p}
           \/ "address" \in faults /\ Goto(p, "put") /\ told' = told \ {p}
     \/ "task" \in faults /\ Goto(p, "stop") /\ UNCHANGED <<live, addr, told>>
  /\ UNCHANGED <<rows, locals, rule, rules, groups, targets>>

(* ECS: a task crashes or its host goes away; its address is free again.   *)
TaskEnds(p) ==
  /\ p \in live /\ live' = live \ {p}
  /\ UNCHANGED <<step, rows, locals, rule, rules, groups, targets, addr, told>>

UpRegistersTarget(p) ==
  /\ At(p, "target")
  /\ IF GroupName(p) \in groups
     THEN /\ targets' = [targets EXCEPT ![GroupName(p)] = @ \cup {addr[p]}]
          /\ Goto(p, "put")
     ELSE Goto(p, "stop") /\ UNCHANGED targets
  /\ UNCHANGED <<rows, locals, rule, rules, groups, live, addr, told>>

UpPutsRow(p) ==
  /\ At(p, "put")
  /\ \/ rows' = rows \cup {p} /\ Goto(p, "up")
     \/ "put" \in faults /\ Goto(p, "stop") /\ UNCHANGED rows
  /\ UNCHANGED <<locals, rule, rules, groups, targets, live, addr, told>>

-----------------------------------------------------------------------------
(* podDown and the rollback of podUp share their calls; the rollback knows *)
(* no address to deregister.  A podDown that threw left the row ("half"),  *)
(* and works on it again when it is asked to.                              *)

DownStarts(p) ==
  /\ step[p] \in {"up", "half"} /\ Goto(p, "stop")
  /\ UNCHANGED <<rows, locals, rule, rules, groups, targets, live, addr, told>>

(* The address is free for another task as soon as this one has stopped.   *)
StopsTask(p) ==
  /\ step[p] \in {"stop", "gaveUp"} /\ Goto(p, "unrule")
  /\ live' = live \ {p}
  /\ UNCHANGED <<rows, locals, rule, rules, groups, targets, addr, told>>

(* A failure is only logged.                                               *)
DeletesRule(p) ==
  /\ At(p, "unrule")
  /\ Goto(p, IF p \in rows THEN "deregister" ELSE "ungroup")
  /\ \/ rules' = rules \ {rule[p]}
     \/ "rule" \in faults /\ rule[p] # None /\ UNCHANGED rules
  /\ UNCHANGED <<rows, locals, rule, groups, targets, live, addr, told>>

(* Mutant: the address stays registered.                                   *)
LeavesTarget(p) ==
  /\ At(p, "deregister") /\ Goto(p, "ungroup")
  /\ UNCHANGED <<rows, locals, rule, rules, groups, targets, live, addr, told>>

(* describeTasks, then DeregisterTargets if ECS still knows the address of *)
(* the stopped task.  A describeTasks that fails ends podDown.             *)
DeregistersTarget(p) ==
  /\ At(p, "deregister")
  /\ \/ /\ targets' = [targets EXCEPT ![GroupName(p)] = @ \ {addr[p]}]
        /\ Goto(p, "ungroup")
     \/ /\ faults \cap {"deregister", "address"} # {}
        /\ Goto(p, "ungroup") /\ UNCHANGED targets
     \/ "down" \in faults /\ Goto(p, "half") /\ UNCHANGED targets
  /\ UNCHANGED <<rows, locals, rule, rules, groups, live, addr, told>>

(* ELB refuses to delete a group that a rule forwards to.  Then podDown    *)
(* drops the row, unless deleteAccessPoint or registryDelete throws.       *)
DeletesGroup(p) ==
  LET g == GroupName(p) IN
  /\ At(p, "ungroup")
  /\ \/ /\ ~\E r \in rules : r.group = g
        /\ groups' = groups \ {g} /\ targets' = [targets EXCEPT ![g] = {}]
     \/ /\ "group" \in faults \/ \E r \in rules : r.group = g
        /\ UNCHANGED <<groups, targets>>
  /\ \/ /\ Goto(p, "down") /\ rows' = rows \ {p}
        /\ rule' = [rule EXCEPT ![p] = None] /\ addr' = [addr EXCEPT ![p] = None]
     \/ "down" \in faults /\ p \in rows /\ Goto(p, "half") /\ UNCHANGED <<rows, rule, addr>>
  /\ UNCHANGED <<locals, rules, live, told>>

PodStep(p) ==
  \/ UpCreatesGroup(p) \/ UpRetriesRule(p) \/ UpCreatesRule(p) \/ UpRunsTask(p)
  \/ UpRegistersTarget(p) \/ UpPutsRow(p) \/ DownStarts(p) \/ StopsTask(p)
  \/ DeletesRule(p) \/ DeregistersTarget(p) \/ DeletesGroup(p) \/ TaskEnds(p)
RoutesNext == (\E p \in Pods : PodStep(p)) /\ UNCHANGED faults
RoutesSpec == RoutesInit /\ [][RoutesNext]_routeVars

-----------------------------------------------------------------------------

(* The rule with the lowest priority decides; unhealthy targets get        *)
(* nothing.                                                                *)
Serves(p) ==
  LET mine == {r \in rules : r.host = p}
      first == {r \in mine : \A q \in mine : r.priority <= q.priority}
  IN  {q \in live : \E r \in first : addr[q] \in targets[r.group]}

(* "The ALB needs to route https://<pod>.<base-domain> to the right ECS    *)
(* task": the host of a pod that is up leads to its own running task and   *)
(* to no other, whatever rules and target groups earlier pods left behind; *)
(* to nobody, if ECS gave podUp no address for the task.  Once the task    *)
(* has ended, its target stays until podDown, and the host leads to        *)
(* whichever task has got that address since, but to no other.             *)
RoutedToOwnTask ==
  \A p \in Pods : At(p, "up") =>
    IF p \in live THEN Serves(p) = told \cap {p}
    ELSE \A q \in Serves(p) : p \in told /\ addr[q] = addr[p]

(* The retry after PriorityInUse is worth its five attempts: podUp gives   *)
(* up only after as many different priorities were in use, even where the  *)
(* range wraps around.                                                     *)
GivesUpAfterFive ==
  \A p \in Pods : At(p, "gaveUp") => Cardinality(refused[p]) = Attempts
=============================================================================
