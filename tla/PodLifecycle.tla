---------------------------- MODULE PodLifecycle ----------------------------
(***************************************************************************)
(* The pod-manager Lambda's `up` and `down` handlers                       *)
(* (infra/lambda/pod-manager/actions.ts) over the AWS services they drive  *)
(* (aws.ts): the DynamoDB registry, EFS access points, ALB target groups   *)
(* and listener rules, and ECS tasks.                                      *)
(*                                                                         *)
(* Every invocation is an actor of its own, because Lambda runs            *)
(* invocations concurrently and nothing serialises two of them.  One       *)
(* action is one awaited AWS call with the code up to the next await.      *)
(*                                                                         *)
(* An invocation creates at most one access point, one target group, one   *)
(* rule and one task, so a resource is named by the invocation that        *)
(* created it: task c, rule c, access point c, target group c.  That name  *)
(* stands for the ARN or id AWS assigns, which is never used twice.        *)
(***************************************************************************)
EXTENDS Integers, FiniteSets

CONSTANTS
  Pods,             \* pod names
  Call,             \* pod-manager invocations; each runs once
  Owners,           \* identities a pod-up may name as owner
  Modes,            \* the pod modes in use
  None,             \* "undefined": no ARN, no owner, no access point
  TgName,           \* pod name -> target group name, cut to 32 characters
  MinUid, UidLimit, \* the POSIX uids handed out are MinUid..(UidLimit - 1)
  CentralAuthHost,  \* config: auth.browser.centralAuthHost is on
  Overlap,          \* which invocations on one pod the users let overlap
  Faults            \* the failures that may happen, see FaultKinds

(* "create": an AWS call other than a teardown call throws, no effect.     *)
(* "delete": a teardown call fails and has no effect.                      *)
(* "lost":   DynamoDB stores the row but the put reports an error (the     *)
(*           SDK's retry then meets its own row).                          *)
(* "die":    Lambda kills the invocation (timeout, crash).                 *)
(* "stop":   ECS stops a task nobody asked it to stop.                     *)
FaultKinds == {"create", "delete", "lost", "die", "stop"}

Uids == MinUid .. (UidLimit - 1)

ASSUME ConstantsAssumption ==
  /\ MinUid \in Int /\ UidLimit \in Int
  /\ CentralAuthHost \in BOOLEAN
  /\ Overlap \in {"none", "ups", "any"}
  /\ Modes \subseteq {"browser", "tunnel", "ssh"}
  /\ Faults \subseteq FaultKinds
  /\ None \notin Pods /\ None \notin Call /\ None \notin Owners
  /\ None \notin Uids /\ None \notin Modes
  /\ DOMAIN TgName = Pods

VARIABLES
  registry,      \* DynamoDB: pod name -> row
  accessPoints,  \* EFS: the access points that exist
  apTags,        \* what each was created with: Pod tag, uid, Owner tag, age
  targetGroups,  \* ELB: the target groups that exist
  targets,       \* the tasks whose address is registered in each
  rules,         \* rule c -> the target group it forwards to, or None
  tasks,         \* ECS: the status of task c
  pc,            \* where each invocation is (its next await), or its answer
  req,           \* the event of each invocation
  uid, accessPointId, stale, targetGroupArn, held, entry
                 \* the handlers' local variables

efs    == <<accessPoints, apTags>>
elb    == <<targetGroups, targets, rules>>
aws    == <<registry, efs, elb, tasks>>
locals == <<uid, accessPointId, stale, targetGroupArn, held, entry>>
vars   == <<aws, pc, req, locals>>

-----------------------------------------------------------------------------
(* State.                                                                  *)

OptCall == Call \cup {None}
OptUid  == Uids \cup {None}

(* PodRecord.  idleSince stands for the idle reaper's attribute; a row the *)
(* reaper's upsert created has that attribute only.                        *)
Row   == [mode : Modes \cup {None}, task : OptCall, ap : OptCall,
          uid : OptUid, tg : OptCall, rule : OptCall, idleSince : BOOLEAN]
NoRow == [mode |-> None, task |-> None, ap |-> None, uid |-> None,
          tg |-> None, rule |-> None, idleSince |-> FALSE]
Registered(p) == registry[p] # NoRow

(* `older` is the set of access points created earlier: CreationTime.      *)
Tags   == [pod : Pods \cup {None}, uid : OptUid, owner : Owners \cup {None},
           older : SUBSET Call]
NoTags == [pod |-> None, uid |-> None, owner |-> None, older |-> {}]

(* "stopped": ECS is stopping the task or has stopped it (desiredStatus).  *)
TaskStatus  == {"none", "pending", "running", "stopped"}
LiveTask(t) == tasks[t] \in {"pending", "running"}

Event   == [action : {"up", "down"}, pod : Pods, mode : Modes \cup {None},
            owner : Owners \cup {None}, keep : BOOLEAN]
NoEvent == [action |-> None]

UpSteps   == {"get", "find", "prune", "uid", "ap", "taskDef", "tg", "rule",
              "run", "wait", "target", "put"}
UndoSteps == {"undoTask", "undoRule", "undoTg", "undoAp"}
DownSteps == {"downGet", "downTask", "downRule", "downTarget", "downTg",
              "downAp", "downDelete"}
Answers   == {"ok", "conflict", "refused", "notFound", "error"}
Steps     == UpSteps \cup UndoSteps \cup DownSteps
Place     == {"idle", "dead"} \cup Steps \cup Answers
Active(c) == pc[c] \in Steps

(* What podUp has made itself and can name (createdNewAp, ruleArn, taskArn)*)
(* and whether ECS gave it the task's address (taskState.privateIp).       *)
Held == {"ap", "rule", "task", "address"}

TypeOK ==
  /\ registry \in [Pods -> Row]
  /\ accessPoints \subseteq Call /\ apTags \in [Call -> Tags]
  /\ targetGroups \subseteq Call /\ targets \in [Call -> SUBSET Call]
  /\ rules \in [Call -> OptCall]
  /\ tasks \in [Call -> TaskStatus]
  /\ pc \in [Call -> Place]
  /\ req \in [Call -> Event \cup {NoEvent}]
  /\ \A c \in Call : pc[c] # "idle" => req[c] \in Event
  /\ uid \in [Call -> OptUid] /\ accessPointId \in [Call -> OptCall]
  /\ stale \in [Call -> SUBSET Call] /\ targetGroupArn \in [Call -> OptCall]
  /\ held \in [Call -> SUBSET Held] /\ entry \in [Call -> Row]

Init ==
  /\ registry = [p \in Pods |-> NoRow]
  /\ accessPoints = {} /\ apTags = [c \in Call |-> NoTags]
  /\ targetGroups = {} /\ targets = [c \in Call |-> {}]
  /\ rules = [c \in Call |-> None]
  /\ tasks = [c \in Call |-> "none"]
  /\ pc = [c \in Call |-> "idle"]
  /\ req = [c \in Call |-> NoEvent]
  /\ uid = [c \in Call |-> None] /\ accessPointId = [c \in Call |-> None]
  /\ stale = [c \in Call |-> {}] /\ targetGroupArn = [c \in Call |-> None]
  /\ held = [c \in Call |-> {}] /\ entry = [c \in Call |-> NoRow]

-----------------------------------------------------------------------------
(* Helpers.                                                                *)

At(c, step)   == pc[c] = step
Goto(c, step) == pc' = [pc EXCEPT ![c] = step]
Holds(c, arn) == held' = [held EXCEPT ![c] = @ \cup {arn}]

(* Mutant: findExistingAccessPoint without its `Pod` tag filter.           *)
WorkspacesOfAnyPod(p) == accessPoints

(* The workspaces findExistingAccessPoint matches; it sorts them by        *)
(* CreationTime and keeps the newest.                                      *)
Workspaces(p)  == {a \in accessPoints : apTags[a].pod = p}
IsNewest(a, S) == S \ {a} \subseteq apTags[a].older

(* Mutant: the search runs one uid past the end of the range.              *)
FreeUidsOffByOne == (MinUid .. UidLimit) \ {registry[q].uid : q \in Pods}

(* aws.ts allocatePosixUid sees the uids of registered pods only.          *)
FreeUids == Uids \ {registry[q].uid : q \in Pods}

(* Mutant: a workspace with no recorded owner matches anybody.             *)
OwnerMayReuseUnowned(a, owner) ==
  CentralAuthHost => owner # None /\ apTags[a].owner \in {owner, None}

(* checkWorkspaceOwner: a named owner must be the recorded one.            *)
OwnerMayReuse(a, owner) ==
  CentralAuthHost => owner # None /\ apTags[a].owner = owner

(* ELB: a group is named after the pod it was created for.                 *)
GroupsNamed(name) == {g \in targetGroups : TgName[req[g].pod] = name}

(* The teardown calls of aws.ts.  ELB refuses to delete a target group a   *)
(* rule still forwards to.  With "delete" among the faults each may fail,  *)
(* which their callers only log.                                           *)
StopTask(t) ==
  \/ tasks' = IF t = None THEN tasks ELSE [tasks EXCEPT ![t] = "stopped"]
  \/ "delete" \in Faults /\ UNCHANGED tasks
DeleteListenerRule(r) ==
  \/ rules' = IF r = None THEN rules ELSE [rules EXCEPT ![r] = None]
  \/ "delete" \in Faults /\ UNCHANGED rules
Forwarded(g) == \E r \in Call : rules[r] = g
DeleteTargetGroup(g) ==
  \/ /\ g # None /\ ~Forwarded(g)
     /\ targetGroups' = targetGroups \ {g}
     /\ targets' = [targets EXCEPT ![g] = {}]
  \/ /\ g = None \/ Forwarded(g) \/ "delete" \in Faults
     /\ UNCHANGED <<targetGroups, targets>>
DeleteAccessPoint(a) == accessPoints' = accessPoints \ {a}

-----------------------------------------------------------------------------
(* A new invocation.  Nothing in the code serialises invocations on one    *)
(* pod; Overlap says which ones its users let run together: none, several  *)
(* pod-ups, or any.                                                        *)

MayOverlap(a, b) == Overlap = "any" \/ (Overlap = "ups" /\ a = "up" /\ b = "up")

Start(c, event) ==
  /\ At(c, "idle")
  /\ \A d \in Call : Active(d) /\ req[d].pod = event.pod =>
       MayOverlap(req[d].action, event.action)
  /\ req' = [req EXCEPT ![c] = event]
  /\ UNCHANGED <<aws, locals>>

StartUp(c) ==
  \E p \in Pods, m \in Modes, o \in Owners \cup {None} :
    /\ Start(c, [action |-> "up", pod |-> p, mode |-> m, owner |-> o,
                 keep |-> TRUE])
    /\ Goto(c, "get")

StartDown(c) ==
  \E p \in Pods, keep \in BOOLEAN :
    /\ Start(c, [action |-> "down", pod |-> p, mode |-> None, owner |-> None,
                 keep |-> keep])
    /\ Goto(c, "downGet")

-----------------------------------------------------------------------------
(* podUp.                                                                  *)

(* registryGet.  "refused" stands for every early return that depends on   *)
(* the input and the configuration alone: the ssh input pairing (before    *)
(* the get), the sign-in guard, the owner check, no image to run.          *)
UpRegistryGet(c) ==
  /\ At(c, "get")
  /\ \/ Goto(c, IF Registered(req[c].pod) THEN "conflict" ELSE "find")
     \/ Goto(c, "refused")
  /\ UNCHANGED <<aws, req, locals>>

(* Mutant: every pod-up makes a fresh access point (pre-v0.2.0, #30).      *)
UpFindNoWorkspace(c) ==
  At(c, "find") /\ Goto(c, "uid") /\ UNCHANGED <<aws, req, locals>>

(* findExistingAccessPoint: the listing, and the newest one's description. *)
UpFindWorkspace(c) ==
  LET found == Workspaces(req[c].pod) IN
  /\ At(c, "find")
  /\ \/ /\ found = {}
        /\ Goto(c, "uid")
        /\ UNCHANGED <<uid, accessPointId, stale>>
     \/ \E a \in found :
          /\ IsNewest(a, found)
          /\ Goto(c, "prune")
          /\ uid' = [uid EXCEPT ![c] = apTags[a].uid]
          /\ accessPointId' = [accessPointId EXCEPT ![c] = a]
          /\ stale' = [stale EXCEPT ![c] = found \ {a}]
  /\ UNCHANGED <<aws, req, targetGroupArn, held, entry>>

(* findExistingAccessPoint: the older duplicates, one delete at a time,    *)
(* newest first; a failed delete is only logged.                           *)
UpPruneDuplicate(c) ==
  /\ At(c, "prune")
  /\ \E a \in stale[c] :
       /\ IsNewest(a, stale[c])
       /\ DeleteAccessPoint(a) \/ ("delete" \in Faults /\ UNCHANGED accessPoints)
       /\ stale' = [stale EXCEPT ![c] = @ \ {a}]
  /\ UNCHANGED <<registry, apTags, elb, tasks, pc, req, uid, accessPointId,
                 targetGroupArn, held, entry>>

(* checkWorkspaceOwner, and the reuse of the workspace found.              *)
UpReuseWorkspace(c) ==
  /\ At(c, "prune") /\ stale[c] = {}
  /\ IF OwnerMayReuse(accessPointId[c], req[c].owner)
     THEN Goto(c, "taskDef") /\ UNCHANGED accessPointId
     ELSE /\ Goto(c, "refused")
          /\ accessPointId' = [accessPointId EXCEPT ![c] = None]
  /\ UNCHANGED <<aws, req, uid, stale, targetGroupArn, held, entry>>

UpAllocateUid(c) ==
  /\ At(c, "uid")
  /\ \/ /\ FreeUids = {}
        /\ Goto(c, "error")
        /\ UNCHANGED uid
     \/ \E u \in FreeUids :
          /\ \A v \in FreeUids : u <= v
          /\ uid' = [uid EXCEPT ![c] = u]
          /\ Goto(c, "ap")
  /\ UNCHANGED <<aws, req, accessPointId, stale, targetGroupArn, held, entry>>

(* The Owner tag is the owner the event names, never the fallback.         *)
UpCreateAccessPoint(c) ==
  /\ At(c, "ap")
  /\ accessPoints' = accessPoints \cup {c}
  /\ apTags' = [apTags EXCEPT ![c] =
       [pod |-> req[c].pod, uid |-> uid[c], owner |-> req[c].owner,
        older |-> accessPoints]]
  /\ accessPointId' = [accessPointId EXCEPT ![c] = c]
  /\ Holds(c, "ap")
  /\ Goto(c, "taskDef")
  /\ UNCHANGED <<registry, elb, tasks, req, uid, stale, targetGroupArn, entry>>

UpRegisterTaskDef(c) ==
  /\ At(c, "taskDef")
  /\ Goto(c, IF req[c].mode = "browser" THEN "tg" ELSE "run")
  /\ UNCHANGED <<aws, req, locals>>

(* ELB: CreateTargetGroup answers with the group of that name, if any.     *)
UpCreateTargetGroup(c) ==
  LET known == GroupsNamed(TgName[req[c].pod]) IN
  /\ At(c, "tg")
  /\ \/ /\ known = {}
        /\ targetGroups' = targetGroups \cup {c}
        /\ targetGroupArn' = [targetGroupArn EXCEPT ![c] = c]
     \/ \E g \in known :
          /\ targetGroupArn' = [targetGroupArn EXCEPT ![c] = g]
          /\ UNCHANGED targetGroups
  /\ Goto(c, "rule")
  /\ UNCHANGED <<registry, efs, targets, rules, tasks, req, uid, accessPointId,
                 stale, held, entry>>

(* Mutant: ruleArn is lost, so the rollback cannot delete the rule.        *)
UpCreateListenerRuleForgotten(c) ==
  /\ At(c, "rule")
  /\ IF targetGroupArn[c] \in targetGroups
     THEN rules' = [rules EXCEPT ![c] = targetGroupArn[c]] /\ Goto(c, "run")
     ELSE Goto(c, "undoTask") /\ UNCHANGED rules
  /\ UNCHANGED <<registry, efs, targetGroups, targets, tasks, req, locals>>

(* createListenerRule.  ELB refuses a rule to a target group that is gone. *)
UpCreateListenerRule(c) ==
  /\ At(c, "rule")
  /\ IF targetGroupArn[c] \in targetGroups
     THEN /\ rules' = [rules EXCEPT ![c] = targetGroupArn[c]]
          /\ Holds(c, "rule")
          /\ Goto(c, "run")
     ELSE Goto(c, "undoTask") /\ UNCHANGED <<rules, held>>
  /\ UNCHANGED <<registry, efs, targetGroups, targets, tasks, req, uid,
                 accessPointId, stale, targetGroupArn, entry>>

(* Mutant: taskArn is assigned only once the task is running.              *)
UpRunTaskForgotten(c) ==
  /\ At(c, "run")
  /\ tasks' = [tasks EXCEPT ![c] = "pending"]
  /\ Goto(c, "wait")
  /\ UNCHANGED <<registry, efs, elb, req, locals>>

UpRunTask(c) ==
  /\ At(c, "run")
  /\ tasks' = [tasks EXCEPT ![c] = "pending"]
  /\ Holds(c, "task")
  /\ Goto(c, "wait")
  /\ UNCHANGED <<registry, efs, elb, req, uid, accessPointId, stale,
                 targetGroupArn, entry>>

(* Mutant: no deadline, the loop ends only when the task runs or stops.    *)
UpWaitForever(c) ==
  /\ At(c, "wait")
  /\ \/ /\ tasks[c] = "running" /\ targetGroupArn[c] # None
        /\ Holds(c, "address") /\ Goto(c, "target")
     \/ tasks[c] = "running" /\ Goto(c, "put") /\ UNCHANGED held
     \/ tasks[c] = "stopped" /\ Goto(c, "undoTask") /\ UNCHANGED held
  /\ UNCHANGED <<aws, req, uid, accessPointId, stale, targetGroupArn, entry>>

(* Mutant: the address that ECS gave is not registered.                    *)
UpWaitSkipsTarget(c) ==
  /\ At(c, "wait")
  /\ \/ /\ tasks[c] = "running" /\ targetGroupArn[c] # None
        /\ Holds(c, "address") /\ Goto(c, "put")
     \/ Goto(c, "undoTask") /\ UNCHANGED held
  /\ UNCHANGED <<aws, req, uid, accessPointId, stale, targetGroupArn, entry>>

(* waitForTaskRunning: the last poll sees the task running, or sees it     *)
(* stopped, or the 180 s deadline has passed since (whatever the task is   *)
(* by then) and the wait throws.  The target of a browser pod is           *)
(* registered only if that poll also gave the task's private address;      *)
(* without one podUp goes straight on to the row, as for the other modes.  *)
UpWaitForTask(c) ==
  /\ At(c, "wait")
  /\ \/ /\ tasks[c] = "running" /\ targetGroupArn[c] # None
        /\ Holds(c, "address") /\ Goto(c, "target")
     \/ tasks[c] = "running" /\ Goto(c, "put") /\ UNCHANGED held
     \/ Goto(c, "undoTask") /\ UNCHANGED held
  /\ UNCHANGED <<aws, req, uid, accessPointId, stale, targetGroupArn, entry>>

UpRegisterTarget(c) ==
  LET g == targetGroupArn[c] IN
  /\ At(c, "target")
  /\ IF g \in targetGroups
     THEN /\ targets' = [targets EXCEPT ![g] = @ \cup {c}]
          /\ Goto(c, "put")
     ELSE Goto(c, "undoTask") /\ UNCHANGED targets
  /\ UNCHANGED <<registry, efs, targetGroups, rules, tasks, req, locals>>

Own(c, arn) == IF arn \in held[c] THEN c ELSE None
RowOf(c) == [mode |-> req[c].mode, task |-> Own(c, "task"),
             ap |-> accessPointId[c], uid |-> uid[c], tg |-> targetGroupArn[c],
             rule |-> Own(c, "rule"), idleSince |-> FALSE]

(* registryPut, conditional on attribute_not_exists(podName).              *)
UpRegistryPut(c) ==
  /\ At(c, "put")
  /\ IF Registered(req[c].pod)
     THEN Goto(c, "undoTask") /\ UNCHANGED registry
     ELSE /\ registry' = [registry EXCEPT ![req[c].pod] = RowOf(c)]
          /\ Goto(c, "ok") \/ ("lost" \in Faults /\ Goto(c, "undoTask"))
  /\ UNCHANGED <<efs, elb, tasks, req, locals>>

(* An AWS call of podUp throws: before the try block the handler answers   *)
(* "error" at once, inside it the catch block rolls back.                  *)
UpFails(c) ==
  /\ "create" \in Faults
  /\ pc[c] \in UpSteps \ {"prune"}
  /\ Goto(c, IF pc[c] \in {"get", "find", "uid", "ap"} THEN "error"
             ELSE "undoTask")
  /\ UNCHANGED <<aws, req, locals>>

-----------------------------------------------------------------------------
(* The rollback of podUp.  A failed teardown call is only logged; that of  *)
(* the access point changes the wording of the error.                      *)

UndoTask(c) ==
  /\ At(c, "undoTask")
  /\ StopTask(Own(c, "task"))
  /\ Goto(c, "undoRule")
  /\ UNCHANGED <<registry, efs, elb, req, locals>>

UndoRule(c) ==
  /\ At(c, "undoRule")
  /\ DeleteListenerRule(Own(c, "rule"))
  /\ Goto(c, "undoTg")
  /\ UNCHANGED <<registry, efs, targetGroups, targets, tasks, req, locals>>

(* The rollback knows no address, so it deregisters none.                  *)
UndoTargetGroup(c) ==
  /\ At(c, "undoTg")
  /\ DeleteTargetGroup(targetGroupArn[c])
  /\ Goto(c, "undoAp")
  /\ UNCHANGED <<registry, efs, rules, tasks, req, locals>>

(* Mutant: the rollback ignores createdNewAp (issue #29).                  *)
UndoAnyAccessPoint(c) ==
  /\ At(c, "undoAp")
  /\ DeleteAccessPoint(accessPointId[c])
  /\ Goto(c, "error")
  /\ UNCHANGED <<registry, apTags, elb, tasks, req, locals>>

UndoAccessPoint(c) ==
  /\ At(c, "undoAp")
  /\ \/ "ap" \in held[c] /\ DeleteAccessPoint(c)
     \/ "ap" \notin held[c] /\ UNCHANGED accessPoints
     \/ "delete" \in Faults /\ UNCHANGED accessPoints
  /\ Goto(c, "error")
  /\ UNCHANGED <<registry, apTags, elb, tasks, req, locals>>

-----------------------------------------------------------------------------
(* podDown.                                                                *)

DownRegistryGet(c) ==
  /\ At(c, "downGet")
  /\ IF Registered(req[c].pod)
     THEN /\ entry' = [entry EXCEPT ![c] = registry[req[c].pod]]
          /\ Goto(c, "downTask")
     ELSE Goto(c, "notFound") /\ UNCHANGED entry
  /\ UNCHANGED <<aws, req, uid, accessPointId, stale, targetGroupArn, held>>

DownStopTask(c) ==
  /\ At(c, "downTask")
  /\ StopTask(entry[c].task)
  /\ Goto(c, "downRule")
  /\ UNCHANGED <<registry, efs, elb, req, locals>>

DownDeleteRule(c) ==
  /\ At(c, "downRule")
  /\ DeleteListenerRule(entry[c].rule)
  /\ Goto(c, "downTarget")
  /\ UNCHANGED <<registry, efs, targetGroups, targets, tasks, req, locals>>

(* describeTasks finds the task's address and DeregisterTargets removes    *)
(* it, unless ECS has forgotten the stopped task or the call fails.        *)
DownDeregister(c) ==
  LET g == entry[c].tg IN
  /\ At(c, "downTarget")
  /\ \/ /\ g # None
        /\ targets' = [targets EXCEPT ![g] = @ \ {entry[c].task}]
     \/ UNCHANGED targets
  /\ Goto(c, "downTg")
  /\ UNCHANGED <<registry, efs, targetGroups, rules, tasks, req, locals>>

(* Mutant: keepWorkspace is ignored.                                       *)
DownNeverKeeps(c) ==
  /\ At(c, "downTg")
  /\ DeleteTargetGroup(entry[c].tg)
  /\ Goto(c, "downAp")
  /\ UNCHANGED <<registry, efs, rules, tasks, req, locals>>

DownDeleteTargetGroup(c) ==
  /\ At(c, "downTg")
  /\ DeleteTargetGroup(entry[c].tg)
  /\ Goto(c, IF req[c].keep THEN "downDelete" ELSE "downAp")
  /\ UNCHANGED <<registry, efs, rules, tasks, req, locals>>

(* deleteAccessPoint throws when the access point is gone already.         *)
DownReleaseWorkspace(c) ==
  LET a == entry[c].ap IN
  /\ At(c, "downAp")
  /\ IF a \in accessPoints
     THEN DeleteAccessPoint(a) /\ Goto(c, "downDelete")
     ELSE Goto(c, "error") /\ UNCHANGED accessPoints
  /\ UNCHANGED <<registry, apTags, elb, tasks, req, locals>>

(* registryDelete, by name and unconditional.                              *)
DownRegistryDelete(c) ==
  /\ At(c, "downDelete")
  /\ registry' = [registry EXCEPT ![req[c].pod] = NoRow]
  /\ Goto(c, "ok")
  /\ UNCHANGED <<efs, elb, tasks, req, locals>>

(* A call of podDown throws: the handler answers "error" where it stands.  *)
DownFails(c) ==
  /\ \/ "create" \in Faults /\ At(c, "downGet")
     \/ /\ "create" \in Faults /\ At(c, "downTarget")
        /\ entry[c].tg # None /\ entry[c].task # None
     \/ "delete" \in Faults /\ pc[c] \in {"downAp", "downDelete"}
  /\ Goto(c, "error")
  /\ UNCHANGED <<aws, req, locals>>

-----------------------------------------------------------------------------
(* Lambda and ECS.                                                         *)

LambdaDies(c) ==
  /\ "die" \in Faults /\ Active(c)
  /\ Goto(c, "dead")
  /\ UNCHANGED <<aws, req, locals>>

(* A task starts if its access point can be mounted, and stops if not.     *)
TaskStarts(c) ==
  /\ tasks[c] = "pending" /\ accessPointId[c] \in accessPoints
  /\ tasks' = [tasks EXCEPT ![c] = "running"]
  /\ UNCHANGED <<registry, efs, elb, pc, req, locals>>

TaskStops(c) ==
  /\ \/ LiveTask(c) /\ "stop" \in Faults
     \/ tasks[c] = "pending" /\ accessPointId[c] \notin accessPoints
  /\ tasks' = [tasks EXCEPT ![c] = "stopped"]
  /\ UNCHANGED <<registry, efs, elb, pc, req, locals>>

-----------------------------------------------------------------------------

UpStep(c) ==
  \/ UpRegistryGet(c)       \/ UpFindWorkspace(c)     \/ UpPruneDuplicate(c)
  \/ UpReuseWorkspace(c)    \/ UpAllocateUid(c)       \/ UpCreateAccessPoint(c)
  \/ UpRegisterTaskDef(c)   \/ UpCreateTargetGroup(c) \/ UpCreateListenerRule(c)
  \/ UpRunTask(c)           \/ UpWaitForTask(c)       \/ UpRegisterTarget(c)
  \/ UpRegistryPut(c)

UndoStep(c) ==
  UndoTask(c) \/ UndoRule(c) \/ UndoTargetGroup(c) \/ UndoAccessPoint(c)

DownStep(c) ==
  \/ DownRegistryGet(c)     \/ DownStopTask(c)        \/ DownDeleteRule(c)
  \/ DownDeregister(c)      \/ DownDeleteTargetGroup(c)
  \/ DownReleaseWorkspace(c) \/ DownRegistryDelete(c)

Step(c) == UpStep(c) \/ UndoStep(c) \/ DownStep(c)

Next ==
  \E c \in Call :
    \/ StartUp(c) \/ StartDown(c) \/ Step(c)
    \/ UpFails(c) \/ DownFails(c) \/ LambdaDies(c)
    \/ TaskStarts(c) \/ TaskStops(c)

Spec     == Init /\ [][Next]_vars
(* Lambda keeps running an invocation it has started until it answers.     *)
(* Nobody promises that an AWS call throws, a task starts or Lambda dies.  *)
FairSpec == Spec /\ \A c \in Call : WF_vars(Step(c))

-----------------------------------------------------------------------------
(* What holds however invocations overlap.                                 *)

(* A task mounts, and a row names, only an access point created for that   *)
(* very pod, with the uid of that access point (ADR 0004's canonical-uid   *)
(* rule, findExistingAccessPoint's tag filter, podUp's locals).            *)
WorkspaceIsThePods ==
  /\ \A c \in Call : tasks[c] # "none" =>
       /\ apTags[accessPointId[c]].pod = req[c].pod
       /\ apTags[accessPointId[c]].uid = uid[c]
  /\ \A p \in Pods : registry[p].ap # None =>
       /\ apTags[registry[p].ap].pod = p
       /\ apTags[registry[p].ap].uid = registry[p].uid

(* With the central auth host on, the tasks that ever mount one workspace  *)
(* all belong to one owner (checkWorkspaceOwner, ADR 0009 item 11).        *)
WorkspaceOwnerBinding ==
  CentralAuthHost =>
    \A c, d \in Call :
      tasks[c] # "none" /\ tasks[d] # "none"
        /\ accessPointId[c] = accessPointId[d]
        => req[c].owner = req[d].owner

(* A pod-up that answered "error" leaves no task running, no rule and no   *)
(* access point it made (podUp's catch block, every point it can start at).*)
FailedUpLeavesNothing ==
  \A c \in Call : pc[c] = "error" /\ req[c].action = "up" =>
    ~LiveTask(c) /\ rules[c] = None /\ c \notin accessPoints

(* Every invocation Lambda lets live answers: no wait is without deadline. *)
EveryInvocationAnswers ==
  \A c \in Call : Active(c) ~> pc[c] \in Answers \cup {"dead"}

-----------------------------------------------------------------------------
(* What holds while no pod-down of a pod overlaps another invocation.      *)

(* With nothing in flight for a pod, each task, rule and target group made *)
(* for it is named by its row, so a pod-down can still remove it.          *)
NoOrphans ==
  \A c \in Call :
    LET p == req[c].pod IN
    pc[c] # "idle" /\ (\A d \in Call : Active(d) => req[d].pod # p) =>
      /\ LiveTask(c) => registry[p].task = c
      /\ rules[c] # None => registry[p].rule = c
      /\ c \in targetGroups => registry[p].tg = c

-----------------------------------------------------------------------------
(* What holds while no two invocations on one pod overlap.                 *)

(* A registered pod no pod-down has read yet is whole: its access point    *)
(* exists and, for a browser pod, its rule forwards to its target group,   *)
(* which holds its task unless ECS gave podUp no address for it: then the  *)
(* pod is registered and answered "ok" all the same, and serves nobody.    *)
RegisteredPodIsIntact ==
  \A p \in Pods :
    LET row == registry[p] IN
    Registered(p) /\ (\A d \in Call : entry[d] # row) =>
      /\ row.ap \in accessPoints
      /\ tasks[row.task] \in {"running", "stopped"}
      /\ row.mode = "browser" =>
           /\ rules[row.rule] = row.tg
           /\ row.tg \in targetGroups
           /\ "address" \in held[row.task] => row.task \in targets[row.tg]

(* A pod has at most one workspace, so "the newest" is the user's data.    *)
OneWorkspacePerPod ==
  \A p \in Pods : Cardinality(Workspaces(p)) <= 1

(* A workspace a successful pod-up has handed to its user goes away only   *)
(* when a pod-down with keepWorkspace=false asks for it.                   *)
Adopted(a) ==
  \E c \in Call : At(c, "ok") /\ req[c].action = "up" /\ accessPointId[c] = a
ReleaseRequested(a) ==
  \E c \in Call : At(c, "downAp") /\ ~req[c].keep /\ entry[c].ap = a
AdoptedWorkspaceIsKept ==
  [][\A a \in accessPoints :
       Adopted(a) /\ ~ReleaseRequested(a) => a \in accessPoints']_vars

-----------------------------------------------------------------------------
(* What the documents promise, and overlapping invocations break.          *)

(* "A reused workspace is never deleted" by a rollback                     *)
(* (docs/diagrams/pod-lifecycle/pod-up-sequence.md).                       *)
Reused(a) ==
  \E c \in Call \ {a} : /\ req[c].action = "up" /\ accessPointId[c] = a
                        /\ ~At(c, "prune")
ReusedWorkspaceIsNeverDeleted ==
  [][\A a \in accessPoints :
       Reused(a) /\ At(a, "undoAp") => a \in accessPoints']_vars

(* "owner UID = unique per pod (allocated from [10000, 65000) and tracked  *)
(* in the pod registry)" (docs/adr/0004-efs-per-pod-access-point.md): no   *)
(* two registered pods share a POSIX uid.                                  *)
UidIsUniquePerPod ==
  \A p, q \in Pods : p # q /\ Registered(p) /\ Registered(q) =>
    registry[p].uid # registry[q].uid
=============================================================================
