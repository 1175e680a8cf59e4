------------------------------ MODULE Teardown ------------------------------
(***************************************************************************)
(* cluster-down (.github/workflows/cluster-down.yml) against everything    *)
(* that may bring a pod up meanwhile: the interlock with the pod-up and    *)
(* pod-down workflows (.github/actions/teardown-lock), the workspace guard *)
(* (scripts/cluster-workspace-guard.ts), the drain                         *)
(* (scripts/cluster-drain.ts) and cdk destroy.                             *)
(*                                                                         *)
(* A workflow run is an actor; run r is the r-th one dispatched.  One      *)
(* action is one call a run makes to GitHub or AWS.  The pod-manager is    *)
(* PodLifecycle in brief: an `up` makes the workspace, later the row; a    *)
(* `down` removes the row.  Its invocations outlive the run that made them.*)
(***************************************************************************)
EXTENDS Integers, FiniteSets

CONSTANTS
  Pods,       \* pod names
  MaxRuns,    \* bound: the workflow runs that are ever dispatched
  ListLimit,  \* `gh run list --limit`: the newest runs of a workflow it shows
  None,       \* no pod, no decision yet
  FaultSets   \* what else may happen: the sets of FaultKinds that are tried

(* "call":    a call to AWS fails, and the step that made it.              *)
(* "destroy": cdk destroy fails between two resources.                     *)
(* "cancel":  a user cancels a pod run that is in progress.                *)
(* "local":   a user runs scripts/pod-cli.ts up, outside any workflow.     *)
(* "list":    `gh run list` fails in teardown-lock.                        *)
FaultKinds == {"call", "destroy", "cancel", "local", "list"}

ASSUME TeardownAssumption ==
  /\ MaxRuns \in Nat /\ ListLimit \in Nat
  /\ None \notin Pods /\ FaultSets \subseteq SUBSET FaultKinds

Runs         == 1 .. MaxRuns
PodKinds     == {"pod-up", "pod-down"}
ClusterKinds == {"cluster-up", "cluster-down"}

VARIABLES
  kind,       \* the workflow of each run
  status,     \* its status at GitHub
  at,         \* the step it is in
  input,      \* its workflow_dispatch inputs
  lambda,     \* the pod-manager invocation a pod run has made
  todo,       \* drainForClusterDown: the pods still to be stopped
  failed,     \* drainForClusterDown: one of them could not be stopped
  efsAction,  \* guardWorkspaces: what it says cdk destroy will do
  pods,       \* the registry
  workspaces, \* the access points on the EFS file system
  stacks,     \* the deployed stacks, pod-manager and cluster
  fs,         \* the file system of the deployed cluster stack exists
  policy,     \* its deployed DeletionPolicy
  faults      \* the faults of this behaviour

runVars == <<kind, status, at, input, lambda>>
drain   == <<todo, failed, efsAction>>
cluster == <<pods, workspaces, stacks, fs, policy, faults>>
vars    == <<runVars, drain, cluster>>

Stacks   == {"PodManager", "Cluster"}
Policies == {"Retain", "Delete"}
Input    == [pod : Pods \cup {None}, keep : BOOLEAN, force : BOOLEAN,
             deleteWorkspaces : BOOLEAN]
NoInput  == [pod |-> None, keep |-> TRUE, force |-> FALSE,
             deleteWorkspaces |-> FALSE]

PodSteps   == {"check", "invoke", "answer"}
GuardSteps == {"template", "resources", "points"}
DrainSteps == {"list", "down", "relist"}
DestroySteps == {"destroyPodManager", "destroyFs", "destroyCluster"}
DownSteps  == {"stacks", "waitUp", "waitDown"} \cup GuardSteps \cup DrainSteps
                \cup DestroySteps
Place      == {"start", "deploy", "end"} \cup PodSteps \cup DownSteps

TypeOK ==
  /\ kind \in [Runs -> {"none"} \cup PodKinds \cup ClusterKinds]
  /\ status \in [Runs -> {"none", "queued", "in_progress", "completed"}]
  /\ at \in [Runs -> Place] /\ input \in [Runs -> Input]
  /\ lambda \in [Runs -> {"none", "called", "creating", "done"}]
  /\ todo \subseteq Pods /\ failed \in BOOLEAN
  /\ efsAction \in {"retain", "destroy", "absent", None}
  /\ pods \subseteq Pods /\ workspaces \subseteq Pods
  /\ stacks \subseteq Stacks /\ fs \in BOOLEAN /\ policy \in Policies
  /\ faults \in FaultSets

(* A cluster that is up, with or without retention, and no pods.           *)
Init ==
  /\ kind = [r \in Runs |-> "none"] /\ status = [r \in Runs |-> "none"]
  /\ at = [r \in Runs |-> "start"] /\ input = [r \in Runs |-> NoInput]
  /\ lambda = [r \in Runs |-> "none"]
  /\ todo = {} /\ failed = FALSE /\ efsAction = None
  /\ pods = {} /\ workspaces = {} /\ stacks = Stacks /\ fs = TRUE
  /\ policy \in Policies /\ faults \in FaultSets

-----------------------------------------------------------------------------
(* GitHub: dispatch, the concurrency group of the cluster workflows, and   *)
(* the list of runs that have not completed.                               *)

Doing(r, step) == status[r] = "in_progress" /\ at[r] = step
Goto(r, step)  == at' = [at EXCEPT ![r] = step] /\ UNCHANGED status
Finish(r) == /\ at' = [at EXCEPT ![r] = "end"]
             /\ status' = [status EXCEPT ![r] = "completed"]
(* The rest of runVars, for the steps of a run.                            *)
SameRun == UNCHANGED <<kind, input, lambda>>

Unfinished(r) == status[r] \in {"queued", "in_progress"}

(* active(): among the ListLimit newest runs of a workflow.                *)
ActiveRuns(workflow) ==
  {r \in Runs : /\ kind[r] = workflow /\ Unfinished(r)
                /\ Cardinality({s \in Runs : s > r /\ kind[s] = workflow})
                     < ListLimit}

(* Mutant: the workflow does not pass the pod's name on.                   *)
InputsWithoutPod(k) == {NoInput}

(* What a workflow has no input for is as in NoInput.                      *)
Inputs(k) ==
  {i \in Input :
     /\ k \in PodKinds <=> i.pod # None
     /\ k # "pod-down" => i.keep
     /\ k # "cluster-down" => ~i.force /\ ~i.deleteWorkspaces}

(* A cluster run that is dispatched cancels the one that is pending.       *)
Dispatch(r) ==
  /\ kind[r] = "none" /\ \A s \in Runs : s < r => kind[s] # "none"
  /\ \E k \in PodKinds \cup ClusterKinds : \E i \in Inputs(k) :
       /\ kind' = [kind EXCEPT ![r] = k]
       /\ input' = [input EXCEPT ![r] = i]
       /\ status' = [s \in Runs |->
            IF s = r THEN "queued"
            ELSE IF k \in ClusterKinds /\ kind[s] \in ClusterKinds
                      /\ status[s] = "queued" THEN "completed"
            ELSE status[s]]
  /\ UNCHANGED <<at, lambda, drain, cluster>>

FirstStep(k) == CASE k \in PodKinds -> "check" [] k = "cluster-up" -> "deploy"
                  [] OTHER -> "stacks"

(* A runner takes the run; the cluster workflows run one at a time.        *)
Begin(r) ==
  /\ status[r] = "queued"
  /\ kind[r] \in ClusterKinds =>
       \A s \in Runs : kind[s] \in ClusterKinds => status[s] # "in_progress"
  /\ status' = [status EXCEPT ![r] = "in_progress"]
  /\ at' = [at EXCEPT ![r] = FirstStep(kind[r])]
  /\ SameRun /\ UNCHANGED <<drain, cluster>>

-----------------------------------------------------------------------------
(* pod-up.yml and pod-down.yml.                                            *)

(* Mutant: a pod run waits for cluster-down instead of refusing.           *)
PodWaits(r) ==
  /\ Doing(r, "check")
  /\ ActiveRuns("cluster-down") = {} /\ Goto(r, "invoke")
  /\ SameRun /\ UNCHANGED <<drain, cluster>>

(* Mutant: a pod run does not look for a cluster-down.                     *)
PodNeverRefuses(r) ==
  /\ Doing(r, "check")
  /\ Goto(r, "invoke")
  /\ SameRun /\ UNCHANGED <<drain, cluster>>

(* teardown-lock, mode refuse.  A list that fails ends the run too.        *)
PodRefuses(r) ==
  /\ Doing(r, "check")
  /\ \/ ActiveRuns("cluster-down") = {} /\ Goto(r, "invoke")
     \/ (ActiveRuns("cluster-down") # {} \/ "list" \in faults) /\ Finish(r)
  /\ SameRun /\ UNCHANGED <<drain, cluster>>

PodInvokes(r) ==
  /\ Doing(r, "invoke")
  /\ IF "PodManager" \in stacks
     THEN lambda' = [lambda EXCEPT ![r] = "called"] /\ Goto(r, "answer")
     ELSE Finish(r) /\ UNCHANGED lambda
  /\ UNCHANGED <<kind, input, drain, cluster>>

PodFinishes(r) ==
  /\ Doing(r, "answer") /\ lambda[r] = "done"
  /\ Finish(r)
  /\ SameRun /\ UNCHANGED <<drain, cluster>>

(* The job ends; the invocation it made does not.                          *)
Cancel(r) ==
  /\ "cancel" \in faults /\ kind[r] \in PodKinds /\ status[r] = "in_progress"
  /\ Finish(r)
  /\ SameRun /\ UNCHANGED <<drain, cluster>>

LambdaGoes(r, state) == lambda' = [lambda EXCEPT ![r] = state]
SameButLambda == UNCHANGED <<kind, status, at, input, drain, stacks, fs, policy, faults>>

(* podUp: the conflict check and the access point; then the registry row.  *)
LambdaCreates(r) ==
  LET p == input[r].pod IN
  /\ kind[r] = "pod-up" /\ lambda[r] = "called"
  /\ IF p \in pods \/ ~fs \/ "PodManager" \notin stacks
     THEN LambdaGoes(r, "done") /\ UNCHANGED workspaces
     ELSE LambdaGoes(r, "creating") /\ workspaces' = workspaces \cup {p}
  /\ SameButLambda /\ UNCHANGED pods

LambdaRegisters(r) ==
  /\ kind[r] = "pod-up" /\ lambda[r] = "creating"
  /\ pods' = IF "PodManager" \in stacks THEN pods \cup {input[r].pod} ELSE pods
  /\ LambdaGoes(r, "done")
  /\ SameButLambda /\ UNCHANGED workspaces

LambdaDowns(r) ==
  LET p == input[r].pod IN
  /\ kind[r] = "pod-down" /\ lambda[r] = "called"
  /\ pods' = pods \ {p}
  /\ workspaces' = IF p \in pods /\ ~input[r].keep THEN workspaces \ {p}
                   ELSE workspaces
  /\ LambdaGoes(r, "done")
  /\ SameButLambda

(* The idle reaper takes pods down whenever it likes, keeping workspaces;  *)
(* a local pod-cli brings one up.                                          *)
ReaperDowns(p) ==
  /\ p \in pods
  /\ pods' = pods \ {p}
  /\ UNCHANGED <<runVars, drain, workspaces, stacks, fs, policy, faults>>
LocalUp(p) ==
  /\ "local" \in faults /\ stacks = Stacks /\ fs
  /\ pods' = pods \cup {p} /\ workspaces' = workspaces \cup {p}
  /\ UNCHANGED <<runVars, drain, stacks, fs, policy, faults>>

-----------------------------------------------------------------------------
(* cluster-up.yml: deploys the stacks; the policy is that of the config it *)
(* finds committed.                                                        *)

ClusterUp(r) ==
  /\ Doing(r, "deploy")
  /\ stacks' = Stacks /\ fs' = TRUE /\ policy' \in Policies
  /\ Finish(r)
  /\ SameRun /\ UNCHANGED <<drain, pods, workspaces, faults>>

-----------------------------------------------------------------------------
(* cluster-down.yml, step by step.                                         *)

Same == SameRun /\ UNCHANGED cluster

RequireDeployedStacks(r) ==
  /\ Doing(r, "stacks")
  /\ IF stacks = {} THEN Finish(r) ELSE Goto(r, "waitUp")
  /\ todo' = {} /\ failed' = FALSE /\ efsAction' = None
  /\ Same

(* teardown-lock, mode wait: two lists, one for each pod workflow; with a  *)
(* run in either it sleeps and lists again.  They are arguments of echo,   *)
(* where `set -e` does not see one fail: it reads as a list without runs.  *)
ListsNone(workflow) == ActiveRuns(workflow) = {} \/ "list" \in faults
WaitForPodUps(r) ==
  /\ Doing(r, "waitUp") /\ ListsNone("pod-up")
  /\ Goto(r, "waitDown")
  /\ Same /\ UNCHANGED drain
WaitForPodDowns(r) ==
  /\ Doing(r, "waitDown")
  /\ \/ ListsNone("pod-down") /\ Goto(r, "template")
     \/ ActiveRuns("pod-down") # {} /\ Goto(r, "waitUp")
  /\ Same /\ UNCHANGED drain
WaitTimesOut(r) ==
  /\ status[r] = "in_progress" /\ at[r] \in {"waitUp", "waitDown"}
  /\ \E s \in Runs : kind[s] \in PodKinds /\ Unfinished(s)
  /\ Finish(r)
  /\ Same /\ UNCHANGED drain

(* guardWorkspaces.  An error refuses, unless the user has agreed to lose  *)
(* the workspaces.                                                         *)
Proceed(r, action) ==
  Goto(r, "list") /\ efsAction' = action /\ UNCHANGED <<todo, failed>>
Refuse(r) == Finish(r) /\ UNCHANGED drain
GuardFails(r) ==
  /\ "call" \in faults
  /\ IF input[r].deleteWorkspaces THEN Proceed(r, "destroy") ELSE Refuse(r)

(* efsResources of the deployed template; a stack that is gone has no file *)
(* system to lose.                                                         *)
GuardReadsTemplate(r) ==
  /\ Doing(r, "template")
  /\ \/ "Cluster" \notin stacks /\ Proceed(r, "absent")
     \/ "Cluster" \in stacks /\ Goto(r, "resources") /\ UNCHANGED drain
     \/ GuardFails(r)
  /\ Same
GuardListsResources(r) ==
  /\ Doing(r, "resources")
  /\ \/ ~fs /\ Proceed(r, "absent")
     \/ fs /\ policy = "Retain" /\ Proceed(r, "retain")
     \/ fs /\ policy = "Delete" /\ Goto(r, "points") /\ UNCHANGED drain
     \/ GuardFails(r)
  /\ Same
(* Mutant: a workspace counts only while its pod is registered.            *)
GuardListsLivePoints(r) ==
  /\ Doing(r, "points")
  /\ \/ /\ (workspaces \cap pods = {} \/ input[r].deleteWorkspaces)
        /\ Proceed(r, "destroy")
     \/ workspaces \cap pods # {} /\ ~input[r].deleteWorkspaces /\ Refuse(r)
  /\ Same
GuardListsAccessPoints(r) ==
  /\ Doing(r, "points")
  /\ \/ /\ (workspaces = {} \/ input[r].deleteWorkspaces)
        /\ Proceed(r, "destroy")
     \/ workspaces # {} /\ ~input[r].deleteWorkspaces /\ Refuse(r)
     \/ GuardFails(r)
  /\ Same

(* drainForClusterDown: list, `down` each pod, list again.  It proceeds    *)
(* only on a list that worked and was empty.                               *)
Listable == "PodManager" \in stacks
DrainLists(r) ==
  /\ Doing(r, "list")
  /\ \/ Listable /\ pods = {} /\ Goto(r, "destroyPodManager") /\ UNCHANGED todo
     \/ Listable /\ pods # {} /\ input[r].force /\ Goto(r, "down") /\ todo' = pods
     \/ /\ (Listable /\ pods # {} /\ ~input[r].force)
             \/ ~Listable \/ "call" \in faults
        /\ Finish(r) /\ UNCHANGED todo
  /\ Same /\ UNCHANGED <<failed, efsAction>>

(* One `down`, keepWorkspace: true.  "not-found" counts as a failure too.  *)
DrainStopsPod(r) ==
  /\ Doing(r, "down")
  /\ \E p \in todo :
       /\ todo' = todo \ {p}
       /\ \/ p \in pods /\ pods' = pods \ {p} /\ UNCHANGED failed
          \/ (p \notin pods \/ "call" \in faults) /\ failed' = TRUE /\ UNCHANGED pods
  /\ SameRun
  /\ UNCHANGED <<at, status, efsAction, workspaces, stacks, fs, policy, faults>>
DrainJudges(r) ==
  /\ Doing(r, "down") /\ todo = {}
  /\ IF failed THEN Finish(r) ELSE Goto(r, "relist")
  /\ Same /\ UNCHANGED drain
DrainRelists(r) ==
  /\ Doing(r, "relist")
  /\ \/ pods = {} /\ Goto(r, "destroyPodManager")
     \/ (pods # {} \/ "call" \in faults) /\ Finish(r)
  /\ Same /\ UNCHANGED drain

(* cdk destroy: the pod-manager stack with its registry, then the cluster  *)
(* stack, whose file system CloudFormation deletes unless its policy is    *)
(* Retain.                                                                 *)
DestroyPodManager(r) ==
  /\ Doing(r, "destroyPodManager")
  /\ stacks' = stacks \ {"PodManager"} /\ pods' = {}
  /\ Goto(r, IF "Cluster" \in stacks THEN "destroyFs" ELSE "destroyCluster")
  /\ SameRun /\ UNCHANGED <<drain, workspaces, fs, policy, faults>>
DestroyFileSystem(r) ==
  /\ Doing(r, "destroyFs")
  /\ fs' = FALSE /\ workspaces' = {}
  /\ Goto(r, "destroyCluster")
  /\ SameRun /\ UNCHANGED <<drain, pods, stacks, policy, faults>>
DestroyCluster(r) ==
  /\ Doing(r, "destroyCluster")
  /\ stacks' = stacks \ {"Cluster"}
  /\ Finish(r)
  /\ SameRun /\ UNCHANGED <<drain, pods, workspaces, fs, policy, faults>>
DestroyFails(r) ==
  /\ "destroy" \in faults
  /\ status[r] = "in_progress" /\ at[r] \in DestroySteps
  /\ Finish(r)
  /\ Same /\ UNCHANGED drain

-----------------------------------------------------------------------------

PodRun(r) ==
  \/ PodRefuses(r) \/ PodInvokes(r) \/ PodFinishes(r)
  \/ LambdaCreates(r) \/ LambdaRegisters(r) \/ LambdaDowns(r)

ClusterDown(r) ==
  \/ RequireDeployedStacks(r) \/ WaitForPodUps(r) \/ WaitForPodDowns(r)
  \/ GuardReadsTemplate(r) \/ GuardListsResources(r)
  \/ GuardListsAccessPoints(r) \/ DrainLists(r) \/ DrainStopsPod(r)
  \/ DrainJudges(r) \/ DrainRelists(r)
  \/ DestroyPodManager(r) \/ DestroyFileSystem(r) \/ DestroyCluster(r)

RunStep(r) == Begin(r) \/ PodRun(r) \/ ClusterUp(r) \/ ClusterDown(r)

Next ==
  \/ \E r \in Runs :
       \/ Dispatch(r) \/ RunStep(r)
       \/ Cancel(r) \/ WaitTimesOut(r) \/ DestroyFails(r)
  \/ \E p \in Pods : ReaperDowns(p) \/ LocalUp(p)

Spec == Init /\ [][Next]_vars
(* Runners take queued runs and Lambda runs invocations to their end.      *)
(* Nothing is assumed of users, of faults or of the lock's deadline.       *)
FairSpec == Spec /\ \A r \in Runs : SF_vars(RunStep(r))

-----------------------------------------------------------------------------
(* What the interlock, the guard and the drain are for.                    *)

Destroying(r) == status[r] = "in_progress" /\ at[r] \in DestroySteps

(* While cdk destroy runs no pod is registered and no invocation is about  *)
(* to register one, whenever the runs were dispatched (the two halves of   *)
(* teardown-lock, the drain's second list, and their order).  A pod run    *)
(* that is cancelled leaves its invocation behind, a pod-cli outside the   *)
(* workflows takes no part in the lock, and cluster-down takes a list that *)
(* failed for an empty one: all three escape it.                           *)
Locked == faults \cap {"cancel", "local", "list"} = {}
DestroyMeetsNoPod ==
  Locked /\ (\E r \in Runs : Destroying(r)) =>
    pods = {} /\ \A s \in Runs : lambda[s] \notin {"called", "creating"}

(* A workspace goes away only when a pod-down run asked to release it, or  *)
(* the deployed policy retains the file system, or the cluster-down run    *)
(* that destroys it was given delete_workspaces and has announced that     *)
(* (guardWorkspaces, and its place between the lock and the drain), as     *)
(* long as the lock is kept.                                               *)
ReleasedByRun(p) ==
  \E r \in Runs : kind[r] = "pod-down" /\ input[r].pod = p /\ ~input[r].keep
LostWithConsent ==
  \/ policy = "Retain"
  \/ efsAction = "destroy" /\ \E r \in Runs : Destroying(r) /\ input[r].deleteWorkspaces
WorkspacesLostOnlyIfAgreed ==
  [][\A p \in workspaces :
       Locked => p \in workspaces' \/ ReleasedByRun(p) \/ LostWithConsent]_vars

(* The lock cannot make runs wait for each other: every run completes,     *)
(* without the help of the lock's 30-minute deadline.  MaxRuns bounds the  *)
(* runs, and a completed one stays so: at the end none is unfinished.      *)
EveryRunCompletes == <>[](\A r \in Runs : ~Unfinished(r))
=============================================================================
