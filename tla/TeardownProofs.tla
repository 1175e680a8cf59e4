--------------------------- MODULE TeardownProofs ---------------------------
(* Theorems about Teardown, for any number of runs and pods.               *)
EXTENDS Teardown, FiniteSetTheorems, TLAPS

-----------------------------------------------------------------------------
(* Type correctness.                                                       *)

LEMMA Places ==
  Place = {"start", "deploy", "end", "check", "invoke", "answer", "stacks",
           "waitUp", "waitDown", "template", "resources", "points", "list",
           "down", "relist", "destroyPodManager", "destroyFs", "destroyCluster"}
BY DEF Place, PodSteps, DownSteps, GuardSteps, DrainSteps, DestroySteps

LEMMA InputsAreInput ==
  ASSUME NEW k \in PodKinds \cup ClusterKinds, NEW i \in Inputs(k)
  PROVE  i \in Input /\ (k \in PodKinds => i.pod \in Pods)
BY DEF Inputs, Input

(* TypeOK is not inductive: podUp writes the pod of its run's input into   *)
(* the registry, which is a pod because the pod workflows require one.     *)
PodRunsNamePods == \A r \in Runs : kind[r] \in PodKinds => input[r].pod \in Pods
TypeInv == TypeOK /\ PodRunsNamePods

(* What the helpers that move a run do to its type.                        *)
LEMMA RunMoves ==
  ASSUME TypeOK, NEW r \in Runs
  PROVE  /\ \A step \in Place : Goto(r, step) =>
              at' \in [Runs -> Place] /\ status' = status
         /\ Finish(r) => /\ at' \in [Runs -> Place]
                         /\ status' \in [Runs -> {"none", "queued", "in_progress",
                                                  "completed"}]
BY Places DEF TypeOK, Goto, Finish

LEMMA TypeInit == Init => TypeInv
<1> SUFFICES ASSUME Init PROVE TypeInv
  OBVIOUS
<1>1. NoInput \in Input
  BY DEF Input, NoInput
<1>2. "start" \in Place
  BY Places
<1>3. PodRunsNamePods
  BY DEF Init, PodRunsNamePods, PodKinds
<1> QED
  BY <1>1, <1>2, <1>3 DEF Init, TypeInv, TypeOK, Policies, Stacks

LEMMA TypeNext == TypeInv /\ [Next]_vars => TypeInv'
<1> SUFFICES ASSUME TypeInv, [Next]_vars PROVE TypeInv'
  OBVIOUS
<1> USE RunMoves, Places DEF TypeInv, TypeOK, PodRunsNamePods
<1>1. ASSUME NEW r \in Runs, Dispatch(r) PROVE TypeInv'
  <2>1. PICK k \in PodKinds \cup ClusterKinds : \E i \in Inputs(k) :
          /\ kind' = [kind EXCEPT ![r] = k] /\ input' = [input EXCEPT ![r] = i]
          /\ status' = [s \in Runs |->
               IF s = r THEN "queued"
               ELSE IF k \in ClusterKinds /\ kind[s] \in ClusterKinds
                         /\ status[s] = "queued" THEN "completed"
               ELSE status[s]]
    BY <1>1 DEF Dispatch
  <2> QED
    BY <1>1, <2>1, InputsAreInput DEF Dispatch, drain, cluster
<1>2. ASSUME NEW r \in Runs, Begin(r) PROVE TypeInv'
  BY <1>2 DEF Begin, FirstStep, SameRun, drain, cluster
<1>3. ASSUME NEW r \in Runs, PodRun(r) PROVE TypeInv'
  <2>1. CASE PodRefuses(r)
    BY <2>1 DEF PodRefuses, SameRun, drain, cluster
  <2>2. CASE PodInvokes(r)
    BY <2>2 DEF PodInvokes, drain, cluster
  <2>3. CASE PodFinishes(r)
    BY <2>3 DEF PodFinishes, SameRun, drain, cluster
  <2>4. CASE LambdaCreates(r)
    BY <2>4 DEF LambdaCreates, LambdaGoes, SameButLambda, drain, PodKinds
  <2>5. CASE LambdaRegisters(r)
    BY <2>5 DEF LambdaRegisters, LambdaGoes, SameButLambda, drain, PodKinds
  <2>6. CASE LambdaDowns(r)
    BY <2>6 DEF LambdaDowns, LambdaGoes, SameButLambda, drain
  <2> QED
    BY <1>3, <2>1, <2>2, <2>3, <2>4, <2>5, <2>6 DEF PodRun
<1>4. ASSUME NEW r \in Runs, ClusterUp(r) PROVE TypeInv'
  BY <1>4 DEF ClusterUp, SameRun, drain
<1>5. ASSUME NEW r \in Runs, ClusterDown(r) PROVE TypeInv'
  <2>1. CASE RequireDeployedStacks(r)
    BY <2>1 DEF RequireDeployedStacks, Same, SameRun, cluster
  <2>2. CASE WaitForPodUps(r)
    BY <2>2 DEF WaitForPodUps, Same, SameRun, cluster, drain
  <2>3. CASE WaitForPodDowns(r)
    BY <2>3 DEF WaitForPodDowns, Same, SameRun, cluster, drain
  <2>4. CASE GuardReadsTemplate(r)
    BY <2>4 DEF GuardReadsTemplate, GuardFails, Proceed, Refuse, Same, SameRun,
       cluster, drain
  <2>5. CASE GuardListsResources(r)
    BY <2>5 DEF GuardListsResources, GuardFails, Proceed, Refuse, Same, SameRun,
       cluster, drain
  <2>6. CASE GuardListsAccessPoints(r)
    BY <2>6 DEF GuardListsAccessPoints, GuardFails, Proceed, Refuse, Same,
       SameRun, cluster, drain
  <2>7. CASE DrainLists(r)
    BY <2>7 DEF DrainLists, Same, SameRun, cluster
  <2>8. CASE DrainStopsPod(r)
    BY <2>8 DEF DrainStopsPod, SameRun
  <2>9. CASE DrainJudges(r)
    BY <2>9 DEF DrainJudges, Same, SameRun, cluster, drain
  <2>10. CASE DrainRelists(r)
    BY <2>10 DEF DrainRelists, Same, SameRun, cluster, drain
  <2>11. CASE DestroyPodManager(r)
    BY <2>11 DEF DestroyPodManager, SameRun, drain
  <2>12. CASE DestroyFileSystem(r)
    BY <2>12 DEF DestroyFileSystem, SameRun, drain
  <2>13. CASE DestroyCluster(r)
    BY <2>13 DEF DestroyCluster, SameRun, drain
  <2> QED
    BY <1>5, <2>1, <2>2, <2>3, <2>4, <2>5, <2>6, <2>7, <2>8, <2>9, <2>10,
       <2>11, <2>12, <2>13 DEF ClusterDown
<1>6. ASSUME NEW r \in Runs, Cancel(r) \/ WaitTimesOut(r) \/ DestroyFails(r)
      PROVE  TypeInv'
  BY <1>6 DEF Cancel, WaitTimesOut, DestroyFails, Same, SameRun, drain, cluster
<1>7. ASSUME NEW p \in Pods, ReaperDowns(p) \/ LocalUp(p) PROVE TypeInv'
  BY <1>7 DEF ReaperDowns, LocalUp, runVars, drain
<1>8. CASE UNCHANGED vars
  BY <1>8 DEF vars, runVars, drain, cluster
<1> QED
  BY <1>1, <1>2, <1>3, <1>4, <1>5, <1>6, <1>7, <1>8 DEF Next, RunStep

(* Every state of Teardown has its type.                                   *)
THEOREM TypeCorrect == Spec => []TypeOK
<1>1. TypeInv /\ [Next]_vars => TypeInv'
  BY TypeNext
<1>2. TypeInv => TypeOK
  BY DEF TypeInv
<1> QED
  BY <1>1, <1>2, TypeInit, PTL DEF Spec

-----------------------------------------------------------------------------
(* The lock.  Each side looks for the other only once it is in progress    *)
(* itself, and stays visible until it has completed.  So when cluster-down *)
(* has seen no pod run, those that come later see cluster-down.  That      *)
(* takes lists which show every run that has not completed.                *)

NoneHidden == \A r \in Runs : Unfinished(r) => r \in ActiveRuns(kind[r])

StepFitsKind ==
  \A r \in Runs :
    /\ kind[r] = "none" => status[r] = "none"
    /\ status[r] = "in_progress" =>
         /\ at[r] \in PodSteps => kind[r] \in PodKinds
         /\ at[r] \in DownSteps => kind[r] = "cluster-down"
         /\ at[r] = "deploy" => kind[r] = "cluster-up"

(* The concurrency group.                                                  *)
OneClusterRun ==
  \A r, s \in Runs :
    /\ kind[r] \in ClusterKinds /\ status[r] = "in_progress"
    /\ kind[s] \in ClusterKinds /\ status[s] = "in_progress"
    => r = s

(* A pod run that teardown-lock has let through, and a cluster-down that   *)
(* has seen no run of workflow w.                                          *)
LetThrough(r) == status[r] = "in_progress" /\ at[r] \in {"invoke", "answer"}
Alone == GuardSteps \cup DrainSteps \cup DestroySteps
HasSeenNo(w, d) ==
  /\ status[d] = "in_progress"
  /\ at[d] \in Alone \/ (w = "pod-up" /\ at[d] = "waitDown")

LockHolds ==
  \A r, d \in Runs : ~(LetThrough(r) /\ HasSeenNo(kind[r], d))

(* An invocation is in flight only while the run that made it waits.       *)
InFlight(r) == lambda[r] \in {"called", "creating"}
InvocationsHaveRuns ==
  \A r \in Runs : InFlight(r) => status[r] = "in_progress" /\ at[r] = "answer"

DrainedMeansEmpty == (\E r \in Runs : Destroying(r)) => pods = {}

LockInv ==
  /\ StepFitsKind /\ OneClusterRun
  /\ Locked => LockHolds /\ InvocationsHaveRuns /\ DrainedMeansEmpty

(* What a step of cluster-down does, as far as the lock is concerned.      *)
LEMMA ClusterDownMoves ==
  ASSUME TypeOK, NEW r \in Runs, ClusterDown(r)
  PROVE  /\ UNCHANGED <<kind, input, lambda, faults>>
         /\ status[r] = "in_progress" /\ at[r] \in DownSteps
         /\ pods' \subseteq pods
         /\ \/ Finish(r)
            \/ \E step \in DownSteps :
                 /\ Goto(r, step)
                 /\ step = "waitDown" => ListsNone("pod-up")
                 /\ step \in Alone => \/ at[r] \in Alone
                                      \/ at[r] = "waitDown" /\ ListsNone("pod-down")
                 /\ step \in DestroySteps => at[r] \in DestroySteps \/ pods' = {}
<1> USE DEF Doing, Same, SameRun, cluster, drain, Alone, GuardSteps, DrainSteps,
        DestroySteps, DownSteps
<1>1. CASE RequireDeployedStacks(r)
  BY <1>1 DEF RequireDeployedStacks
<1>2. CASE WaitForPodUps(r)
  BY <1>2 DEF WaitForPodUps
<1>3. CASE WaitForPodDowns(r)
  BY <1>3 DEF WaitForPodDowns
<1>4. CASE GuardReadsTemplate(r)
  BY <1>4 DEF GuardReadsTemplate, GuardFails, Proceed, Refuse
<1>5. CASE GuardListsResources(r)
  BY <1>5 DEF GuardListsResources, GuardFails, Proceed, Refuse
<1>6. CASE GuardListsAccessPoints(r)
  BY <1>6 DEF GuardListsAccessPoints, GuardFails, Proceed, Refuse
<1>7. CASE DrainLists(r)
  BY <1>7 DEF DrainLists
<1>8. CASE DrainStopsPod(r)
  <2>1. /\ UNCHANGED <<kind, input, lambda, faults>>
        /\ at[r] = "down" /\ Goto(r, "down") /\ pods' \subseteq pods
    BY <1>8 DEF DrainStopsPod, Goto, TypeOK
  <2> QED
    BY <1>8, <2>1 DEF DrainStopsPod
<1>9. CASE DrainJudges(r)
  BY <1>9 DEF DrainJudges
<1>10. CASE DrainRelists(r)
  BY <1>10 DEF DrainRelists
<1>11. CASE DestroyPodManager(r)
  BY <1>11 DEF DestroyPodManager
<1>12. CASE DestroyFileSystem(r)
  BY <1>12 DEF DestroyFileSystem
<1>13. CASE DestroyCluster(r)
  BY <1>13 DEF DestroyCluster
<1> QED
  BY <1>1, <1>2, <1>3, <1>4, <1>5, <1>6, <1>7, <1>8, <1>9, <1>10, <1>11, <1>12,
     <1>13 DEF ClusterDown

(* The same for the steps of a pod run and its invocation.                 *)
LEMMA PodRunMoves ==
  ASSUME TypeOK, InvocationsHaveRuns, NEW r \in Runs, PodRun(r)
  PROVE  /\ UNCHANGED <<kind, input, faults>>
         /\ \A s \in Runs : s # r => UNCHANGED <<status[s], at[s], lambda[s]>>
         /\ \/ status'[r] = "completed"
            \/ UNCHANGED <<at[r], status[r]>>
            \/ /\ status[r] = "in_progress" /\ at[r] \in PodSteps
               /\ status'[r] = "in_progress"
               /\ \/ at[r] = "check" /\ at'[r] = "invoke" /\ ActiveRuns("cluster-down") = {}
                  \/ at[r] = "invoke" /\ at'[r] = "answer"
         /\ InFlight(r)' => \/ InFlight(r) /\ UNCHANGED <<status[r], at[r]>>
                            \/ status'[r] = "in_progress" /\ at'[r] = "answer"
         /\ pods' \subseteq pods \/ InFlight(r)
<1> USE DEF TypeOK, InvocationsHaveRuns, Doing, SameRun, cluster, drain, InFlight,
    PodSteps
<1>1. CASE PodRefuses(r)
  BY <1>1 DEF PodRefuses, Goto, Finish
<1>2. CASE PodInvokes(r)
  BY <1>2 DEF PodInvokes, Goto, Finish
<1>3. CASE PodFinishes(r)
  BY <1>3 DEF PodFinishes, Finish
<1>4. CASE LambdaCreates(r)
  BY <1>4 DEF LambdaCreates, LambdaGoes, SameButLambda
<1>5. CASE LambdaRegisters(r)
  BY <1>5 DEF LambdaRegisters, LambdaGoes, SameButLambda
<1>6. CASE LambdaDowns(r)
  BY <1>6 DEF LambdaDowns, LambdaGoes, SameButLambda
<1> QED
  BY <1>1, <1>2, <1>3, <1>4, <1>5, <1>6 DEF PodRun

LEMMA LockInit == Init => LockInv
BY DEF Init, LockInv, StepFitsKind, OneClusterRun, LockHolds, LetThrough, HasSeenNo,
   InvocationsHaveRuns, InFlight, DrainedMeansEmpty, Destroying

(* Steps and kinds agree, and the concurrency group keeps the cluster runs *)
(* apart, whatever the faults.                                             *)
LEMMA GroupNext ==
  ASSUME TypeOK, StepFitsKind, OneClusterRun, [Next]_vars
  PROVE  StepFitsKind' /\ OneClusterRun'
<1> USE Places DEF TypeOK, StepFitsKind, OneClusterRun, PodSteps, DownSteps,
        GuardSteps, DrainSteps, DestroySteps
<1>1. ASSUME NEW r \in Runs, Dispatch(r) PROVE StepFitsKind' /\ OneClusterRun'
  BY <1>1 DEF Dispatch, PodKinds, ClusterKinds
<1>2. ASSUME NEW r \in Runs, Begin(r) PROVE StepFitsKind' /\ OneClusterRun'
  BY <1>2 DEF Begin, FirstStep, SameRun, PodKinds, ClusterKinds
<1>3. ASSUME NEW r \in Runs, status[r] = "in_progress", Finish(r), UNCHANGED kind
      PROVE  StepFitsKind' /\ OneClusterRun'
  BY <1>3 DEF Finish
<1>4. ASSUME NEW r \in Runs, PodRun(r) PROVE StepFitsKind' /\ OneClusterRun'
  <2>1. CASE PodRefuses(r)
    BY <1>3, <2>1 DEF PodRefuses, Goto, Doing, SameRun
  <2>2. CASE PodInvokes(r)
    BY <1>3, <2>2 DEF PodInvokes, Goto, Doing
  <2>3. CASE PodFinishes(r)
    BY <1>3, <2>3 DEF PodFinishes, Doing, SameRun
  <2>4. CASE LambdaCreates(r) \/ LambdaRegisters(r) \/ LambdaDowns(r)
    BY <2>4 DEF LambdaCreates, LambdaRegisters, LambdaDowns, SameButLambda
  <2> QED
    BY <1>4, <2>1, <2>2, <2>3, <2>4 DEF PodRun
<1>5. ASSUME NEW r \in Runs, ClusterUp(r) PROVE StepFitsKind' /\ OneClusterRun'
  BY <1>3, <1>5 DEF ClusterUp, Doing, SameRun
<1>6. ASSUME NEW r \in Runs, ClusterDown(r) PROVE StepFitsKind' /\ OneClusterRun'
  <2>1. CASE Finish(r)
    BY <1>3, <1>6, <2>1, ClusterDownMoves
  <2>2. CASE \E step \in DownSteps : Goto(r, step)
    BY <1>6, <2>2, ClusterDownMoves DEF Goto
  <2> QED
    BY <1>6, <2>1, <2>2, ClusterDownMoves
<1>7. ASSUME NEW r \in Runs, Cancel(r) \/ WaitTimesOut(r) \/ DestroyFails(r)
      PROVE  StepFitsKind' /\ OneClusterRun'
  BY <1>3, <1>7 DEF Cancel, WaitTimesOut, DestroyFails, Same, SameRun
<1>8. ASSUME NEW p \in Pods, ReaperDowns(p) \/ LocalUp(p)
      PROVE  StepFitsKind' /\ OneClusterRun'
  BY <1>8 DEF ReaperDowns, LocalUp, runVars
<1>9. CASE UNCHANGED vars
  BY <1>9 DEF vars, runVars
<1> QED
  BY <1>1, <1>2, <1>4, <1>5, <1>6, <1>7, <1>8, <1>9 DEF Next, RunStep

(* The faults of a behaviour are chosen at its start.                      *)
LEMMA FaultsStay == ASSUME TypeOK, [Next]_vars PROVE faults' = faults
<1>1. ASSUME NEW r \in Runs, ClusterDown(r) PROVE faults' = faults
  BY <1>1, ClusterDownMoves
<1>2. ASSUME NEW r \in Runs, PodRun(r) PROVE faults' = faults
  BY <1>2 DEF PodRun, PodRefuses, PodInvokes, PodFinishes, LambdaCreates,
     LambdaRegisters, LambdaDowns, SameButLambda, cluster
<1> QED
  BY <1>1, <1>2 DEF Next, RunStep, Dispatch, Begin, ClusterUp, Cancel, WaitTimesOut,
     DestroyFails, Same, ReaperDowns, LocalUp, vars, cluster

LEMMA LockNext ==
  ASSUME TypeOK, NoneHidden, LockInv, Locked, [Next]_vars
  PROVE  LockHolds' /\ InvocationsHaveRuns' /\ DrainedMeansEmpty'
<1> DEFINE Goal == LockHolds' /\ InvocationsHaveRuns' /\ DrainedMeansEmpty'
<1> USE DEF LockInv, TypeOK, StepFitsKind, LockHolds, InvocationsHaveRuns,
        DrainedMeansEmpty, LetThrough, HasSeenNo, InFlight, Destroying
<1>0. /\ PodKinds = {"pod-up", "pod-down"} /\ PodSteps = {"check", "invoke", "answer"}
      /\ Alone = {"template", "resources", "points", "list", "down", "relist",
                  "destroyPodManager", "destroyFs", "destroyCluster"}
      /\ DestroySteps = {"destroyPodManager", "destroyFs", "destroyCluster"}
      /\ DownSteps = Alone \cup {"stacks", "waitUp", "waitDown"}
  BY DEF PodKinds, PodSteps, Alone, DownSteps, GuardSteps, DrainSteps, DestroySteps
<1>1. ASSUME NEW r \in Runs, Dispatch(r) PROVE Goal
  BY <1>0, <1>1 DEF Dispatch, cluster
<1>2. ASSUME NEW r \in Runs, Begin(r) PROVE Goal
  <2>1. FirstStep(kind[r]) \in {"check", "deploy", "stacks"}
    BY DEF FirstStep
  <2> QED
    BY <1>0, <1>2, <2>1 DEF Begin, SameRun, cluster
<1>3. ASSUME NEW r \in Runs, Finish(r), UNCHANGED <<kind, lambda>>,
             pods' \subseteq pods, ~InFlight(r)
      PROVE  Goal
  BY <1>3 DEF Finish
<1>4. ASSUME NEW r \in Runs, PodRun(r) PROVE Goal
  <2>1. ASSUME NEW d \in Runs, HasSeenNo(kind[r], d) PROVE ~LetThrough(r)'
    <3>1. kind[d] = "cluster-down" /\ Unfinished(d)
      BY <1>0, <2>1 DEF Unfinished
    <3>2. d \in ActiveRuns("cluster-down")
      BY <3>1 DEF NoneHidden
    <3> QED
      BY <1>0, <1>4, <2>1, <3>2, PodRunMoves
  <2>2. LockHolds'
    BY <1>0, <1>4, <2>1, PodRunMoves
  <2>3. InvocationsHaveRuns'
    BY <1>4, PodRunMoves
  <2>4. DrainedMeansEmpty'
    BY <1>0, <1>4, PodRunMoves
  <2> QED
    BY <2>2, <2>3, <2>4
<1>5. ASSUME NEW r \in Runs, ClusterUp(r) PROVE Goal
  BY <1>3, <1>5, <1>0 DEF ClusterUp, Doing, SameRun
<1>6. ASSUME NEW r \in Runs, ClusterDown(r) PROVE Goal
  <2>1. ~InFlight(r)
    BY <1>0, <1>6, ClusterDownMoves
  <2>2. CASE Finish(r)
    BY <1>3, <1>6, <2>1, <2>2, ClusterDownMoves
  <2>3. ASSUME NEW step \in DownSteps, Goto(r, step),
               step = "waitDown" => ListsNone("pod-up"),
               step \in Alone => \/ at[r] \in Alone
                                 \/ at[r] = "waitDown" /\ ListsNone("pod-down"),
               step \in DestroySteps => at[r] \in DestroySteps \/ pods' = {}
        PROVE  Goal
    <3>0. /\ UNCHANGED <<kind, status, lambda>> /\ status[r] = "in_progress"
          /\ at[r] \in DownSteps /\ at' = [at EXCEPT ![r] = step]
      BY <1>6, <2>3, ClusterDownMoves DEF Goto
    <3>1. ASSUME NEW s \in Runs, LetThrough(s)', HasSeenNo(kind[s], r)' PROVE FALSE
      <4>1. s # r /\ LetThrough(s) /\ kind[s] \in PodKinds
        BY <1>0, <2>3, <3>0, <3>1
      <4>2. s \in ActiveRuns(kind[s])
        BY <4>1 DEF NoneHidden, Unfinished
      <4>3. ~HasSeenNo(kind[s], r)
        BY <4>1
      <4>4. step \in Alone \/ (kind[s] = "pod-up" /\ step = "waitDown")
        BY <3>0, <3>1
      <4>5. CASE step = "waitDown"
        BY <1>0, <2>3, <4>2, <4>4, <4>5 DEF ListsNone, Locked
      <4>6. CASE step \in Alone
        <5>1. at[r] = "waitDown" /\ ActiveRuns("pod-down") = {}
          BY <2>3, <3>0, <4>3, <4>6 DEF ListsNone, Locked
        <5> QED
          BY <1>0, <3>0, <4>1, <4>2, <4>3, <5>1
      <4> QED
        BY <4>4, <4>5, <4>6
    <3>2. LockHolds'
      <4>1. ASSUME NEW s \in Runs, NEW d \in Runs, d # r,
                   LetThrough(s)', HasSeenNo(kind[s], d)'
            PROVE  FALSE
        <5>1. LetThrough(s)
          BY <1>0, <2>3, <3>0, <4>1
        <5>2. HasSeenNo(kind[s], d)
          BY <3>0, <4>1
        <5> QED
          BY <5>1, <5>2
      <4> QED
        BY <3>0, <3>1, <4>1
    <3>3. InvocationsHaveRuns'
      BY <1>6, <2>1, <2>3, ClusterDownMoves DEF Goto
    <3>4. DrainedMeansEmpty'
      BY <1>0, <1>6, <2>3, ClusterDownMoves DEF Goto
    <3> QED
      BY <3>2, <3>3, <3>4
  <2> QED
    BY <1>6, <2>2, <2>3, ClusterDownMoves
<1>7. ASSUME NEW r \in Runs, WaitTimesOut(r) \/ DestroyFails(r) PROVE Goal
  BY <1>0, <1>3, <1>7 DEF WaitTimesOut, DestroyFails, Same, SameRun, cluster
<1>8. ASSUME NEW r \in Runs, Cancel(r) PROVE Goal
  BY <1>8 DEF Cancel, Locked
<1>9. ASSUME NEW p \in Pods, ReaperDowns(p) \/ LocalUp(p) PROVE Goal
  BY <1>9 DEF ReaperDowns, LocalUp, Locked, runVars
<1>10. CASE UNCHANGED vars
  BY <1>10 DEF vars, runVars, cluster
<1> QED
  BY <1>1, <1>2, <1>4, <1>5, <1>6, <1>7, <1>8, <1>9, <1>10 DEF Next, RunStep

Inv == TypeInv /\ LockInv

LEMMA InvInit == Init => Inv
BY TypeInit, LockInit DEF Inv

LEMMA InvNext == Inv /\ NoneHidden /\ [Next]_vars => Inv'
<1> SUFFICES ASSUME Inv, NoneHidden, [Next]_vars PROVE Inv'
  OBVIOUS
<1>1. TypeOK /\ LockInv
  BY DEF Inv, TypeInv
<1>2. TypeInv'
  BY TypeNext DEF Inv
<1>3. StepFitsKind' /\ OneClusterRun'
  BY <1>1, GroupNext DEF LockInv
<1>4. Locked' => LockHolds' /\ InvocationsHaveRuns' /\ DrainedMeansEmpty'
  BY <1>1, FaultsStay, LockNext DEF Locked
<1> QED
  BY <1>2, <1>3, <1>4 DEF Inv, LockInv

LEMMA InvIsSafe == Inv => DestroyMeetsNoPod
<1> SUFFICES ASSUME Inv, Locked, NEW d \in Runs, Destroying(d)
             PROVE  pods = {} /\ \A s \in Runs : ~InFlight(s)
  BY DEF DestroyMeetsNoPod, InFlight
<1> USE DEF Inv, LockInv
<1>1. pods = {}
  BY DEF DrainedMeansEmpty
<1>2. ASSUME NEW s \in Runs, InFlight(s) PROVE FALSE
  <2>1. LetThrough(s)
    BY <1>2 DEF InvocationsHaveRuns, LetThrough
  <2>2. HasSeenNo(kind[s], d)
    BY DEF HasSeenNo, Destroying, Alone
  <2> QED
    BY <2>1, <2>2 DEF LockHolds
<1> QED
  BY <1>1, <1>2

(* teardown-lock, the drain and their order keep cdk destroy and the pods  *)
(* apart for any number of runs and pods, as long as the lock is kept      *)
(* (Locked: no run cancelled, no pod-cli beside the workflows, and no      *)
(* `gh run list` that fails, which cluster-down would take for an empty    *)
(* one) and no unfinished run has fallen off the list of its workflow.     *)
THEOREM LockKeepsPodsOut == Spec /\ []NoneHidden => []DestroyMeetsNoPod
<1>1. Inv /\ NoneHidden /\ [Next]_vars => Inv'
  BY InvNext
<1> QED
  BY <1>1, InvInit, InvIsSafe, PTL DEF Spec

(* A list as long as the runs there can be hides none.                     *)
LEMMA LongListHidesNone ==
  ASSUME TypeOK, MaxRuns <= ListLimit PROVE NoneHidden
<1> SUFFICES ASSUME NEW r \in Runs, Unfinished(r) PROVE r \in ActiveRuns(kind[r])
  BY DEF NoneHidden
<1> DEFINE Newer == {s \in Runs : s > r /\ kind[s] = kind[r]}
<1>1. MaxRuns \in Nat /\ ListLimit \in Nat
  BY TeardownAssumption
<1>2. r \in 1 .. MaxRuns
  BY DEF Runs
<1>3. /\ IsFiniteSet((r + 1) .. MaxRuns)
      /\ Cardinality((r + 1) .. MaxRuns) = MaxRuns - r
  <2>1. r + 1 \in Int /\ MaxRuns \in Int
    BY <1>1, <1>2
  <2>2. /\ IsFiniteSet((r + 1) .. MaxRuns)
        /\ Cardinality((r + 1) .. MaxRuns)
             = IF r + 1 > MaxRuns THEN 0 ELSE MaxRuns - (r + 1) + 1
    BY <2>1, FS_Interval
  <2> QED
    BY <1>1, <1>2, <2>2
<1>4. Newer \subseteq (r + 1) .. MaxRuns
  BY <1>1, <1>2 DEF Runs
<1>5. Cardinality(Newer) <= MaxRuns - r /\ Cardinality(Newer) \in Nat
  BY <1>3, <1>4, FS_Subset, FS_CardinalityType
<1>6. Cardinality(Newer) < ListLimit
  BY <1>1, <1>2, <1>5
<1> QED
  BY <1>6 DEF ActiveRuns

(* So with at most as many runs as `gh run list` shows, the lock is tight  *)
(* in every behaviour without the three faults that escape it (Locked).    *)
THEOREM LockIsTight ==
  ASSUME MaxRuns <= ListLimit PROVE Spec => []DestroyMeetsNoPod
<1>1. Spec => []NoneHidden
  <2>1. TypeOK => NoneHidden
    BY LongListHidesNone
  <2> QED
    BY <2>1, TypeCorrect, PTL
<1> QED
  BY <1>1, LockKeepsPodsOut, PTL

-----------------------------------------------------------------------------
(* Consent.  From the guard to the end of cdk destroy, what the guard has  *)
(* announced stays true: the lock keeps new workspaces away, and only a    *)
(* cluster run changes the stacks, the file system and its policy.         *)

Announced(d) ==
  \/ efsAction = "absent" /\ ("Cluster" \notin stacks \/ ~fs)
  \/ efsAction = "retain" /\ policy = "Retain"
  \/ efsAction = "destroy" /\ (input[d].deleteWorkspaces \/ workspaces = {})

ConsentInv ==
  /\ ~fs => workspaces = {}
  /\ \A d \in Runs : status[d] = "in_progress" =>
       /\ at[d] \in DrainSteps \cup DestroySteps => Announced(d)
       /\ at[d] = "destroyFs" => "Cluster" \in stacks

LEMMA ConsentInit == Init => ConsentInv
BY DEF Init, ConsentInv

(* A pod run's steps change only the registry and the workspaces, and add  *)
(* a workspace only while its run is let through.                          *)
LEMMA PodRunKeepsConsent ==
  ASSUME Inv, Locked, ConsentInv, NEW r \in Runs, PodRun(r)
  PROVE  ConsentInv'
<1> USE DEF Inv, TypeInv, TypeOK
<1>1. InvocationsHaveRuns /\ LockHolds
  BY DEF LockInv
<1>2. UNCHANGED <<efsAction, stacks, fs, policy, input>>
  BY DEF PodRun, PodRefuses, PodInvokes, PodFinishes, LambdaCreates, LambdaRegisters,
     LambdaDowns, SameButLambda, SameRun, cluster, drain
<1>3. ASSUME ~(workspaces' \subseteq workspaces)
      PROVE  fs /\ InFlight(r)
  BY <1>3 DEF PodRun, PodRefuses, PodInvokes, PodFinishes, LambdaCreates,
     LambdaRegisters, LambdaDowns, SameButLambda, SameRun, cluster, drain, InFlight
<1>4. ASSUME NEW d \in Runs, status'[d] = "in_progress",
             at'[d] \in DrainSteps \cup DestroySteps
      PROVE  status[d] = "in_progress" /\ at[d] = at'[d]
  BY <1>1, <1>4, PodRunMoves DEF PodSteps, DrainSteps, DestroySteps
<1>5. ASSUME NEW d \in Runs, status[d] = "in_progress",
             at[d] \in DrainSteps \cup DestroySteps
      PROVE  ~InFlight(r)
  <2>1. HasSeenNo(kind[r], d)
    BY <1>5 DEF HasSeenNo, Alone
  <2> QED
    BY <1>1, <2>1 DEF LockHolds, InvocationsHaveRuns, LetThrough
<1>6. ~fs' => workspaces' = {}
  BY <1>2, <1>3 DEF ConsentInv
<1>7. ASSUME NEW d \in Runs, status'[d] = "in_progress",
             at'[d] \in DrainSteps \cup DestroySteps
      PROVE  Announced(d)'
  BY <1>2, <1>3, <1>4, <1>5, <1>7 DEF ConsentInv, Announced
<1>8. ASSUME NEW d \in Runs, status'[d] = "in_progress", at'[d] = "destroyFs"
      PROVE  "Cluster" \in stacks'
  BY <1>2, <1>4, <1>8 DEF ConsentInv, DestroySteps
<1> QED
  BY <1>6, <1>7, <1>8 DEF ConsentInv

LEMMA ClusterDownKeepsConsent ==
  ASSUME Inv, Locked, ConsentInv, NEW r \in Runs, ClusterDown(r)
  PROVE  ConsentInv'
<1> USE DEF Inv, TypeInv, TypeOK
<1>0. /\ DrainSteps = {"list", "down", "relist"}
      /\ DestroySteps = {"destroyPodManager", "destroyFs", "destroyCluster"}
      /\ Policies = {"Retain", "Delete"}
  BY DEF DrainSteps, DestroySteps, Policies
(* No other cluster run is in progress.                                    *)
<1>1. \A d \in Runs : status[d] = "in_progress"
                        /\ at[d] \in DrainSteps \cup DestroySteps => d = r
  <2>1. status[r] = "in_progress" /\ at[r] \in DownSteps
    BY ClusterDownMoves
  <2> QED
    BY <2>1 DEF LockInv, StepFitsKind, OneClusterRun, ClusterKinds, DownSteps
<1> USE <1>0, <1>1 DEF ConsentInv, Announced, Doing, Goto, Finish, SameRun, Same,
        drain, cluster
<1>2. CASE RequireDeployedStacks(r)
  BY <1>2 DEF RequireDeployedStacks
<1>3. CASE WaitForPodUps(r) \/ WaitForPodDowns(r)
  BY <1>3 DEF WaitForPodUps, WaitForPodDowns
<1>4. CASE GuardReadsTemplate(r)
  BY <1>4 DEF GuardReadsTemplate, GuardFails, Proceed, Refuse
<1>5. CASE GuardListsResources(r)
  BY <1>5 DEF GuardListsResources, GuardFails, Proceed, Refuse
<1>6. CASE GuardListsAccessPoints(r)
  BY <1>6 DEF GuardListsAccessPoints, GuardFails, Proceed, Refuse
<1>7. CASE DrainLists(r)
  BY <1>7 DEF DrainLists
<1>8. CASE DrainStopsPod(r)
  BY <1>8 DEF DrainStopsPod
<1>9. CASE DrainJudges(r) \/ DrainRelists(r)
  BY <1>9 DEF DrainJudges, DrainRelists
<1>10. CASE DestroyPodManager(r)
  BY <1>10 DEF DestroyPodManager
<1>11. CASE DestroyFileSystem(r)
  BY <1>11 DEF DestroyFileSystem
<1>12. CASE DestroyCluster(r)
  BY <1>12 DEF DestroyCluster
<1> QED
  BY <1>2, <1>3, <1>4, <1>5, <1>6, <1>7, <1>8, <1>9, <1>10, <1>11, <1>12 DEF ClusterDown

LEMMA ConsentNext ==
  ASSUME Inv, Locked, ConsentInv, [Next]_vars PROVE ConsentInv'
<1> USE DEF Inv, TypeInv, TypeOK
<1>0. /\ DrainSteps = {"list", "down", "relist"}
      /\ DestroySteps = {"destroyPodManager", "destroyFs", "destroyCluster"}
  BY DEF DrainSteps, DestroySteps
<1>1. ASSUME NEW r \in Runs, Dispatch(r) PROVE ConsentInv'
  <2>1. UNCHANGED <<at, efsAction, workspaces, stacks, fs, policy>>
    BY <1>1 DEF Dispatch, drain, cluster
  <2>2. ASSUME NEW d \in Runs, status'[d] = "in_progress"
        PROVE  status[d] = "in_progress" /\ input'[d] = input[d]
    BY <1>1, <2>2 DEF Dispatch, LockInv, StepFitsKind
  <2> QED
    BY <2>1, <2>2 DEF ConsentInv, Announced
<1>2. ASSUME NEW r \in Runs, Begin(r) PROVE ConsentInv'
  <2>1. FirstStep(kind[r]) \in {"check", "deploy", "stacks"}
    BY DEF FirstStep
  <2> QED
    BY <1>0, <1>2, <2>1 DEF Begin, SameRun, drain, cluster, ConsentInv, Announced
<1>3. ASSUME NEW r \in Runs, ClusterUp(r) PROVE ConsentInv'
  <2>1. kind[r] = "cluster-up"
    BY <1>0, <1>3 DEF ClusterUp, Doing, LockInv, StepFitsKind
  <2>2. ASSUME NEW d \in Runs, status'[d] = "in_progress",
               at'[d] \in DrainSteps \cup DestroySteps
        PROVE  FALSE
    <3>1. d # r /\ status[d] = "in_progress" /\ at[d] \in DownSteps
      BY <1>3, <2>2 DEF ClusterUp, Finish, DownSteps
    <3> QED
      BY <1>3, <2>1, <3>1 DEF ClusterUp, Doing, LockInv, StepFitsKind,
         OneClusterRun, ClusterKinds
  <2> QED
    BY <1>0, <1>3, <2>2 DEF ClusterUp, ConsentInv
<1>4. ASSUME NEW r \in Runs, WaitTimesOut(r) \/ DestroyFails(r) PROVE ConsentInv'
  BY <1>4 DEF WaitTimesOut, DestroyFails, Finish, Same, SameRun, drain, cluster,
     ConsentInv, Announced
<1>5. ASSUME NEW r \in Runs, Cancel(r) PROVE ConsentInv'
  BY <1>5 DEF Cancel, Locked
<1>6. ASSUME NEW p \in Pods, ReaperDowns(p) \/ LocalUp(p) PROVE ConsentInv'
  BY <1>6 DEF ReaperDowns, LocalUp, Locked, runVars, drain, ConsentInv, Announced
<1>7. CASE UNCHANGED vars
  BY <1>7 DEF vars, runVars, drain, cluster, ConsentInv, Announced
<1> QED
  BY <1>1, <1>2, <1>3, <1>4, <1>5, <1>6, <1>7, PodRunKeepsConsent,
     ClusterDownKeepsConsent DEF Next, RunStep

(* Only a pod-down that was asked to and the destruction of the file       *)
(* system take a workspace away, and the latter is announced.              *)
LEMMA ConsentStep ==
  ASSUME Inv, Locked, ConsentInv, [Next]_vars, NEW p \in workspaces,
         p \notin workspaces'
  PROVE  ReleasedByRun(p) \/ LostWithConsent
<1> USE DEF Inv, TypeInv, TypeOK
<1>1. (\E r \in Runs : LambdaDowns(r)) \/ (\E r \in Runs : DestroyFileSystem(r))
  BY DEF Next, RunStep, Dispatch, Begin, PodRun, PodRefuses, PodInvokes, PodFinishes,
     LambdaCreates, LambdaRegisters, SameButLambda, ClusterUp, ClusterDown,
     RequireDeployedStacks, WaitForPodUps, WaitForPodDowns, GuardReadsTemplate,
     GuardListsResources, GuardListsAccessPoints, DrainLists, DrainStopsPod,
     DrainJudges, DrainRelists, DestroyPodManager, DestroyCluster, Cancel,
     WaitTimesOut, DestroyFails, Same, ReaperDowns, LocalUp, vars, cluster
<1>2. ASSUME NEW r \in Runs, LambdaDowns(r) PROVE ReleasedByRun(p)
  BY <1>2 DEF LambdaDowns, ReleasedByRun
<1>3. ASSUME NEW r \in Runs, DestroyFileSystem(r) PROVE LostWithConsent
  <2>1. Destroying(r) /\ "Cluster" \in stacks /\ Announced(r)
    BY <1>3 DEF DestroyFileSystem, Doing, Destroying, DestroySteps, ConsentInv
  <2> QED
    BY <2>1 DEF Announced, ConsentInv, LostWithConsent
<1> QED
  BY <1>1, <1>2, <1>3

(* A workspace is lost only to a pod-down that was told to release it, a   *)
(* retaining policy, or a cluster-down whose user agreed, for any number   *)
(* of runs and pods, as long as the lock is kept (Locked, so also no list  *)
(* fails in teardown-lock) and the lists show every unfinished run.        *)
THEOREM LossIsAgreed == Spec /\ []NoneHidden => WorkspacesLostOnlyIfAgreed
<1> DEFINE Consent == Inv /\ (Locked => ConsentInv)
<1>1. Init => Consent
  BY InvInit, ConsentInit
<1>2. Consent /\ NoneHidden /\ [Next]_vars => Consent'
  <2> SUFFICES ASSUME Consent, NoneHidden, [Next]_vars PROVE Consent'
    OBVIOUS
  <2>1. Inv'
    BY InvNext
  <2>2. Locked' = Locked
    BY FaultsStay DEF Locked, Inv, TypeInv
  <2> QED
    BY <2>1, <2>2, ConsentNext
<1>3. Consent /\ [Next]_vars =>
        [\A p \in workspaces :
           Locked => p \in workspaces' \/ ReleasedByRun(p) \/ LostWithConsent]_vars
  <2> SUFFICES ASSUME Consent, [Next]_vars, NEW p \in workspaces, Locked,
                      p \notin workspaces'
               PROVE  ReleasedByRun(p) \/ LostWithConsent
    OBVIOUS
  <2> QED
    BY ConsentStep
<1> QED
  BY <1>1, <1>2, <1>3, PTL DEF Spec, WorkspacesLostOnlyIfAgreed

(* So with at most as many runs as `gh run list` shows, no workspace is    *)
(* lost in any other way while the lock is kept (teardown-lock,            *)
(* cluster-workspace-guard.ts).                                            *)
THEOREM LossIsAgreedInTightLock ==
  ASSUME MaxRuns <= ListLimit PROVE Spec => WorkspacesLostOnlyIfAgreed
<1>1. TypeOK => NoneHidden
  BY LongListHidesNone
<1> QED
  BY <1>1, TypeCorrect, LossIsAgreed, PTL
=============================================================================
