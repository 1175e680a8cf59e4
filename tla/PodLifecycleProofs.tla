------------------------- MODULE PodLifecycleProofs -------------------------
(* Theorems about PodLifecycle, for all values of its constants: by        *)
(* itself, as an implementation of PodStates, and beside IdleReaper.       *)
EXTENDS PodRefinement, IdleReaper, FiniteSetTheorems, TLAPS

-----------------------------------------------------------------------------
(* Type correctness.                                                       *)

(* Every place an invocation can be at, spelled out once.                  *)
LEMMA Places ==
  Place = {"idle", "dead", "get", "find", "prune", "uid", "ap", "taskDef",
           "tg", "rule", "run", "wait", "target", "put", "undoTask",
           "undoRule", "undoTg", "undoAp", "downGet", "downTask", "downRule",
           "downTarget", "downTg", "downAp", "downDelete", "ok", "conflict",
           "refused", "notFound", "error"}
BY DEF Place, Steps, UpSteps, UndoSteps, DownSteps, Answers

LEMMA TypeInit == Init => TypeOK
BY ConstantsAssumption, Places
DEF Init, TypeOK, Row, NoRow, OptCall, OptUid, Tags, NoTags, TaskStatus, Held

LEMMA TypeNext == TypeOK /\ [Next]_vars => TypeOK'
<1> SUFFICES ASSUME TypeOK, [Next]_vars PROVE TypeOK'
  OBVIOUS
<1> USE DEF TypeOK
<1>1. ASSUME NEW c \in Call, StartUp(c) PROVE TypeOK'
  <2>1. pc' \in [Call -> Place]
    BY <1>1, Places DEF StartUp, Goto
  <2>2. req' \in [Call -> Event \cup {NoEvent}]
    BY <1>1, ConstantsAssumption DEF StartUp, Start, Event
  <2> QED
    BY <1>1, <2>1, <2>2, Places DEF StartUp, At, Goto, Start, Event, aws,
       efs, elb, locals
<1>2. ASSUME NEW c \in Call, StartDown(c) PROVE TypeOK'
  <2>1. pc' \in [Call -> Place]
    BY <1>2, Places DEF StartDown, Goto
  <2>2. req' \in [Call -> Event \cup {NoEvent}]
    BY <1>2, ConstantsAssumption DEF StartDown, Start, Event
  <2> QED
    BY <1>2, <2>1, <2>2, Places DEF StartDown, At, Goto, Start, Event, aws,
       efs, elb, locals
<1>3. ASSUME NEW c \in Call, UpRegistryGet(c) PROVE TypeOK'
  BY <1>3, Places DEF UpRegistryGet, At, Goto, aws, efs, elb, locals
<1>4. ASSUME NEW c \in Call, UpFindWorkspace(c) PROVE TypeOK'
  <2>1. pc' \in [Call -> Place]
    BY <1>4, Places DEF UpFindWorkspace, Goto
  <2>2. uid' \in [Call -> OptUid]
    BY <1>4, ConstantsAssumption DEF UpFindWorkspace, Workspaces, Tags
  <2>5. Workspaces(req[c].pod) \subseteq Call
    BY DEF Workspaces
  <2>3. accessPointId' \in [Call -> OptCall]
    <3>1. CASE UNCHANGED accessPointId
      BY <3>1
    <3>2. CASE \E a \in Call :
                 accessPointId' = [accessPointId EXCEPT ![c] = a]
      BY <3>2 DEF OptCall
    <3> QED
      BY <1>4, <2>5, <3>1, <3>2 DEF UpFindWorkspace
  <2>4. stale' \in [Call -> SUBSET Call]
    <3>1. CASE UNCHANGED stale
      BY <3>1
    <3>2. CASE \E S \in SUBSET Call : stale' = [stale EXCEPT ![c] = S]
      BY <3>2
    <3> QED
      BY <1>4, <2>5, <3>1, <3>2 DEF UpFindWorkspace
  <2> QED
    BY <1>4, <2>1, <2>2, <2>3, <2>4, Places DEF UpFindWorkspace, At, Goto,
       aws, efs, elb, locals
<1>5. ASSUME NEW c \in Call, UpPruneDuplicate(c) PROVE TypeOK'
  <2>1. accessPoints' \in SUBSET Call
    BY <1>5 DEF UpPruneDuplicate, DeleteAccessPoint
  <2>2. stale' \in [Call -> SUBSET Call]
    BY <1>5 DEF UpPruneDuplicate
  <2> QED
    BY <1>5, <2>1, <2>2, Places DEF UpPruneDuplicate, At, Goto, aws, efs,
       elb, locals
<1>6. ASSUME NEW c \in Call, UpReuseWorkspace(c) PROVE TypeOK'
  <2>1. pc' \in [Call -> Place]
    BY <1>6, Places DEF UpReuseWorkspace, Goto
  <2>2. accessPointId' \in [Call -> OptCall]
    BY <1>6 DEF UpReuseWorkspace, OptCall
  <2> QED
    BY <1>6, <2>1, <2>2, Places DEF UpReuseWorkspace, At, Goto, aws, efs,
       elb, locals
<1>7. ASSUME NEW c \in Call, UpAllocateUid(c) PROVE TypeOK'
  <2>1. pc' \in [Call -> Place]
    BY <1>7, Places DEF UpAllocateUid, Goto
  <2>2. uid' \in [Call -> OptUid]
    BY <1>7, ConstantsAssumption DEF UpAllocateUid, FreeUids, OptUid
  <2> QED
    BY <1>7, <2>1, <2>2, Places DEF UpAllocateUid, At, Goto, aws, efs, elb,
       locals
<1>8. ASSUME NEW c \in Call, UpCreateAccessPoint(c) PROVE TypeOK'
  <2>1. accessPoints' \in SUBSET Call
    BY <1>8 DEF UpCreateAccessPoint
  <2>2. apTags' \in [Call -> Tags]
    BY <1>8, ConstantsAssumption, Places DEF UpCreateAccessPoint, Tags,
       Event, At
  <2>3. pc' \in [Call -> Place]
    BY <1>8, Places DEF UpCreateAccessPoint, Goto
  <2>4. accessPointId' \in [Call -> OptCall]
    BY <1>8 DEF UpCreateAccessPoint, OptCall
  <2>5. held' \in [Call -> SUBSET Held]
    BY <1>8 DEF UpCreateAccessPoint, Held, Holds
  <2> QED
    BY <1>8, <2>1, <2>2, <2>3, <2>4, <2>5, Places DEF UpCreateAccessPoint,
       At, Goto, aws, efs, elb, locals
<1>9. ASSUME NEW c \in Call, UpRegisterTaskDef(c) PROVE TypeOK'
  BY <1>9, Places DEF UpRegisterTaskDef, At, Goto, aws, efs, elb, locals
<1>10. ASSUME NEW c \in Call, UpCreateTargetGroup(c) PROVE TypeOK'
  <2>1. targetGroups' \in SUBSET Call
    BY <1>10 DEF UpCreateTargetGroup
  <2>2. pc' \in [Call -> Place]
    BY <1>10, Places DEF UpCreateTargetGroup, Goto
  <2>3. targetGroupArn' \in [Call -> OptCall]
    BY <1>10 DEF UpCreateTargetGroup, OptCall, GroupsNamed
  <2> QED
    BY <1>10, <2>1, <2>2, <2>3, Places DEF UpCreateTargetGroup, At, Goto,
       aws, efs, elb, locals
<1>11. ASSUME NEW c \in Call, UpCreateListenerRule(c) PROVE TypeOK'
  <2>1. rules' \in [Call -> OptCall]
    BY <1>11 DEF UpCreateListenerRule, OptCall
  <2>2. pc' \in [Call -> Place]
    BY <1>11, Places DEF UpCreateListenerRule, Goto
  <2>3. held' \in [Call -> SUBSET Held]
    BY <1>11 DEF UpCreateListenerRule, Held, Holds
  <2> QED
    BY <1>11, <2>1, <2>2, <2>3, Places DEF UpCreateListenerRule, At, Goto,
       aws, efs, elb, locals
<1>12. ASSUME NEW c \in Call, UpRunTask(c) PROVE TypeOK'
  <2>1. tasks' \in [Call -> TaskStatus]
    BY <1>12 DEF UpRunTask, TaskStatus
  <2>2. pc' \in [Call -> Place]
    BY <1>12, Places DEF UpRunTask, Goto
  <2>3. held' \in [Call -> SUBSET Held]
    BY <1>12 DEF UpRunTask, Held, Holds
  <2> QED
    BY <1>12, <2>1, <2>2, <2>3, Places DEF UpRunTask, At, Goto, aws, efs,
       elb, locals
<1>13. ASSUME NEW c \in Call, UpWaitForTask(c) PROVE TypeOK'
  <2>1. held' \in [Call -> SUBSET Held]
    BY <1>13 DEF UpWaitForTask, Held, Holds
  <2> QED
    BY <1>13, <2>1, Places DEF UpWaitForTask, At, Goto, aws, efs, elb
<1>14. ASSUME NEW c \in Call, UpRegisterTarget(c) PROVE TypeOK'
  <2>1. targets' \in [Call -> SUBSET Call]
    BY <1>14 DEF UpRegisterTarget, OptCall
  <2>2. pc' \in [Call -> Place]
    BY <1>14, Places DEF UpRegisterTarget, Goto
  <2> QED
    BY <1>14, <2>1, <2>2, Places DEF UpRegisterTarget, At, Goto, aws, efs,
       elb, locals
<1>15. ASSUME NEW c \in Call, UpRegistryPut(c) PROVE TypeOK'
  <2>1. req[c] \in Event
    BY <1>15 DEF UpRegistryPut, At
  <2>3. RowOf(c) \in Row
    <3>1. Own(c, "task") \in OptCall /\ Own(c, "rule") \in OptCall
      BY DEF Own, OptCall
    <3>2. req[c].mode \in Modes \cup {None}
      BY <2>1 DEF Event
    <3>3. /\ accessPointId[c] \in OptCall /\ targetGroupArn[c] \in OptCall
          /\ uid[c] \in OptUid
      OBVIOUS
    <3> QED
      BY <3>1, <3>2, <3>3 DEF RowOf, Row
  <2>4. registry' \in [Pods -> Row]
    BY <1>15, <2>3 DEF UpRegistryPut
  <2>2. pc' \in [Call -> Place]
    BY <1>15, Places DEF UpRegistryPut, Goto
  <2> QED
    BY <1>15, <2>4, <2>2, Places DEF UpRegistryPut, At, Goto, aws, efs,
       elb, locals
<1>16. ASSUME NEW c \in Call, UpFails(c) PROVE TypeOK'
  <2>1. pc' \in [Call -> Place]
    BY <1>16, Places DEF UpFails, Goto
  <2>2. pc[c] # "idle"
    BY <1>16 DEF UpFails, UpSteps
  <2> QED
    BY <1>16, <2>1, <2>2 DEF UpFails, Goto, aws, efs, elb, locals
<1>17. ASSUME NEW c \in Call, UndoTask(c) PROVE TypeOK'
  <2>1. tasks' \in [Call -> TaskStatus]
    BY <1>17 DEF UndoTask, TaskStatus, StopTask
  <2>2. pc' \in [Call -> Place]
    BY <1>17, Places DEF UndoTask, Goto
  <2> QED
    BY <1>17, <2>1, <2>2, Places DEF UndoTask, At, Goto, aws, efs, elb,
       locals
<1>18. ASSUME NEW c \in Call, UndoRule(c) PROVE TypeOK'
  <2>1. rules' \in [Call -> OptCall]
    BY <1>18 DEF UndoRule, OptCall, DeleteListenerRule
  <2>2. pc' \in [Call -> Place]
    BY <1>18, Places DEF UndoRule, Goto
  <2> QED
    BY <1>18, <2>1, <2>2, Places DEF UndoRule, At, Goto, aws, efs, elb,
       locals
<1>19. ASSUME NEW c \in Call, UndoTargetGroup(c) PROVE TypeOK'
  <2>1. targetGroups' \in SUBSET Call
    BY <1>19 DEF UndoTargetGroup, DeleteTargetGroup
  <2>2. targets' \in [Call -> SUBSET Call]
    BY <1>19 DEF UndoTargetGroup, DeleteTargetGroup, OptCall
  <2>3. pc' \in [Call -> Place]
    BY <1>19, Places DEF UndoTargetGroup, Goto
  <2> QED
    BY <1>19, <2>1, <2>2, <2>3, Places DEF UndoTargetGroup, At, Goto, aws,
       efs, elb, locals
<1>20. ASSUME NEW c \in Call, UndoAccessPoint(c) PROVE TypeOK'
  <2>1. accessPoints' \in SUBSET Call
    BY <1>20 DEF UndoAccessPoint, DeleteAccessPoint
  <2>2. pc' \in [Call -> Place]
    BY <1>20, Places DEF UndoAccessPoint, Goto
  <2> QED
    BY <1>20, <2>1, <2>2, Places DEF UndoAccessPoint, At, Goto, aws, efs,
       elb, locals
<1>21. ASSUME NEW c \in Call, DownRegistryGet(c) PROVE TypeOK'
  <2>1. pc' \in [Call -> Place]
    BY <1>21, Places DEF DownRegistryGet, Goto
  <2>2. entry' \in [Call -> Row]
    BY <1>21, Places DEF DownRegistryGet, At, Event
  <2> QED
    BY <1>21, <2>1, <2>2, Places DEF DownRegistryGet, At, Goto, aws, efs,
       elb, locals
<1>22. ASSUME NEW c \in Call, DownStopTask(c) PROVE TypeOK'
  <2>1. tasks' \in [Call -> TaskStatus]
    BY <1>22 DEF DownStopTask, TaskStatus, StopTask
  <2>2. pc' \in [Call -> Place]
    BY <1>22, Places DEF DownStopTask, Goto
  <2> QED
    BY <1>22, <2>1, <2>2, Places DEF DownStopTask, At, Goto, aws, efs, elb,
       locals
<1>23. ASSUME NEW c \in Call, DownDeleteRule(c) PROVE TypeOK'
  <2>1. rules' \in [Call -> OptCall]
    BY <1>23 DEF DownDeleteRule, OptCall, DeleteListenerRule
  <2>2. pc' \in [Call -> Place]
    BY <1>23, Places DEF DownDeleteRule, Goto
  <2> QED
    BY <1>23, <2>1, <2>2, Places DEF DownDeleteRule, At, Goto, aws, efs,
       elb, locals
<1>24. ASSUME NEW c \in Call, DownDeregister(c) PROVE TypeOK'
  <2>1. targets' \in [Call -> SUBSET Call]
    BY <1>24 DEF DownDeregister, OptCall
  <2>2. pc' \in [Call -> Place]
    BY <1>24, Places DEF DownDeregister, Goto
  <2> QED
    BY <1>24, <2>1, <2>2, Places DEF DownDeregister, At, Goto, aws, efs,
       elb, locals
<1>25. ASSUME NEW c \in Call, DownDeleteTargetGroup(c) PROVE TypeOK'
  <2>1. targetGroups' \in SUBSET Call
    BY <1>25 DEF DownDeleteTargetGroup, DeleteTargetGroup
  <2>2. targets' \in [Call -> SUBSET Call]
    BY <1>25 DEF DownDeleteTargetGroup, DeleteTargetGroup, OptCall
  <2>3. pc' \in [Call -> Place]
    BY <1>25, Places DEF DownDeleteTargetGroup, Goto
  <2> QED
    BY <1>25, <2>1, <2>2, <2>3, Places DEF DownDeleteTargetGroup, At, Goto,
       aws, efs, elb, locals
<1>26. ASSUME NEW c \in Call, DownReleaseWorkspace(c) PROVE TypeOK'
  <2>1. accessPoints' \in SUBSET Call
    BY <1>26 DEF DownReleaseWorkspace, DeleteAccessPoint
  <2>2. pc' \in [Call -> Place]
    BY <1>26, Places DEF DownReleaseWorkspace, Goto
  <2> QED
    BY <1>26, <2>1, <2>2, Places DEF DownReleaseWorkspace, At, Goto, aws,
       efs, elb, locals
<1>27. ASSUME NEW c \in Call, DownRegistryDelete(c) PROVE TypeOK'
  <2>1. registry' \in [Pods -> Row]
    BY <1>27, ConstantsAssumption DEF DownRegistryDelete, Row, NoRow,
       OptCall, OptUid
  <2>2. pc' \in [Call -> Place]
    BY <1>27, Places DEF DownRegistryDelete, Goto
  <2> QED
    BY <1>27, <2>1, <2>2, Places DEF DownRegistryDelete, At, Goto, aws,
       efs, elb, locals
<1>28. ASSUME NEW c \in Call, DownFails(c) PROVE TypeOK'
  BY <1>28, Places DEF DownFails, At, Goto, aws, efs, elb, locals
<1>29. ASSUME NEW c \in Call, LambdaDies(c) PROVE TypeOK'
  <2>1. pc' \in [Call -> Place]
    BY <1>29, Places DEF LambdaDies, Goto
  <2>2. pc[c] # "idle"
    BY <1>29 DEF LambdaDies, Active, Steps, UpSteps, UndoSteps, DownSteps
  <2> QED
    BY <1>29, <2>1, <2>2 DEF LambdaDies, Goto, aws, efs, elb, locals
<1>30. ASSUME NEW c \in Call, TaskStarts(c) PROVE TypeOK'
  <2>1. tasks' \in [Call -> TaskStatus]
    BY <1>30 DEF TaskStarts, TaskStatus
  <2> QED
    BY <1>30, <2>1, Places DEF TaskStarts, At, Goto, aws, efs, elb, locals
<1>31. ASSUME NEW c \in Call, TaskStops(c) PROVE TypeOK'
  <2>1. tasks' \in [Call -> TaskStatus]
    BY <1>31 DEF TaskStops, TaskStatus
  <2> QED
    BY <1>31, <2>1, Places DEF TaskStops, At, Goto, aws, efs, elb, locals
<1>32. CASE UNCHANGED vars
  BY <1>32 DEF vars, aws, efs, elb, locals
<1> QED
  BY <1>1, <1>2, <1>3, <1>4, <1>5, <1>6, <1>7, <1>8, <1>9, <1>10, <1>11,
     <1>12, <1>13, <1>14, <1>15, <1>16, <1>17, <1>18, <1>19, <1>20, <1>21,
     <1>22, <1>23, <1>24, <1>25, <1>26, <1>27, <1>28, <1>29, <1>30, <1>31,
     <1>32
  DEF Next, Step, UpStep, UndoStep, DownStep

(* Every variable keeps its type.                                          *)
THEOREM TypeCorrect == Spec => []TypeOK
  BY TypeInit, TypeNext, PTL DEF Spec

-----------------------------------------------------------------------------
(* Workspaces: the inductive invariant.  Early is podUp before it has made *)
(* anything, Building is podUp inside its try block.                       *)

Early    == {"idle", "get", "find", "prune", "uid", "ap"}
Building == {"taskDef", "tg", "rule", "run", "wait", "target", "put"}

(* An access point's tags are written once, by the invocation it is named  *)
(* after, and a task starts later than that.                               *)
NothingMadeYet ==
  \A c \in Call : pc[c] \in Early => apTags[c] = NoTags /\ tasks[c] = "none"

NoWorkspaceYet ==
  \A c \in Call : /\ pc[c] \in Early \ {"prune"} => accessPointId[c] = None
                  /\ pc[c] = "prune" => accessPointId[c] # None

(* What podUp calls its workspace was created for its pod, with its uid.   *)
WorkspaceMatches ==
  \A c \in Call : accessPointId[c] # None =>
    /\ apTags[accessPointId[c]].pod = req[c].pod
    /\ apTags[accessPointId[c]].uid = uid[c]

(* Past the owner check, the workspace is the owner's.                     *)
OwnerMatches(c) ==
  /\ accessPointId[c] # None
  /\ CentralAuthHost => apTags[accessPointId[c]].owner = req[c].owner
BuildersOwnTheirs ==
  \A c \in Call : pc[c] \in Building \/ tasks[c] # "none" => OwnerMatches(c)

(* stopTask is only called with the ARN of a task that was started.        *)
NamedTasksStarted ==
  /\ \A c \in Call : "task" \in held[c] => tasks[c] # "none"
  /\ \A c \in Call : entry[c].task # None => tasks[entry[c].task] # "none"
  /\ \A p \in Pods : registry[p].task # None => tasks[registry[p].task] # "none"

RowsMatch ==
  \A p \in Pods : registry[p].ap # None =>
    /\ apTags[registry[p].ap].pod = p
    /\ apTags[registry[p].ap].uid = registry[p].uid

WorkspaceInv ==
  /\ NothingMadeYet /\ NoWorkspaceYet /\ WorkspaceMatches
  /\ BuildersOwnTheirs /\ NamedTasksStarted /\ RowsMatch

LEMMA WorkspaceInit == Init => WorkspaceInv
BY ConstantsAssumption
DEF Init, WorkspaceInv, NothingMadeYet, NoWorkspaceYet, WorkspaceMatches,
    BuildersOwnTheirs, NamedTasksStarted, RowsMatch, Early, Building, NoRow

(* A step that moves an invocation on, and may change the status of a task *)
(* that was started, but touches nothing else the invariant is about.      *)
LEMMA QuietStep ==
  ASSUME WorkspaceInv,
         UNCHANGED <<registry, apTags, req, uid, accessPointId, entry>>,
         \A d \in Call : "task" \in held'[d] => "task" \in held[d],
         \A d \in Call : tasks'[d] = "none" <=> tasks[d] = "none",
         \A d \in Call : pc'[d] \in Early => pc[d] \in Early,
         \A d \in Call : pc'[d] \in Early \ {"prune"} =>
                            pc[d] \in Early \ {"prune"},
         \A d \in Call : pc'[d] = "prune" => pc[d] = "prune",
         \A d \in Call : pc'[d] \in Building => pc[d] \in Building,
         registry \in [Pods -> Row], entry \in [Call -> Row]
  PROVE  WorkspaceInv'
<1>1. NothingMadeYet' /\ NoWorkspaceYet' /\ WorkspaceMatches' /\ RowsMatch'
  BY DEF WorkspaceInv, NothingMadeYet, NoWorkspaceYet, WorkspaceMatches,
     RowsMatch
<1>2. BuildersOwnTheirs'
  BY DEF WorkspaceInv, BuildersOwnTheirs, OwnerMatches
<1>3. NamedTasksStarted'
  BY DEF WorkspaceInv, NamedTasksStarted, Row, OptCall
<1> QED
  BY <1>1, <1>2, <1>3 DEF WorkspaceInv

LEMMA WorkspaceNext ==
  TypeOK /\ WorkspaceInv /\ [Next]_vars => WorkspaceInv'
<1> SUFFICES ASSUME TypeOK, WorkspaceInv, [Next]_vars PROVE WorkspaceInv'
  OBVIOUS
<1> USE DEF Early, Building
<1>1. ASSUME NEW c \in Call, StartUp(c) PROVE WorkspaceInv'
  <2>1. /\ pc[c] = "idle" /\ pc'[c] \in {"get", "downGet"}
        /\ \A d \in Call \ {c} : pc'[d] = pc[d] /\ req'[d] = req[d]
        /\ UNCHANGED <<registry, apTags, tasks, uid, accessPointId, held, entry>>
    BY <1>1 DEF TypeOK, StartUp, Start, At, Goto, aws, efs, locals
  <2>2. accessPointId[c] = None /\ tasks[c] = "none"
    BY <2>1 DEF WorkspaceInv, NothingMadeYet, NoWorkspaceYet
  <2>3. NothingMadeYet' /\ NoWorkspaceYet' /\ RowsMatch'
    BY <2>1 DEF WorkspaceInv, NothingMadeYet, NoWorkspaceYet, RowsMatch
  <2>4. WorkspaceMatches'
    BY <2>1, <2>2 DEF WorkspaceInv, WorkspaceMatches
  <2>5. BuildersOwnTheirs'
    BY <2>1, <2>2 DEF WorkspaceInv, BuildersOwnTheirs, OwnerMatches
  <2>6. NamedTasksStarted'
    BY <2>1 DEF WorkspaceInv, NamedTasksStarted
  <2> QED
    BY <2>3, <2>4, <2>5, <2>6 DEF WorkspaceInv
<1>2. ASSUME NEW c \in Call, StartDown(c) PROVE WorkspaceInv'
  <2>1. /\ pc[c] = "idle" /\ pc'[c] \in {"get", "downGet"}
        /\ \A d \in Call \ {c} : pc'[d] = pc[d] /\ req'[d] = req[d]
        /\ UNCHANGED <<registry, apTags, tasks, uid, accessPointId, held, entry>>
    BY <1>2 DEF TypeOK, StartDown, Start, At, Goto, aws, efs, locals
  <2>2. accessPointId[c] = None /\ tasks[c] = "none"
    BY <2>1 DEF WorkspaceInv, NothingMadeYet, NoWorkspaceYet
  <2>3. NothingMadeYet' /\ NoWorkspaceYet' /\ RowsMatch'
    BY <2>1 DEF WorkspaceInv, NothingMadeYet, NoWorkspaceYet, RowsMatch
  <2>4. WorkspaceMatches'
    BY <2>1, <2>2 DEF WorkspaceInv, WorkspaceMatches
  <2>5. BuildersOwnTheirs'
    BY <2>1, <2>2 DEF WorkspaceInv, BuildersOwnTheirs, OwnerMatches
  <2>6. NamedTasksStarted'
    BY <2>1 DEF WorkspaceInv, NamedTasksStarted
  <2> QED
    BY <2>3, <2>4, <2>5, <2>6 DEF WorkspaceInv
<1>3. ASSUME NEW c \in Call, UpRegistryGet(c) PROVE WorkspaceInv'
  BY <1>3, QuietStep DEF TypeOK, UpRegistryGet, At, Goto, aws, efs, elb,
     locals
<1>4. ASSUME NEW c \in Call, UpFindWorkspace(c) PROVE WorkspaceInv'
  <2>1. /\ pc[c] = "find" /\ pc'[c] \in {"uid", "prune"}
        /\ \A d \in Call \ {c} :
             /\ pc'[d] = pc[d] /\ uid'[d] = uid[d]
             /\ accessPointId'[d] = accessPointId[d]
        /\ UNCHANGED <<registry, apTags, tasks, req, held, entry>>
    BY <1>4 DEF TypeOK, UpFindWorkspace, At, Goto, aws, efs
  <2>2. pc'[c] = "uid" => accessPointId'[c] = accessPointId[c]
    BY <1>4 DEF TypeOK, UpFindWorkspace, Goto
  <2>3. \/ accessPointId'[c] = accessPointId[c] /\ uid'[c] = uid[c]
        \/ /\ apTags[accessPointId'[c]].pod = req[c].pod
           /\ apTags[accessPointId'[c]].uid = uid'[c]
    <3>1. CASE UNCHANGED <<accessPointId, uid>>
      BY <3>1
    <3>2. CASE \E a \in Call :
                 /\ apTags[a].pod = req[c].pod
                 /\ uid' = [uid EXCEPT ![c] = apTags[a].uid]
                 /\ accessPointId' = [accessPointId EXCEPT ![c] = a]
      BY <3>2 DEF TypeOK
    <3>3. Workspaces(req[c].pod) =
            {a \in accessPoints : apTags[a].pod = req[c].pod}
      BY DEF Workspaces
    <3> QED
      BY <1>4, <3>1, <3>2, <3>3 DEF TypeOK, UpFindWorkspace
  <2>9. pc'[c] = "prune" => accessPointId'[c] # None
    <3>1. CASE pc' = [pc EXCEPT ![c] = "uid"]
      BY <3>1 DEF TypeOK
    <3>2. CASE \E a \in Call :
                 accessPointId' = [accessPointId EXCEPT ![c] = a]
      BY <3>2, ConstantsAssumption DEF TypeOK
    <3>3. Workspaces(req[c].pod) \subseteq Call
      BY DEF Workspaces, TypeOK
    <3> QED
      BY <1>4, <3>1, <3>2, <3>3 DEF UpFindWorkspace, Goto
  <2>4. tasks[c] = "none"
    BY <2>1 DEF WorkspaceInv, NothingMadeYet
  <2>5. NothingMadeYet' /\ RowsMatch' /\ NamedTasksStarted'
    BY <2>1 DEF WorkspaceInv, NothingMadeYet, RowsMatch, NamedTasksStarted
  <2>6. NoWorkspaceYet'
    BY <2>1, <2>2, <2>9 DEF WorkspaceInv, NoWorkspaceYet
  <2>7. WorkspaceMatches'
    BY <2>1, <2>3 DEF WorkspaceInv, WorkspaceMatches
  <2>8. BuildersOwnTheirs'
    BY <2>1, <2>4 DEF WorkspaceInv, BuildersOwnTheirs, OwnerMatches
  <2> QED
    BY <2>5, <2>6, <2>7, <2>8 DEF WorkspaceInv
<1>5. ASSUME NEW c \in Call, UpPruneDuplicate(c) PROVE WorkspaceInv'
  BY <1>5, QuietStep DEF TypeOK, UpPruneDuplicate, At, Goto, aws, efs,
     elb, locals
<1>6. ASSUME NEW c \in Call, UpReuseWorkspace(c) PROVE WorkspaceInv'
  <2>1. /\ pc[c] = "prune" /\ pc'[c] \in {"taskDef", "refused"}
        /\ \A d \in Call \ {c} :
             pc'[d] = pc[d] /\ accessPointId'[d] = accessPointId[d]
        /\ accessPointId'[c] \in {accessPointId[c], None}
        /\ UNCHANGED <<registry, apTags, tasks, req, uid, held, entry>>
    BY <1>6 DEF TypeOK, UpReuseWorkspace, At, Goto, aws, efs
  <2>2. pc'[c] = "taskDef" => OwnerMatches(c)'
    <3>1. accessPointId[c] # None
      BY <2>1 DEF WorkspaceInv, NoWorkspaceYet
    <3>2. pc'[c] = "taskDef" =>
            /\ OwnerMayReuse(accessPointId[c], req[c].owner)
            /\ UNCHANGED accessPointId
      BY <1>6 DEF TypeOK, UpReuseWorkspace, Goto
    <3> QED
      BY <2>1, <3>1, <3>2 DEF OwnerMayReuse, OwnerMatches
  <2>3. tasks[c] = "none"
    BY <2>1 DEF WorkspaceInv, NothingMadeYet
  <2>4. NothingMadeYet' /\ NoWorkspaceYet' /\ RowsMatch' /\ NamedTasksStarted'
    BY <2>1 DEF WorkspaceInv, NothingMadeYet, NoWorkspaceYet, RowsMatch,
       NamedTasksStarted
  <2>5. WorkspaceMatches'
    BY <2>1 DEF WorkspaceInv, WorkspaceMatches
  <2>6. BuildersOwnTheirs'
    BY <2>1, <2>2, <2>3 DEF WorkspaceInv, BuildersOwnTheirs, OwnerMatches
  <2> QED
    BY <2>4, <2>5, <2>6 DEF WorkspaceInv
<1>7. ASSUME NEW c \in Call, UpAllocateUid(c) PROVE WorkspaceInv'
  <2>1. /\ pc[c] = "uid" /\ pc'[c] \in {"ap", "error"}
        /\ \A d \in Call \ {c} : pc'[d] = pc[d] /\ uid'[d] = uid[d]
        /\ UNCHANGED <<registry, apTags, tasks, req, accessPointId, held, entry>>
    BY <1>7 DEF TypeOK, UpAllocateUid, At, Goto, aws, efs
  <2>2. accessPointId[c] = None /\ tasks[c] = "none"
    BY <2>1 DEF WorkspaceInv, NoWorkspaceYet, NothingMadeYet
  <2>3. NothingMadeYet' /\ NoWorkspaceYet' /\ RowsMatch' /\ NamedTasksStarted'
    BY <2>1 DEF WorkspaceInv, NothingMadeYet, NoWorkspaceYet, RowsMatch,
       NamedTasksStarted
  <2>4. WorkspaceMatches'
    BY <2>1, <2>2 DEF WorkspaceInv, WorkspaceMatches
  <2>5. BuildersOwnTheirs'
    BY <2>1, <2>2 DEF WorkspaceInv, BuildersOwnTheirs, OwnerMatches
  <2> QED
    BY <2>3, <2>4, <2>5 DEF WorkspaceInv
<1>8. ASSUME NEW c \in Call, UpCreateAccessPoint(c) PROVE WorkspaceInv'
  <2>1. /\ pc[c] = "ap" /\ pc'[c] = "taskDef"
        /\ \A d \in Call \ {c} :
             /\ pc'[d] = pc[d] /\ apTags'[d] = apTags[d]
             /\ accessPointId'[d] = accessPointId[d]
        /\ accessPointId'[c] = c
        /\ UNCHANGED <<registry, tasks, req, uid, entry>>
    BY <1>8 DEF TypeOK, UpCreateAccessPoint, At, Goto
  <2>2. /\ apTags'[c].pod = req[c].pod /\ apTags'[c].uid = uid[c]
        /\ apTags'[c].owner = req[c].owner
    BY <1>8 DEF TypeOK, UpCreateAccessPoint
  <2>3. apTags[c].pod = None /\ tasks[c] = "none" /\ c # None
    BY <2>1, ConstantsAssumption DEF WorkspaceInv, NothingMadeYet, NoTags
  <2>4. \A d \in Call : accessPointId[d] # c
    <3>1. ASSUME NEW d \in Call, accessPointId[d] = c PROVE FALSE
      <4>1. apTags[c].pod = req[d].pod
        BY <3>1, <2>3 DEF WorkspaceInv, WorkspaceMatches
      <4>2. pc[d] # "idle"
        BY <3>1, <2>3 DEF WorkspaceInv, NoWorkspaceYet
      <4> QED
        BY <4>1, <4>2, <2>3, ConstantsAssumption DEF TypeOK, Event
    <3> QED
      BY <3>1
  <2>5. \A p \in Pods : registry[p].ap # c
    BY <2>3, ConstantsAssumption DEF WorkspaceInv, RowsMatch
  <2>6. "task" \in held'[c] => "task" \in held[c]
    BY <1>8 DEF TypeOK, UpCreateAccessPoint, Holds
  <2>7. \A d \in Call \ {c} : held'[d] = held[d]
    BY <1>8 DEF TypeOK, UpCreateAccessPoint, Holds
  <2>8. NothingMadeYet' /\ NoWorkspaceYet'
    BY <2>1 DEF WorkspaceInv, NothingMadeYet, NoWorkspaceYet
  <2>9. WorkspaceMatches'
    BY <2>1, <2>2, <2>4 DEF TypeOK, OptCall, WorkspaceInv, WorkspaceMatches
  <2>10. BuildersOwnTheirs'
    BY <2>1, <2>2, <2>3, <2>4
    DEF TypeOK, OptCall, WorkspaceInv, BuildersOwnTheirs, OwnerMatches
  <2>11. NamedTasksStarted'
    BY <2>1, <2>6, <2>7 DEF WorkspaceInv, NamedTasksStarted
  <2>12. RowsMatch'
    <3>1. \A p \in Pods : registry[p].ap \in OptCall
      BY DEF TypeOK, Row
    <3> QED
      BY <2>1, <2>5, <3>1 DEF WorkspaceInv, RowsMatch, OptCall
  <2> QED
    BY <2>8, <2>9, <2>10, <2>11, <2>12 DEF WorkspaceInv
<1>9. ASSUME NEW c \in Call, UpRegisterTaskDef(c) PROVE WorkspaceInv'
  BY <1>9, QuietStep DEF TypeOK, UpRegisterTaskDef, At, Goto, aws, efs,
     elb, locals
<1>10. ASSUME NEW c \in Call, UpCreateTargetGroup(c) PROVE WorkspaceInv'
  BY <1>10, QuietStep DEF TypeOK, UpCreateTargetGroup, At, Goto, aws,
     efs, elb, locals
<1>11. ASSUME NEW c \in Call, UpCreateListenerRule(c) PROVE WorkspaceInv'
  BY <1>11, QuietStep DEF TypeOK, UpCreateListenerRule, At, Goto, aws,
     efs, elb, locals, Holds
<1>12. ASSUME NEW c \in Call, UpRunTask(c) PROVE WorkspaceInv'
  <2>1. /\ pc[c] = "run" /\ pc'[c] = "wait"
        /\ \A d \in Call \ {c} : /\ pc'[d] = pc[d] /\ tasks'[d] = tasks[d]
                                 /\ held'[d] = held[d]
        /\ tasks'[c] = "pending"
        /\ UNCHANGED <<registry, apTags, req, uid, accessPointId, entry>>
    BY <1>12 DEF TypeOK, UpRunTask, At, Goto, efs, Holds
  <2>2. OwnerMatches(c)
    BY <2>1 DEF WorkspaceInv, BuildersOwnTheirs
  <2>3. NothingMadeYet' /\ NoWorkspaceYet' /\ WorkspaceMatches' /\ RowsMatch'
    BY <2>1 DEF WorkspaceInv, NothingMadeYet, NoWorkspaceYet,
       WorkspaceMatches, RowsMatch
  <2>4. BuildersOwnTheirs'
    BY <2>1, <2>2 DEF WorkspaceInv, BuildersOwnTheirs, OwnerMatches
  <2>5. \A d \in Call : tasks'[d] = "none" => tasks[d] = "none"
    BY <2>1
  <2>6. NamedTasksStarted'
    <3>1. \A d \in Call : entry[d].task \in OptCall
      BY DEF TypeOK, Row
    <3>2. \A p \in Pods : registry[p].task \in OptCall
      BY DEF TypeOK, Row
    <3> QED
      BY <2>1, <2>5, <3>1, <3>2 DEF WorkspaceInv, NamedTasksStarted, OptCall
  <2> QED
    BY <2>3, <2>4, <2>6 DEF WorkspaceInv
<1>13. ASSUME NEW c \in Call, UpWaitForTask(c) PROVE WorkspaceInv'
  <2>1. \A d \in Call : "task" \in held'[d] => "task" \in held[d]
    BY <1>13 DEF TypeOK, UpWaitForTask, Holds
  <2> QED
    BY <1>13, <2>1, QuietStep DEF TypeOK, UpWaitForTask, At, Goto, aws, efs, elb
<1>14. ASSUME NEW c \in Call, UpRegisterTarget(c) PROVE WorkspaceInv'
  BY <1>14, QuietStep DEF TypeOK, UpRegisterTarget, At, Goto, aws, efs,
     elb, locals
<1>15. ASSUME NEW c \in Call, UpRegistryPut(c) PROVE WorkspaceInv'
  <2>1. /\ pc[c] = "put" /\ pc'[c] \in {"ok", "undoTask"}
        /\ \A d \in Call \ {c} : pc'[d] = pc[d]
        /\ UNCHANGED <<apTags, tasks, req, uid, accessPointId, held, entry>>
    BY <1>15 DEF TypeOK, UpRegistryPut, At, Goto, efs, locals
  <2>2. req[c].pod \in Pods
    BY <2>1 DEF TypeOK, Event
  <2>3. \A p \in Pods : \/ registry'[p] = registry[p]
                        \/ p = req[c].pod /\ registry'[p] = RowOf(c)
    <3>1. \/ UNCHANGED registry
          \/ registry' = [registry EXCEPT ![req[c].pod] = RowOf(c)]
      BY <1>15 DEF UpRegistryPut
    <3>2. registry \in [Pods -> Row]
      BY DEF TypeOK
    <3> QED
      BY <2>2, <3>1, <3>2
  <2>4. /\ RowOf(c).task # None => tasks[RowOf(c).task] # "none"
        /\ RowOf(c).ap # None =>
             /\ apTags[RowOf(c).ap].pod = req[c].pod
             /\ apTags[RowOf(c).ap].uid = RowOf(c).uid
    BY DEF RowOf, Own, WorkspaceInv, NamedTasksStarted, WorkspaceMatches
  <2>5. NothingMadeYet' /\ NoWorkspaceYet' /\ WorkspaceMatches'
    BY <2>1 DEF WorkspaceInv, NothingMadeYet, NoWorkspaceYet, WorkspaceMatches
  <2>6. BuildersOwnTheirs'
    BY <2>1 DEF WorkspaceInv, BuildersOwnTheirs, OwnerMatches
  <2>7. NamedTasksStarted'
    BY <2>1, <2>2, <2>3, <2>4 DEF WorkspaceInv, NamedTasksStarted
  <2>8. RowsMatch'
    BY <2>1, <2>2, <2>3, <2>4 DEF WorkspaceInv, RowsMatch
  <2> QED
    BY <2>5, <2>6, <2>7, <2>8 DEF WorkspaceInv
<1>16. ASSUME NEW c \in Call, UpFails(c) PROVE WorkspaceInv'
  BY <1>16, QuietStep DEF TypeOK, UpFails, At, Goto, aws, efs, elb,
     locals, UpSteps
<1>17. ASSUME NEW c \in Call, UndoTask(c) PROVE WorkspaceInv'
  <2>1. \A d \in Call : tasks'[d] = "none" <=> tasks[d] = "none"
    BY <1>17 DEF UndoTask, TypeOK, StopTask, Own, NamedTasksStarted,
       WorkspaceInv, OptCall
  <2> QED
    BY <1>17, <2>1, QuietStep DEF TypeOK, UndoTask, At, Goto, aws, efs,
       elb, locals
<1>18. ASSUME NEW c \in Call, UndoRule(c) PROVE WorkspaceInv'
  BY <1>18, QuietStep DEF TypeOK, UndoRule, At, Goto, aws, efs, elb,
     locals
<1>19. ASSUME NEW c \in Call, UndoTargetGroup(c) PROVE WorkspaceInv'
  BY <1>19, QuietStep DEF TypeOK, UndoTargetGroup, At, Goto, aws, efs,
     elb, locals
<1>20. ASSUME NEW c \in Call, UndoAccessPoint(c) PROVE WorkspaceInv'
  BY <1>20, QuietStep DEF TypeOK, UndoAccessPoint, At, Goto, aws, efs,
     elb, locals
<1>21. ASSUME NEW c \in Call, DownRegistryGet(c) PROVE WorkspaceInv'
  <2>1. /\ pc[c] = "downGet" /\ pc'[c] \in {"downTask", "notFound"}
        /\ \A d \in Call \ {c} : pc'[d] = pc[d] /\ entry'[d] = entry[d]
        /\ UNCHANGED <<registry, apTags, tasks, req, uid, accessPointId, held>>
    BY <1>21 DEF TypeOK, DownRegistryGet, At, Goto, aws, efs
  <2>2. entry'[c] = entry[c] \/ \E p \in Pods : entry'[c] = registry[p]
    BY <1>21, <2>1 DEF TypeOK, DownRegistryGet, Event
  <2>3. NothingMadeYet' /\ NoWorkspaceYet' /\ WorkspaceMatches' /\ RowsMatch'
    BY <2>1 DEF WorkspaceInv, NothingMadeYet, NoWorkspaceYet,
       WorkspaceMatches, RowsMatch
  <2>4. BuildersOwnTheirs'
    BY <2>1 DEF WorkspaceInv, BuildersOwnTheirs, OwnerMatches
  <2>5. NamedTasksStarted'
    BY <2>1, <2>2 DEF WorkspaceInv, NamedTasksStarted
  <2> QED
    BY <2>3, <2>4, <2>5 DEF WorkspaceInv
<1>22. ASSUME NEW c \in Call, DownStopTask(c) PROVE WorkspaceInv'
  <2>1. \A d \in Call : tasks'[d] = "none" <=> tasks[d] = "none"
    BY <1>22 DEF DownStopTask, TypeOK, StopTask, NamedTasksStarted,
       WorkspaceInv, OptCall, Row
  <2> QED
    BY <1>22, <2>1, QuietStep DEF TypeOK, DownStopTask, At, Goto, aws,
       efs, elb, locals
<1>23. ASSUME NEW c \in Call, DownDeleteRule(c) PROVE WorkspaceInv'
  BY <1>23, QuietStep DEF TypeOK, DownDeleteRule, At, Goto, aws, efs,
     elb, locals
<1>24. ASSUME NEW c \in Call, DownDeregister(c) PROVE WorkspaceInv'
  BY <1>24, QuietStep DEF TypeOK, DownDeregister, At, Goto, aws, efs,
     elb, locals
<1>25. ASSUME NEW c \in Call, DownDeleteTargetGroup(c) PROVE WorkspaceInv'
  BY <1>25, QuietStep DEF TypeOK, DownDeleteTargetGroup, At, Goto, aws,
     efs, elb, locals
<1>26. ASSUME NEW c \in Call, DownReleaseWorkspace(c) PROVE WorkspaceInv'
  BY <1>26, QuietStep DEF TypeOK, DownReleaseWorkspace, At, Goto, aws,
     efs, elb, locals
<1>27. ASSUME NEW c \in Call, DownRegistryDelete(c) PROVE WorkspaceInv'
  <2>1. /\ pc[c] = "downDelete" /\ pc'[c] = "ok"
        /\ \A d \in Call \ {c} : pc'[d] = pc[d]
        /\ UNCHANGED <<apTags, tasks, req, uid, accessPointId, held, entry>>
    BY <1>27 DEF TypeOK, DownRegistryDelete, At, Goto, efs, locals
  <2>3. \A p \in Pods : registry'[p] = registry[p] \/ registry'[p] = NoRow
    BY <1>27 DEF TypeOK, DownRegistryDelete
  <2>4. NoRow.task = None /\ NoRow.ap = None
    BY DEF NoRow
  <2>5. NothingMadeYet' /\ NoWorkspaceYet' /\ WorkspaceMatches'
    BY <2>1 DEF WorkspaceInv, NothingMadeYet, NoWorkspaceYet, WorkspaceMatches
  <2>6. BuildersOwnTheirs'
    BY <2>1 DEF WorkspaceInv, BuildersOwnTheirs, OwnerMatches
  <2>7. NamedTasksStarted'
    BY <2>1, <2>3, <2>4 DEF WorkspaceInv, NamedTasksStarted
  <2>8. RowsMatch'
    BY <2>1, <2>3, <2>4 DEF WorkspaceInv, RowsMatch
  <2> QED
    BY <2>5, <2>6, <2>7, <2>8 DEF WorkspaceInv
<1>28. ASSUME NEW c \in Call, DownFails(c) PROVE WorkspaceInv'
  BY <1>28, QuietStep DEF TypeOK, DownFails, At, Goto, aws, efs, elb,
     locals
<1>29. ASSUME NEW c \in Call, LambdaDies(c) PROVE WorkspaceInv'
  BY <1>29, QuietStep DEF TypeOK, LambdaDies, At, Goto, aws, efs, elb,
     locals, Active, Steps, UpSteps, UndoSteps, DownSteps
<1>30. ASSUME NEW c \in Call, TaskStarts(c) PROVE WorkspaceInv'
  <2>1. \A d \in Call : tasks'[d] = "none" <=> tasks[d] = "none"
    BY <1>30 DEF TaskStarts, TypeOK
  <2> QED
    BY <1>30, <2>1, QuietStep DEF TypeOK, TaskStarts, At, Goto, aws, efs,
       elb, locals
<1>31. ASSUME NEW c \in Call, TaskStops(c) PROVE WorkspaceInv'
  <2>1. \A d \in Call : tasks'[d] = "none" <=> tasks[d] = "none"
    BY <1>31 DEF TaskStops, TypeOK, LiveTask
  <2> QED
    BY <1>31, <2>1, QuietStep DEF TypeOK, TaskStops, At, Goto, aws, efs,
       elb, locals
<1>32. CASE UNCHANGED vars
  BY <1>32, QuietStep DEF TypeOK, vars, aws, efs, elb, locals
<1> QED
  BY <1>1, <1>2, <1>3, <1>4, <1>5, <1>6, <1>7, <1>8, <1>9, <1>10, <1>11,
     <1>12, <1>13, <1>14, <1>15, <1>16, <1>17, <1>18, <1>19, <1>20, <1>21,
     <1>22, <1>23, <1>24, <1>25, <1>26, <1>27, <1>28, <1>29, <1>30, <1>31,
     <1>32 DEF Next, Step, UpStep, UndoStep, DownStep

(* In every behaviour, whatever overlaps and whatever fails, a task mounts *)
(* and a row names only an access point created for that very pod, with    *)
(* its uid (findExistingAccessPoint, podUp's locals).                      *)
THEOREM WorkspaceIsAlwaysThePods == Spec => []WorkspaceIsThePods
<1>1. TypeOK /\ WorkspaceInv => WorkspaceIsThePods
  BY DEF TypeOK, WorkspaceInv, WorkspaceMatches, BuildersOwnTheirs,
     OwnerMatches, RowsMatch, WorkspaceIsThePods
<1> QED
  BY <1>1, TypeInit, TypeNext, WorkspaceInit, WorkspaceNext, PTL DEF Spec

(* In every behaviour with the central auth host on, the tasks that ever   *)
(* mount one access point belong to one owner (checkWorkspaceOwner).       *)
THEOREM WorkspaceOwnerIsBound == Spec => []WorkspaceOwnerBinding
<1>1. WorkspaceInv => WorkspaceOwnerBinding
  BY DEF WorkspaceInv, BuildersOwnTheirs, OwnerMatches, WorkspaceOwnerBinding
<1> QED
  BY <1>1, TypeInit, TypeNext, WorkspaceInit, WorkspaceNext, PTL DEF Spec

-----------------------------------------------------------------------------
(* The rollback.  What an invocation has made is in its held, so its catch *)
(* block finds it; each undo step leaves less of it.                       *)

HeldIsMade ==
  \A c \in Call : /\ LiveTask(c) => "task" \in held[c]
                  /\ rules[c] # None => "rule" \in held[c]
                  /\ c \in accessPoints => "ap" \in held[c]
                  /\ pc[c] \in Early => held[c] = {}

UndoneSoFar ==
  \A c \in Call : /\ pc[c] \in {"undoRule", "undoTg", "undoAp"} => ~LiveTask(c)
                  /\ pc[c] \in {"undoTg", "undoAp"} => rules[c] = None

DownsAreDowns == \A c \in Call : pc[c] \in DownSteps => req[c].action = "down"

RollbackInv ==
  HeldIsMade /\ UndoneSoFar /\ DownsAreDowns /\ FailedUpLeavesNothing

LEMMA RollbackInit == Init => RollbackInv
BY DEF Init, RollbackInv, HeldIsMade, UndoneSoFar, DownsAreDowns, LiveTask,
       FailedUpLeavesNothing, DownSteps

(* A step that makes nothing and is no step of a rollback.                 *)
LEMMA NothingMadeStep ==
  ASSUME RollbackInv,
         UNCHANGED req,
         \A d \in Call, arn \in {"ap", "rule", "task"} :
           arn \in held[d] => arn \in held'[d],
         \A d \in Call : pc'[d] \in Early => held'[d] = held[d],
         \A d \in Call : LiveTask(d)' => LiveTask(d),
         \A d \in Call : rules'[d] # None => rules[d] # None,
         accessPoints' \subseteq accessPoints,
         \A d \in Call : pc'[d] \in Early => pc[d] \in Early,
         \A d \in Call : pc'[d] \in DownSteps => pc[d] \in DownSteps,
         \A d \in Call : pc'[d] \in {"undoRule", "undoTg", "undoAp"} =>
                            pc'[d] = pc[d],
         \A d \in Call : pc'[d] = "error" =>
                            pc[d] \in {"error"} \cup Early \cup DownSteps
  PROVE  RollbackInv'
<1>1. HeldIsMade'
  BY DEF RollbackInv, HeldIsMade
<1>2. UndoneSoFar' /\ DownsAreDowns'
  BY DEF RollbackInv, UndoneSoFar, DownsAreDowns
<1>3. FailedUpLeavesNothing'
  BY DEF RollbackInv, HeldIsMade, DownsAreDowns, FailedUpLeavesNothing
<1> QED
  BY <1>1, <1>2, <1>3 DEF RollbackInv

LEMMA RollbackNext ==
  ASSUME "delete" \notin Faults
  PROVE  TypeOK /\ RollbackInv /\ [Next]_vars => RollbackInv'
<1> SUFFICES ASSUME TypeOK, RollbackInv, [Next]_vars PROVE RollbackInv'
  OBVIOUS
<1> USE DEF Early, DownSteps
<1>1. ASSUME NEW c \in Call, StartUp(c) PROVE RollbackInv'
  <2>1. /\ pc[c] = "idle" /\ pc'[c] = "get"
        /\ \A d \in Call \ {c} : pc'[d] = pc[d] /\ req'[d] = req[d]
        /\ UNCHANGED <<held, rules, accessPoints>>
        /\ \A d \in Call : LiveTask(d)' <=> LiveTask(d)
    BY <1>1, ConstantsAssumption DEF TypeOK, StartUp, Start, At, Goto,
       aws, efs, elb, locals, LiveTask
  <2>2. HeldIsMade'
    BY <2>1 DEF RollbackInv, HeldIsMade
  <2>3. UndoneSoFar'
    BY <2>1 DEF RollbackInv, UndoneSoFar, HeldIsMade
  <2>4. DownsAreDowns'
    BY <2>1 DEF RollbackInv, DownsAreDowns
  <2>5. FailedUpLeavesNothing'
    BY <2>1 DEF RollbackInv, FailedUpLeavesNothing, UndoneSoFar,
       HeldIsMade
  <2> QED
    BY <2>2, <2>3, <2>4, <2>5 DEF RollbackInv
<1>2. ASSUME NEW c \in Call, StartDown(c) PROVE RollbackInv'
  <2>1. /\ pc[c] = "idle" /\ pc'[c] = "downGet" /\ req'[c].action = "down"
        /\ \A d \in Call \ {c} : pc'[d] = pc[d] /\ req'[d] = req[d]
        /\ UNCHANGED <<held, rules, accessPoints>>
        /\ \A d \in Call : LiveTask(d)' <=> LiveTask(d)
    BY <1>2, ConstantsAssumption DEF TypeOK, StartDown, Start, At, Goto,
       aws, efs, elb, locals, LiveTask
  <2>2. HeldIsMade'
    BY <2>1 DEF RollbackInv, HeldIsMade
  <2>3. UndoneSoFar'
    BY <2>1 DEF RollbackInv, UndoneSoFar, HeldIsMade
  <2>4. DownsAreDowns'
    BY <2>1 DEF RollbackInv, DownsAreDowns
  <2>5. FailedUpLeavesNothing'
    BY <2>1 DEF RollbackInv, FailedUpLeavesNothing, UndoneSoFar,
       HeldIsMade
  <2> QED
    BY <2>2, <2>3, <2>4, <2>5 DEF RollbackInv
<1>3. ASSUME NEW c \in Call, UpRegistryGet(c) PROVE RollbackInv'
  BY <1>3, NothingMadeStep DEF TypeOK, UpRegistryGet, At, Goto, aws, efs,
     elb, locals, LiveTask
<1>4. ASSUME NEW c \in Call, UpFindWorkspace(c) PROVE RollbackInv'
  BY <1>4, NothingMadeStep DEF TypeOK, UpFindWorkspace, At, Goto, aws,
     efs, elb, locals, LiveTask
<1>5. ASSUME NEW c \in Call, UpPruneDuplicate(c) PROVE RollbackInv'
  BY <1>5, NothingMadeStep DEF TypeOK, UpPruneDuplicate, At, Goto, aws,
     efs, elb, locals, LiveTask, DeleteAccessPoint
<1>6. ASSUME NEW c \in Call, UpReuseWorkspace(c) PROVE RollbackInv'
  BY <1>6, NothingMadeStep DEF TypeOK, UpReuseWorkspace, At, Goto, aws,
     efs, elb, locals, LiveTask
<1>7. ASSUME NEW c \in Call, UpAllocateUid(c) PROVE RollbackInv'
  BY <1>7, NothingMadeStep DEF TypeOK, UpAllocateUid, At, Goto, aws, efs,
     elb, locals, LiveTask
<1>8. ASSUME NEW c \in Call, UpCreateAccessPoint(c) PROVE RollbackInv'
  <2>1. /\ pc[c] = "ap" /\ pc'[c] = "taskDef"
        /\ \A d \in Call \ {c} : pc'[d] = pc[d] /\ held'[d] = held[d]
        /\ held'[c] = held[c] \cup {"ap"}
        /\ UNCHANGED <<req, rules>>
        /\ accessPoints' = accessPoints \cup {c}
        /\ \A d \in Call : LiveTask(d)' <=> LiveTask(d)
    BY <1>8, ConstantsAssumption DEF TypeOK, UpCreateAccessPoint, Holds,
       At, Goto, elb, LiveTask
  <2>2. HeldIsMade'
    BY <2>1 DEF RollbackInv, HeldIsMade
  <2>3. UndoneSoFar'
    BY <2>1 DEF RollbackInv, UndoneSoFar, HeldIsMade
  <2>4. DownsAreDowns'
    BY <2>1 DEF RollbackInv, DownsAreDowns
  <2>5. FailedUpLeavesNothing'
    BY <2>1 DEF RollbackInv, FailedUpLeavesNothing, UndoneSoFar,
       HeldIsMade
  <2> QED
    BY <2>2, <2>3, <2>4, <2>5 DEF RollbackInv
<1>9. ASSUME NEW c \in Call, UpRegisterTaskDef(c) PROVE RollbackInv'
  BY <1>9, NothingMadeStep DEF TypeOK, UpRegisterTaskDef, At, Goto, aws,
     efs, elb, locals, LiveTask
<1>10. ASSUME NEW c \in Call, UpCreateTargetGroup(c) PROVE RollbackInv'
  BY <1>10, NothingMadeStep DEF TypeOK, UpCreateTargetGroup, At, Goto,
     aws, efs, elb, locals, LiveTask
<1>11. ASSUME NEW c \in Call, UpCreateListenerRule(c) PROVE RollbackInv'
  <2>1. /\ pc[c] = "rule" /\ pc'[c] \in {"run", "undoTask"}
        /\ \A d \in Call \ {c} : /\ pc'[d] = pc[d] /\ held'[d] = held[d]
                                 /\ rules'[d] = rules[d]
        /\ rules'[c] # rules[c] => "rule" \in held'[c]
        /\ held[c] \subseteq held'[c]
        /\ UNCHANGED <<req, accessPoints>>
        /\ \A d \in Call : LiveTask(d)' <=> LiveTask(d)
    BY <1>11, ConstantsAssumption DEF TypeOK, UpCreateListenerRule, Holds,
       At, Goto, efs, LiveTask
  <2>2. HeldIsMade'
    BY <2>1 DEF RollbackInv, HeldIsMade
  <2>3. UndoneSoFar'
    BY <2>1 DEF RollbackInv, UndoneSoFar, HeldIsMade
  <2>4. DownsAreDowns'
    BY <2>1 DEF RollbackInv, DownsAreDowns
  <2>5. FailedUpLeavesNothing'
    BY <2>1 DEF RollbackInv, FailedUpLeavesNothing, UndoneSoFar,
       HeldIsMade
  <2> QED
    BY <2>2, <2>3, <2>4, <2>5 DEF RollbackInv
<1>12. ASSUME NEW c \in Call, UpRunTask(c) PROVE RollbackInv'
  <2>1. /\ pc[c] = "run" /\ pc'[c] = "wait"
        /\ \A d \in Call \ {c} : /\ pc'[d] = pc[d] /\ held'[d] = held[d]
                                 /\ LiveTask(d)' <=> LiveTask(d)
        /\ held'[c] = held[c] \cup {"task"}
        /\ UNCHANGED <<req, rules, accessPoints>>
    BY <1>12, ConstantsAssumption DEF TypeOK, UpRunTask, Holds, At, Goto,
       efs, elb, LiveTask
  <2>2. HeldIsMade'
    BY <2>1 DEF RollbackInv, HeldIsMade
  <2>3. UndoneSoFar'
    BY <2>1 DEF RollbackInv, UndoneSoFar, HeldIsMade
  <2>4. DownsAreDowns'
    BY <2>1 DEF RollbackInv, DownsAreDowns
  <2>5. FailedUpLeavesNothing'
    BY <2>1 DEF RollbackInv, FailedUpLeavesNothing, UndoneSoFar,
       HeldIsMade
  <2> QED
    BY <2>2, <2>3, <2>4, <2>5 DEF RollbackInv
<1>13. ASSUME NEW c \in Call, UpWaitForTask(c) PROVE RollbackInv'
  <2>1. /\ \A d \in Call, arn \in {"ap", "rule", "task"} :
             arn \in held[d] => arn \in held'[d]
        /\ \A d \in Call : pc'[d] \in Early => held'[d] = held[d]
    BY <1>13 DEF TypeOK, UpWaitForTask, Holds, Goto, Early
  <2> QED
    BY <1>13, <2>1, NothingMadeStep DEF TypeOK, UpWaitForTask, At, Goto, aws,
       efs, elb, LiveTask
<1>14. ASSUME NEW c \in Call, UpRegisterTarget(c) PROVE RollbackInv'
  BY <1>14, NothingMadeStep DEF TypeOK, UpRegisterTarget, At, Goto, aws,
     efs, elb, locals, LiveTask
<1>15. ASSUME NEW c \in Call, UpRegistryPut(c) PROVE RollbackInv'
  BY <1>15, NothingMadeStep DEF TypeOK, UpRegistryPut, At, Goto, aws,
     efs, elb, locals, LiveTask
<1>16. ASSUME NEW c \in Call, UpFails(c) PROVE RollbackInv'
  BY <1>16, NothingMadeStep DEF TypeOK, UpFails, At, Goto, aws, efs, elb,
     locals, LiveTask, UpSteps
<1>17. ASSUME NEW c \in Call, UndoTask(c) PROVE RollbackInv'
  <2>1. /\ pc[c] = "undoTask" /\ pc'[c] = "undoRule"
        /\ \A d \in Call \ {c} : pc'[d] = pc[d]
        /\ \A d \in Call : LiveTask(d)' => LiveTask(d)
        /\ "task" \in held[c] => ~LiveTask(c)'
        /\ UNCHANGED <<req, held, rules, accessPoints>>
    BY <1>17, ConstantsAssumption DEF TypeOK, UndoTask, StopTask, Own, At,
       Goto, efs, elb, locals, LiveTask
  <2>2. HeldIsMade'
    BY <2>1 DEF RollbackInv, HeldIsMade
  <2>3. UndoneSoFar'
    BY <2>1 DEF RollbackInv, UndoneSoFar, HeldIsMade
  <2>4. DownsAreDowns'
    BY <2>1 DEF RollbackInv, DownsAreDowns
  <2>5. FailedUpLeavesNothing'
    BY <2>1 DEF RollbackInv, FailedUpLeavesNothing, UndoneSoFar,
       HeldIsMade
  <2> QED
    BY <2>2, <2>3, <2>4, <2>5 DEF RollbackInv
<1>18. ASSUME NEW c \in Call, UndoRule(c) PROVE RollbackInv'
  <2>1. /\ pc[c] = "undoRule" /\ pc'[c] = "undoTg"
        /\ \A d \in Call \ {c} : pc'[d] = pc[d] /\ rules'[d] = rules[d]
        /\ rules'[c] \in {rules[c], None}
        /\ "rule" \in held[c] => rules'[c] = None
        /\ UNCHANGED <<req, held, accessPoints>>
        /\ \A d \in Call : LiveTask(d)' <=> LiveTask(d)
    BY <1>18, ConstantsAssumption DEF TypeOK, UndoRule,
       DeleteListenerRule, Own, At, Goto, efs, locals, LiveTask
  <2>2. HeldIsMade'
    BY <2>1 DEF RollbackInv, HeldIsMade
  <2>3. UndoneSoFar'
    BY <2>1 DEF RollbackInv, UndoneSoFar, HeldIsMade
  <2>4. DownsAreDowns'
    BY <2>1 DEF RollbackInv, DownsAreDowns
  <2>5. FailedUpLeavesNothing'
    BY <2>1 DEF RollbackInv, FailedUpLeavesNothing, UndoneSoFar,
       HeldIsMade
  <2> QED
    BY <2>2, <2>3, <2>4, <2>5 DEF RollbackInv
<1>19. ASSUME NEW c \in Call, UndoTargetGroup(c) PROVE RollbackInv'
  <2>1. /\ pc[c] = "undoTg" /\ pc'[c] = "undoAp"
        /\ \A d \in Call \ {c} : pc'[d] = pc[d]
        /\ UNCHANGED <<req, held, rules, accessPoints>>
        /\ \A d \in Call : LiveTask(d)' <=> LiveTask(d)
    BY <1>19, ConstantsAssumption DEF TypeOK, UndoTargetGroup, At, Goto,
       efs, locals, LiveTask
  <2>2. HeldIsMade'
    BY <2>1 DEF RollbackInv, HeldIsMade
  <2>3. UndoneSoFar'
    BY <2>1 DEF RollbackInv, UndoneSoFar, HeldIsMade
  <2>4. DownsAreDowns'
    BY <2>1 DEF RollbackInv, DownsAreDowns
  <2>5. FailedUpLeavesNothing'
    BY <2>1 DEF RollbackInv, FailedUpLeavesNothing, UndoneSoFar,
       HeldIsMade
  <2> QED
    BY <2>2, <2>3, <2>4, <2>5 DEF RollbackInv
<1>20. ASSUME NEW c \in Call, UndoAccessPoint(c) PROVE RollbackInv'
  <2>1. /\ pc[c] = "undoAp" /\ pc'[c] = "error"
        /\ \A d \in Call \ {c} : pc'[d] = pc[d]
        /\ accessPoints' \subseteq accessPoints
        /\ "ap" \in held[c] => c \notin accessPoints'
        /\ UNCHANGED <<req, held, rules>>
        /\ \A d \in Call : LiveTask(d)' <=> LiveTask(d)
    BY <1>20, ConstantsAssumption DEF TypeOK, UndoAccessPoint,
       DeleteAccessPoint, At, Goto, elb, locals, LiveTask
  <2>2. HeldIsMade'
    BY <2>1 DEF RollbackInv, HeldIsMade
  <2>3. UndoneSoFar'
    BY <2>1 DEF RollbackInv, UndoneSoFar, HeldIsMade
  <2>4. DownsAreDowns'
    BY <2>1 DEF RollbackInv, DownsAreDowns
  <2>5. FailedUpLeavesNothing'
    BY <2>1 DEF RollbackInv, FailedUpLeavesNothing, UndoneSoFar,
       HeldIsMade
  <2> QED
    BY <2>2, <2>3, <2>4, <2>5 DEF RollbackInv
<1>21. ASSUME NEW c \in Call, DownRegistryGet(c) PROVE RollbackInv'
  BY <1>21, NothingMadeStep DEF TypeOK, DownRegistryGet, At, Goto, aws,
     efs, elb, locals, LiveTask
<1>22. ASSUME NEW c \in Call, DownStopTask(c) PROVE RollbackInv'
  BY <1>22, NothingMadeStep DEF TypeOK, DownStopTask, At, Goto, aws, efs,
     elb, locals, StopTask, LiveTask
<1>23. ASSUME NEW c \in Call, DownDeleteRule(c) PROVE RollbackInv'
  BY <1>23, NothingMadeStep DEF TypeOK, DownDeleteRule, At, Goto, aws,
     efs, elb, locals, LiveTask, DeleteListenerRule
<1>24. ASSUME NEW c \in Call, DownDeregister(c) PROVE RollbackInv'
  BY <1>24, NothingMadeStep DEF TypeOK, DownDeregister, At, Goto, aws,
     efs, elb, locals, LiveTask
<1>25. ASSUME NEW c \in Call, DownDeleteTargetGroup(c) PROVE RollbackInv'
  BY <1>25, NothingMadeStep DEF TypeOK, DownDeleteTargetGroup, At, Goto,
     aws, efs, elb, locals, LiveTask, DeleteTargetGroup
<1>26. ASSUME NEW c \in Call, DownReleaseWorkspace(c) PROVE RollbackInv'
  BY <1>26, NothingMadeStep DEF TypeOK, DownReleaseWorkspace, At, Goto,
     aws, efs, elb, locals, LiveTask, DeleteAccessPoint
<1>27. ASSUME NEW c \in Call, DownRegistryDelete(c) PROVE RollbackInv'
  BY <1>27, NothingMadeStep DEF TypeOK, DownRegistryDelete, At, Goto,
     aws, efs, elb, locals, LiveTask
<1>28. ASSUME NEW c \in Call, DownFails(c) PROVE RollbackInv'
  BY <1>28, NothingMadeStep DEF TypeOK, DownFails, At, Goto, aws, efs,
     elb, locals, LiveTask
<1>29. ASSUME NEW c \in Call, LambdaDies(c) PROVE RollbackInv'
  BY <1>29, NothingMadeStep DEF TypeOK, LambdaDies, At, Goto, aws, efs,
     elb, locals, LiveTask, Active, Steps, UpSteps, UndoSteps
<1>30. ASSUME NEW c \in Call, TaskStarts(c) PROVE RollbackInv'
  BY <1>30, NothingMadeStep DEF TypeOK, TaskStarts, At, Goto, aws, efs,
     elb, locals, LiveTask
<1>31. ASSUME NEW c \in Call, TaskStops(c) PROVE RollbackInv'
  BY <1>31, NothingMadeStep DEF TypeOK, TaskStops, At, Goto, aws, efs,
     elb, locals, LiveTask
<1>32. CASE UNCHANGED vars
  BY <1>32, NothingMadeStep DEF LiveTask, vars, aws, efs, elb, locals
<1> QED
  BY <1>1, <1>2, <1>3, <1>4, <1>5, <1>6, <1>7, <1>8, <1>9, <1>10, <1>11,
     <1>12, <1>13, <1>14, <1>15, <1>16, <1>17, <1>18, <1>19, <1>20, <1>21,
     <1>22, <1>23, <1>24, <1>25, <1>26, <1>27, <1>28, <1>29, <1>30, <1>31,
     <1>32 DEF Next, Step, UpStep, UndoStep, DownStep

(* While teardown calls succeed, a pod-up that answered "error" has left   *)
(* no running task, no rule and no access point of its own, wherever it    *)
(* failed and whatever else ran (podUp's catch block).                     *)
THEOREM RollbackIsComplete ==
  ASSUME "delete" \notin Faults
  PROVE  Spec => []FailedUpLeavesNothing
<1>1. RollbackInv => FailedUpLeavesNothing
  BY DEF RollbackInv
<1> QED
  BY <1>1, TypeInit, TypeNext, RollbackInit, RollbackNext, PTL DEF Spec

-----------------------------------------------------------------------------
(* The theorems from here on depend on which invocations on one pod        *)
(* overlap: they are about the properties whose runs bound Overlap and     *)
(* Faults.                                                                 *)

-----------------------------------------------------------------------------
(* What an invocation holds at each step, and what rows say of it.  None   *)
(* of this depends on who overlaps or on what fails.                       *)

BeforeRule == Early \cup {"taskDef", "tg", "rule"}
AfterRule  == {"run", "wait", "target", "put"}
AfterRun   == {"wait", "target", "put"}
IsUp(c)    == req[c].action = "up"
UpDone(c)  == IsUp(c) /\ pc[c] = "ok"

KindsFit ==
  \A c \in Call : /\ pc[c] \in UpSteps \cup UndoSteps => IsUp(c)
                  /\ pc[c] \in DownSteps => req[c].action = "down"
                  /\ pc[c] = "downAp" => ~req[c].keep

MadeInOrder ==
  \A c \in Call :
    /\ pc[c] \in BeforeRule => rules[c] = None /\ "rule" \notin held[c]
    /\ pc[c] \in BeforeRule \cup {"run"} => tasks[c] = "none" /\ "task" \notin held[c]
    /\ pc[c] \in BeforeRule \cup {"run", "wait"} => "address" \notin held[c]
    /\ pc[c] \in BeforeRule \ {"rule"} => targetGroupArn[c] = None
    /\ rules[c] # None => rules[c] = targetGroupArn[c] /\ "rule" \in held[c]
    /\ LiveTask(c) => "task" \in held[c]

HeldWhenDone ==
  \A c \in Call :
    /\ pc[c] \in AfterRun \/ UpDone(c) => "task" \in held[c]
    /\ (pc[c] \in AfterRule \/ UpDone(c)) /\ req[c].mode = "browser" => "rule" \in held[c]

(* A row is named after the task it names; an up that put it has answered, *)
(* or is told otherwise and rolls back.                                    *)
Putter(c) ==
  pc[c] = "ok" \/ ("lost" \in Faults /\ pc[c] \in UndoSteps \cup {"error", "dead"})
MadeBy(row, c, p) ==
  /\ c \in Call /\ req[c].pod = p /\ IsUp(c) /\ Putter(c) /\ row = RowOf(c)

RowsNamed ==
  \A p \in Pods : Registered(p) => MadeBy(registry[p], registry[p].task, p)
EntriesNamed ==
  \A d \in Call :
    /\ entry[d] # NoRow => MadeBy(entry[d], entry[d].task, req[d].pod)
    /\ entry[d] # NoRow => ~IsUp(d) /\ pc[d] # "idle" /\ pc[d] # "downGet"
    /\ pc[d] \in DownSteps \ {"downGet"} => entry[d] # NoRow

StepInv == KindsFit /\ MadeInOrder /\ HeldWhenDone /\ RowsNamed /\ EntriesNamed

-----------------------------------------------------------------------------
(* Overlap # "any": a pod-down has its pod to itself.                      *)

Excluded ==
  \A c, d \in Call :
    c # d /\ Active(c) /\ Active(d) /\ req[c].pod = req[d].pod =>
      Overlap = "ups" /\ IsUp(c) /\ IsUp(d)
EntryIsRow ==
  \A d \in Call : pc[d] \in DownSteps \ {"downGet"} => entry[d] = registry[req[d].pod]

-----------------------------------------------------------------------------
(* Workspaces, with Overlap = "none".                                      *)

OneWorkspace ==
  \A a, b \in accessPoints : apTags[a].pod = apTags[b].pod => a = b
NoneFound ==
  \A c \in Call : pc[c] \in {"uid", "ap"} => Workspaces(req[c].pod) = {}
NoDuplicates == \A c \in Call : stale[c] = {}
MakerHasLeft ==
  \A c, d \in Call : c # d /\ accessPointId[d] = c => ~Active(c)
TagsFit ==
  \A a \in Call : apTags[a].pod # None => apTags[a].pod = req[a].pod /\ IsUp(a)
SerialInv == TagsFit /\ OneWorkspace /\ NoneFound /\ NoDuplicates /\ MakerHasLeft

-----------------------------------------------------------------------------
(* Target groups, when no two pods share a name cut to 32 characters.      *)

TgNamesDiffer == \A p, q \in Pods : TgName[p] = TgName[q] => p = q
GroupsFit ==
  /\ \A g \in targetGroups : pc[g] # "idle"
  /\ \A c \in Call : targetGroupArn[c] # None =>
       /\ pc[targetGroupArn[c]] # "idle"
       /\ req[targetGroupArn[c]].pod = req[c].pod

(* Whose undo or down will still remove it.                                *)
TaskSteps  == AfterRun \cup {"undoTask"}
RuleSteps  == AfterRule \cup {"undoTask", "undoRule"}
GroupSteps == RuleSteps \cup {"rule", "undoTg"}
TasksAccounted ==
  \A c \in Call : LiveTask(c) =>
    pc[c] \in TaskSteps \/ registry[req[c].pod].task = c
RulesAccounted ==
  \A c \in Call : rules[c] # None =>
    pc[c] \in RuleSteps \/ registry[req[c].pod].rule = c
GroupsAccounted ==
  \A g \in targetGroups :
    \/ registry[req[g].pod].tg = g
    \/ \E d \in Call : targetGroupArn[d] = g /\ pc[d] \in GroupSteps
(* What a pod-down has taken away already of what it read in the row.      *)
ServicesTaken ==
  \A d \in Call :
    /\ pc[d] \in DownSteps \ {"downGet", "downTask"} => ~LiveTask(entry[d].task)
    /\ pc[d] \in {"downTarget", "downTg", "downAp", "downDelete"} /\ entry[d].rule # None =>
         rules[entry[d].rule] = None
GroupsTaken ==
  \A d \in Call : pc[d] \in {"downAp", "downDelete"} => entry[d].tg \notin targetGroups
ServicesInv == TasksAccounted /\ RulesAccounted /\ ServicesTaken
OrphanInv   == ServicesInv /\ GroupsAccounted /\ GroupsTaken

-----------------------------------------------------------------------------
(* What an up has built, with Overlap = "none".                            *)
Whole(c) ==
  /\ accessPointId[c] \in accessPoints
  /\ tasks[c] \in {"running", "stopped"}
  /\ req[c].mode = "browser" =>
       /\ rules[c] = targetGroupArn[c]
       /\ targetGroupArn[c] \in targetGroups
       /\ "address" \in held[c] => c \in targets[targetGroupArn[c]]
BuiltSoFar ==
  \A c \in Call :
    /\ pc[c] \in Building \cup {"prune"} => accessPointId[c] \in accessPoints
    /\ pc[c] \in {"target", "put"} => tasks[c] \in {"running", "stopped"}
    /\ pc[c] \in AfterRule /\ req[c].mode = "browser" =>
         rules[c] = targetGroupArn[c] /\ targetGroupArn[c] \in targetGroups
    /\ pc[c] = "put" => Whole(c)
UnreadRowsWhole ==
  \A p \in Pods :
    Registered(p) /\ (\A d \in Call : entry[d] # registry[p]) => Whole(registry[p].task)
IntactInv == BuiltSoFar /\ UnreadRowsWhole

-----------------------------------------------------------------------------
(* What a step of c leaves alone, and what it does to the rest.            *)

Act(c) ==
  \/ StartUp(c) \/ StartDown(c) \/ Step(c) \/ UpFails(c) \/ DownFails(c)
  \/ LambdaDies(c) \/ TaskStarts(c) \/ TaskStops(c)

Same(d) ==
  /\ pc'[d] = pc[d] /\ req'[d] = req[d] /\ uid'[d] = uid[d]
  /\ accessPointId'[d] = accessPointId[d] /\ stale'[d] = stale[d]
  /\ targetGroupArn'[d] = targetGroupArn[d] /\ held'[d] = held[d]
  /\ entry'[d] = entry[d]

LEMMA Frame ==
  ASSUME TypeOK, NEW c \in Call, Act(c), NEW d \in Call, d # c PROVE Same(d)
<1> USE DEF TypeOK, Same, Goto, Holds, locals
<1>1. CASE StartUp(c) \/ StartDown(c)
  BY <1>1 DEF StartUp, StartDown, Start
<1>2. CASE UpStep(c)
  BY <1>2 DEF UpStep, UpRegistryGet, UpFindWorkspace, UpPruneDuplicate,
     UpReuseWorkspace, UpAllocateUid, UpCreateAccessPoint, UpRegisterTaskDef,
     UpCreateTargetGroup, UpCreateListenerRule, UpRunTask, UpWaitForTask,
     UpRegisterTarget, UpRegistryPut
<1>3. CASE UndoStep(c)
  BY <1>3 DEF UndoStep, UndoTask, UndoRule, UndoTargetGroup, UndoAccessPoint
<1>4. CASE DownStep(c)
  BY <1>4 DEF DownStep, DownRegistryGet, DownStopTask, DownDeleteRule, DownDeregister,
     DownDeleteTargetGroup, DownReleaseWorkspace, DownRegistryDelete
<1>5. CASE UpFails(c) \/ DownFails(c) \/ LambdaDies(c) \/ TaskStarts(c) \/ TaskStops(c)
  BY <1>5 DEF UpFails, DownFails, LambdaDies, TaskStarts, TaskStops
<1> QED
  BY <1>1, <1>2, <1>3, <1>4, <1>5 DEF Act, Step

(* Only c itself makes a rule or a task of its own.                        *)
LEMMA ServiceFrame ==
  ASSUME TypeOK, WorkspaceInv, NEW c \in Call, Act(c), NEW d \in Call, d # c \/ pc[c] \notin UpSteps
  PROVE  /\ rules'[d] \in {rules[d], None}
         /\ LiveTask(d)' => LiveTask(d)
         /\ tasks'[d] = "none" <=> tasks[d] = "none"
         /\ tasks[d] \in {"running", "stopped"} => tasks'[d] \in {"running", "stopped"}
<1> USE ConstantsAssumption
    DEF TypeOK, LiveTask, Own, NamedTasksStarted, Row, OptCall, TaskStatus, aws, elb, At,
        UpSteps
<1>0. NamedTasksStarted
  BY DEF WorkspaceInv
<1>1. CASE StartUp(c) \/ StartDown(c)
  BY <1>1 DEF StartUp, StartDown, Start
<1>2. CASE UpStep(c)
  BY <1>2 DEF UpStep, UpRegistryGet, UpFindWorkspace, UpPruneDuplicate,
     UpReuseWorkspace, UpAllocateUid, UpCreateAccessPoint, UpRegisterTaskDef,
     UpCreateTargetGroup, UpCreateListenerRule, UpRunTask, UpWaitForTask,
     UpRegisterTarget, UpRegistryPut
<1>3. CASE UndoStep(c)
  BY <1>0, <1>3 DEF UndoStep, UndoTask, UndoRule, UndoTargetGroup, UndoAccessPoint,
     StopTask, DeleteListenerRule
<1>4. CASE DownStep(c)
  BY <1>0, <1>4 DEF DownStep, DownRegistryGet, DownStopTask, DownDeleteRule,
      DownDeregister,
     DownDeleteTargetGroup, DownReleaseWorkspace, DownRegistryDelete, StopTask,
     DeleteListenerRule
<1>5. CASE UpFails(c) \/ DownFails(c) \/ LambdaDies(c) \/ TaskStarts(c) \/ TaskStops(c)
  BY <1>5 DEF UpFails, DownFails, LambdaDies, TaskStarts, TaskStops
<1> QED
  BY <1>1, <1>2, <1>3, <1>4, <1>5 DEF Act, Step

(* How far the step of an up or of its rollback takes it, and what it then *)
(* holds.                                                                  *)
Goes(c, from, to) == pc[c] \in from /\ pc'[c] \in to
LEMMA OwnMoves ==
  ASSUME TypeOK, NEW c \in Call, Act(c)
  PROVE  /\ pc[c] # "idle" => req'[c] = req[c]
         /\ \/ pc'[c] = pc[c]
            \/ Goes(c, {"idle"}, {"get"}) /\ IsUp(c)' /\ UNCHANGED aws
            \/ Goes(c, {"idle"}, {"downGet"}) /\ req'[c].action = "down" /\ UNCHANGED aws
            \/ Goes(c, Steps, {"dead"}) /\ "die" \in Faults /\ UNCHANGED aws
            \/ Goes(c, {"get"}, {"find", "conflict", "refused", "error"})
            \/ Goes(c, {"find"}, {"prune", "uid", "error"})
            \/ Goes(c, {"prune"}, {"taskDef", "refused"})
            \/ Goes(c, {"uid"}, {"ap", "error"})
            \/ Goes(c, {"ap"}, {"taskDef", "error"})
            \/ Goes(c, {"taskDef"}, {"run", "undoTask"}) /\ req[c].mode # "browser"
            \/ Goes(c, {"taskDef"}, {"tg", "undoTask"})
            \/ Goes(c, {"tg"}, {"rule", "undoTask"})
            \/ Goes(c, {"rule"}, {"undoTask"})
            \/ Goes(c, {"rule"}, {"run"}) /\ "rule" \in held'[c]
            \/ Goes(c, {"run"}, {"undoTask"})
            \/ Goes(c, {"run"}, {"wait"}) /\ "task" \in held'[c]
            \/ Goes(c, {"wait"}, {"target", "put", "undoTask"})
            \/ Goes(c, {"target"}, {"put", "undoTask"})
            \/ Goes(c, {"put"}, {"ok", "undoTask"})
            \/ Goes(c, {"undoTask"}, {"undoRule"})
            \/ Goes(c, {"undoRule"}, {"undoTg"})
            \/ Goes(c, {"undoTg"}, {"undoAp"})
            \/ Goes(c, {"undoAp"}, {"error"})
            \/ Goes(c, {"downGet"}, {"downTask", "notFound", "error"})
            \/ Goes(c, {"downTask"}, {"downRule"})
            \/ Goes(c, {"downRule"}, {"downTarget"})
            \/ Goes(c, {"downTarget"}, {"downTg", "error"})
            \/ Goes(c, {"downTg"}, {"downAp"}) /\ ~req[c].keep
            \/ Goes(c, {"downTg"}, {"downDelete"})
            \/ Goes(c, {"downAp"}, {"downDelete", "error"})
            \/ Goes(c, {"downDelete"}, {"ok", "error"})
         /\ held'[c] \subseteq held[c]
              \cup {arn \in Held : /\ arn = "task" => pc[c] = "run" /\ pc'[c] = "wait"
                                   /\ arn = "rule" => pc[c] = "rule" /\ pc'[c] = "run"
                                   /\ arn = "ap" => pc[c] = "ap" /\ pc'[c] = "taskDef"
                                   /\ arn = "address" => pc[c] = "wait" /\ pc'[c] = "target"}
         /\ held[c] \subseteq held'[c]
<1> USE DEF TypeOK, Goto, At, Holds, Goes, aws, locals, IsUp
<1>1. CASE StartUp(c) \/ StartDown(c)
  BY <1>1 DEF StartUp, StartDown, Start
<1>2. CASE UpStep(c)
  BY <1>2 DEF UpStep, UpRegistryGet, UpFindWorkspace, UpPruneDuplicate,
     UpReuseWorkspace, UpAllocateUid, UpCreateAccessPoint, UpRegisterTaskDef,
     UpCreateTargetGroup, UpCreateListenerRule, UpRunTask, UpWaitForTask,
     UpRegisterTarget, UpRegistryPut, Held
<1>3. CASE UndoStep(c)
  BY <1>3 DEF UndoStep, UndoTask, UndoRule, UndoTargetGroup, UndoAccessPoint
<1>4. CASE DownStep(c)
  BY <1>4 DEF DownStep, DownRegistryGet, DownStopTask, DownDeleteRule, DownDeregister,
     DownDeleteTargetGroup, DownReleaseWorkspace, DownRegistryDelete
<1>5. CASE UpFails(c) \/ DownFails(c) \/ LambdaDies(c) \/ TaskStarts(c) \/ TaskStops(c)
  BY <1>5 DEF UpFails, DownFails, LambdaDies, TaskStarts, TaskStops, UpSteps, Active
<1> QED
  BY <1>1, <1>2, <1>3, <1>4, <1>5 DEF Act, Step

LEMMA OwnServices ==
  ASSUME TypeOK, WorkspaceInv, NEW c \in Call, Act(c)
  PROVE  /\ \/ rules'[c] \in {rules[c], None}
            \/ pc[c] = "rule" /\ pc'[c] = "run" /\ rules'[c] = targetGroupArn[c]
         /\ \/ tasks'[c] = "none" <=> tasks[c] = "none"
            \/ pc[c] = "run" /\ pc'[c] = "wait"
         /\ \/ LiveTask(c)' => LiveTask(c)
            \/ pc[c] = "run" /\ pc'[c] = "wait"
         /\ \/ tasks[c] \in {"running", "stopped"} => tasks'[c] \in {"running", "stopped"}
            \/ pc[c] = "run" /\ pc'[c] = "wait"
         /\ \/ targetGroupArn'[c] = targetGroupArn[c]
            \/ pc[c] = "tg" /\ pc'[c] = "rule"
<1> USE DEF TypeOK, Goto, At, aws, elb, locals, LiveTask
<1>1. CASE StartUp(c) \/ StartDown(c)
  BY <1>1 DEF StartUp, StartDown, Start
<1>2. CASE UpStep(c)
  BY <1>2 DEF UpStep, UpRegistryGet, UpFindWorkspace, UpPruneDuplicate,
     UpReuseWorkspace, UpAllocateUid, UpCreateAccessPoint, UpRegisterTaskDef,
     UpCreateTargetGroup, UpCreateListenerRule, UpRunTask, UpWaitForTask,
     UpRegisterTarget, UpRegistryPut
<1>4. CASE UpFails(c) \/ DownFails(c) \/ LambdaDies(c) \/ TaskStarts(c) \/ TaskStops(c)
  BY <1>4 DEF UpFails, DownFails, LambdaDies, TaskStarts, TaskStops
<1>5. CASE UndoStep(c) \/ DownStep(c)
  <2>1. pc[c] \notin UpSteps /\ UNCHANGED targetGroupArn
    BY <1>5 DEF UndoStep, UndoTask, UndoRule, UndoTargetGroup, UndoAccessPoint, DownStep,
       DownRegistryGet, DownStopTask, DownDeleteRule, DownDeregister,
       DownDeleteTargetGroup, DownReleaseWorkspace, DownRegistryDelete, UpSteps
  <2> QED
    BY <2>1, ServiceFrame
<1> QED
  BY <1>1, <1>2, <1>4, <1>5 DEF Act, Step

LEMMA StepInvInit == Init => StepInv
BY ConstantsAssumption
DEF Init, StepInv, KindsFit, MadeInOrder, HeldWhenDone, RowsNamed, EntriesNamed,
    Registered, BeforeRule, AfterRule, AfterRun, Early, UpDone, LiveTask, UpSteps,
    UndoSteps, DownSteps

(* A row stays what its maker wrote.                                       *)
LEMMA RowStays ==
  ASSUME TypeOK, WorkspaceInv, StepInv, NEW c \in Call, Act(c),
         NEW x \in Call, IsUp(x), Putter(x)
  PROVE  /\ Putter(x)' /\ req'[x] = req[x] /\ RowOf(x)' = RowOf(x)
         /\ pc[x] = "ok" => pc'[x] = "ok"
<1>1. CASE x # c
  BY <1>1, Frame DEF Same, Putter, RowOf, Own
<1>2. CASE x = c
  <2>1. UNCHANGED <<req[c], uid[c], accessPointId[c], targetGroupArn[c], held[c]>>
    BY <1>2 DEF Putter, Act, Step, StartUp, StartDown, Start, UpStep, UpRegistryGet,
     UpFindWorkspace, UpPruneDuplicate,
     UpReuseWorkspace, UpAllocateUid, UpCreateAccessPoint, UpRegisterTaskDef,
     UpCreateTargetGroup, UpCreateListenerRule, UpRunTask, UpWaitForTask,
     UpRegisterTarget, UpRegistryPut, UndoStep, UndoTask, UndoRule, UndoTargetGroup,
     UndoAccessPoint, DownStep,
       DownRegistryGet, DownStopTask, DownDeleteRule, DownDeregister,
       DownDeleteTargetGroup, DownReleaseWorkspace, DownRegistryDelete,
       UpFails, DownFails, LambdaDies, TaskStarts, TaskStops, UndoSteps, UpSteps, At, locals
  <2>2. Putter(c)' /\ (pc[c] = "ok" => pc'[c] = "ok")
    BY <1>2, OwnMoves DEF Putter, Goes, UndoSteps, Steps, UpSteps, DownSteps
  <2> QED
    BY <1>2, <2>1, <2>2 DEF RowOf, Own
<1> QED
  BY <1>1, <1>2

LEMMA MadeInOrderNext ==
  ASSUME TypeOK, WorkspaceInv, MadeInOrder, NEW c \in Call, Act(c) PROVE MadeInOrder'
<1>1. ASSUME NEW d \in Call, d # c PROVE Same(d) /\ rules'[d] \in {rules[d], None}
        /\ (LiveTask(d)' => LiveTask(d)) /\ (tasks'[d] = "none" <=> tasks[d] = "none")
  BY <1>1, Frame, ServiceFrame
<1>2. MadeInOrder!(c)'
  BY OwnMoves, OwnServices
  DEF MadeInOrder, Goes, BeforeRule, Early, Steps, UpSteps, UndoSteps, DownSteps
<1> QED
  BY <1>1, <1>2 DEF MadeInOrder, Same

(* The rows and the copies podDown takes of them.                          *)
LEMMA RowMoves ==
  ASSUME TypeOK, NEW c \in Call, Act(c)
  PROVE  /\ \/ UNCHANGED registry /\ ~Goes(c, {"put", "downDelete"}, {"ok"})
            \/ /\ pc[c] = "put" /\ ~Registered(req[c].pod)
               /\ registry' = [registry EXCEPT ![req[c].pod] = RowOf(c)]
               /\ pc'[c] = "ok" \/ ("lost" \in Faults /\ pc'[c] = "undoTask")
               /\ UNCHANGED <<req, locals>>
            \/ /\ pc[c] = "downDelete" /\ pc'[c] = "ok"
               /\ registry' = [registry EXCEPT ![req[c].pod] = NoRow]
         /\ \/ entry'[c] = entry[c] /\ ~(pc[c] = "downGet" /\ pc'[c] = "downTask")
            \/ /\ pc[c] = "downGet" /\ pc'[c] = "downTask" /\ Registered(req[c].pod)
               /\ UNCHANGED registry
               /\ entry'[c] = registry[req[c].pod]
<1> USE DEF TypeOK, Goto, Goes, At, aws, locals
<1>1. CASE StartUp(c) \/ StartDown(c)
  BY <1>1 DEF StartUp, StartDown, Start
<1>2. CASE UpStep(c)
  BY <1>2 DEF UpStep, UpRegistryGet, UpFindWorkspace, UpPruneDuplicate,
     UpReuseWorkspace, UpAllocateUid, UpCreateAccessPoint, UpRegisterTaskDef,
     UpCreateTargetGroup, UpCreateListenerRule, UpRunTask, UpWaitForTask,
     UpRegisterTarget, UpRegistryPut
<1>3. CASE UndoStep(c)
  BY <1>3 DEF UndoStep, UndoTask, UndoRule, UndoTargetGroup, UndoAccessPoint
<1>4. CASE DownStep(c)
  BY <1>4 DEF DownStep, DownRegistryGet, DownStopTask, DownDeleteRule, DownDeregister,
     DownDeleteTargetGroup, DownReleaseWorkspace, DownRegistryDelete
<1>5. CASE UpFails(c) \/ DownFails(c) \/ LambdaDies(c) \/ TaskStarts(c) \/ TaskStops(c)
  BY <1>5 DEF UpFails, DownFails, LambdaDies, TaskStarts, TaskStops
<1> QED
  BY <1>1, <1>2, <1>3, <1>4, <1>5 DEF Act, Step

LEMMA MadeByStays ==
  ASSUME TypeOK, WorkspaceInv, StepInv, NEW c \in Call, Act(c),
         NEW row, NEW x, NEW p, MadeBy(row, x, p)
  PROVE  MadeBy(row, x, p)'
BY RowStays DEF MadeBy, IsUp

LEMMA KindsNext ==
  ASSUME TypeOK, KindsFit, NEW c \in Call, Act(c) PROVE KindsFit'
<1>1. ASSUME NEW d \in Call, d # c PROVE Same(d)
  BY <1>1, Frame
<1>2. KindsFit!(c)'
  BY OwnMoves DEF KindsFit, Goes, IsUp, UpSteps, UndoSteps, DownSteps
<1> QED
  BY <1>1, <1>2 DEF KindsFit, IsUp, Same

LEMMA StepInvNext ==
  ASSUME TypeOK, WorkspaceInv, StepInv, NEW c \in Call, Act(c) PROVE StepInv'
<1> USE DEF StepInv
<1>1. ASSUME NEW d \in Call, d # c PROVE Same(d) /\ rules'[d] \in {rules[d], None}
        /\ (LiveTask(d)' => LiveTask(d)) /\ (tasks'[d] = "none" <=> tasks[d] = "none")
  BY <1>1, Frame, ServiceFrame
<1>2. KindsFit'
  BY KindsNext
<1>3. MadeInOrder'
  BY MadeInOrderNext
<1>4. HeldWhenDone'
  <2>1. HeldWhenDone!(c)'
    BY OwnMoves DEF HeldWhenDone, KindsFit, Goes, AfterRule, AfterRun, IsUp, UpDone,
        Steps, UpSteps,
       UndoSteps, DownSteps
  <2> QED
    BY <1>1, <2>1 DEF HeldWhenDone, UpDone, IsUp, Same
<1>5. RowsNamed'
  <2> SUFFICES ASSUME NEW p \in Pods, Registered(p)'
               PROVE  MadeBy(registry[p], registry[p].task, p)'
    BY DEF RowsNamed
  <2>1. CASE registry'[p] = registry[p]
    BY <2>1, MadeByStays DEF RowsNamed, Registered
  <2>2. CASE registry'[p] # registry[p]
    <3>1. /\ pc[c] = "put" /\ req[c].pod = p /\ registry'[p] = RowOf(c)
          /\ pc'[c] = "ok" \/ ("lost" \in Faults /\ pc'[c] = "undoTask")
          /\ UNCHANGED <<req, locals>>
      BY <2>2, RowMoves DEF Registered, TypeOK
    <3>2. IsUp(c) /\ "task" \in held[c]
      BY <3>1 DEF KindsFit, HeldWhenDone, UpSteps, AfterRun
    <3>3. RowOf(c)' = RowOf(c) /\ RowOf(c).task = c
      BY <3>1, <3>2 DEF RowOf, Own, locals
    <3> QED
      BY <3>1, <3>2, <3>3 DEF MadeBy, Putter, IsUp, UndoSteps
  <2> QED
    BY <2>1, <2>2
<1>6. EntriesNamed'
  <2>1. ASSUME NEW d \in Call, entry'[d] = entry[d], entry[d] # NoRow
        PROVE  /\ MadeBy(entry[d], entry[d].task, req[d].pod)'
               /\ ~IsUp(d)' /\ pc'[d] \notin {"idle", "downGet"}
    <3>1. pc[d] # "idle" /\ pc[d] # "downGet" /\ ~IsUp(d)
          /\ MadeBy(entry[d], entry[d].task, req[d].pod)
      BY <2>1 DEF EntriesNamed
    <3>2. req'[d] = req[d] /\ pc'[d] \notin {"idle", "downGet"}
      BY <1>1, <3>1, OwnMoves DEF Same, Goes
    <3> QED
      BY <2>1, <3>1, <3>2, MadeByStays DEF IsUp
  <2>2. ASSUME entry'[c] # entry[c]
        PROVE  /\ MadeBy(entry[c], entry[c].task, req[c].pod)'
               /\ ~IsUp(c)' /\ pc'[c] = "downTask"
    <3>1. /\ pc[c] = "downGet" /\ pc'[c] = "downTask" /\ Registered(req[c].pod)
          /\ entry'[c] = registry[req[c].pod]
      BY <2>2, RowMoves
    <3>2. req'[c] = req[c] /\ req[c] \in Event /\ ~IsUp(c)
      BY <3>1, OwnMoves DEF KindsFit, DownSteps, IsUp, TypeOK
    <3>3. MadeBy(registry[req[c].pod], registry[req[c].pod].task, req[c].pod)
      BY <3>1, <3>2 DEF RowsNamed, Event
    <3> QED
      BY <3>1, <3>2, <3>3, MadeByStays DEF IsUp
  <2>3. \A d \in Call : pc'[d] \in DownSteps \ {"downGet"} => entry'[d] # NoRow
    <3>1. ASSUME pc'[c] \in DownSteps \ {"downGet"} PROVE entry'[c] # NoRow
      BY <3>1, OwnMoves, RowMoves DEF EntriesNamed, Registered, Goes, DownSteps
    <3> QED
      BY <1>1, <3>1 DEF EntriesNamed, Same
  <2> QED
    BY <1>1, <2>1, <2>2, <2>3 DEF EntriesNamed, Same
<1> QED
  BY <1>2, <1>3, <1>4, <1>5, <1>6

(* Who runs at a time, and what a pod-down has read.                       *)
TurnInv == Excluded /\ EntryIsRow

LEMMA TurnInit == Init => TurnInv
BY DEF Init, TurnInv, Excluded, EntryIsRow, Active, Steps, UpSteps, UndoSteps, DownSteps

LEMMA TurnNext ==
  ASSUME TypeOK, WorkspaceInv, StepInv, TurnInv, Overlap # "any", NEW c \in Call, Act(c)
  PROVE  TurnInv'
<1> USE DEF StepInv, TurnInv
<1>1. ASSUME NEW d \in Call, d # c PROVE Same(d)
  BY <1>1, Frame
<1>2. Excluded'
  <2>1. CASE pc[c] # "idle"
    <3>1. req'[c] = req[c] /\ (Active(c)' => Active(c))
      BY <2>1, OwnMoves DEF Goes, Active, Steps, UpSteps, UndoSteps, DownSteps
    <3> QED
      BY <1>1, <3>1 DEF Excluded, Same, Active, IsUp
  <2>2. CASE pc[c] = "idle"
    <3>1. CASE TaskStarts(c) \/ TaskStops(c)
      BY <3>1 DEF TaskStarts, TaskStops, Excluded, Active, IsUp
    <3>2. CASE StartUp(c) \/ StartDown(c)
      <4>1. ASSUME NEW d \in Call, d # c, Active(d), req[d].pod = req'[c].pod
            PROVE  Overlap = "ups" /\ IsUp(d) /\ req'[c].action = "up"
        BY <3>2, <4>1 DEF StartUp, StartDown, Start, MayOverlap, IsUp, TypeOK
      <4> QED
        BY <1>1, <4>1 DEF Excluded, Same, Active, IsUp
    <3> QED
      BY <2>2, <3>1, <3>2 DEF Act, Step, UpStep, UpRegistryGet,
     UpFindWorkspace, UpPruneDuplicate,
     UpReuseWorkspace, UpAllocateUid, UpCreateAccessPoint, UpRegisterTaskDef,
     UpCreateTargetGroup, UpCreateListenerRule, UpRunTask, UpWaitForTask,
     UpRegisterTarget, UpRegistryPut, UndoStep, UndoTask, UndoRule, UndoTargetGroup,
     UndoAccessPoint, DownStep,
       DownRegistryGet, DownStopTask, DownDeleteRule, DownDeregister,
       DownDeleteTargetGroup, DownReleaseWorkspace, DownRegistryDelete,
       UpFails, DownFails, LambdaDies, Active, Steps, UndoSteps, UpSteps, DownSteps, At
  <2> QED
    BY <2>1, <2>2
<1>3. EntryIsRow'
  <2> SUFFICES ASSUME NEW d \in Call, pc'[d] \in DownSteps \ {"downGet"}
               PROVE  entry'[d] = registry'[req'[d].pod]
    BY DEF EntryIsRow
  <2>1. CASE d = c
    BY <2>1, OwnMoves, RowMoves DEF EntryIsRow, Goes, DownSteps
  <2>2. CASE d # c
    <3>1. pc[d] \in DownSteps \ {"downGet"} /\ Active(d) /\ ~IsUp(d) /\ Same(d)
      BY <1>1, <2>2 DEF Same, Active, Steps, KindsFit, IsUp
    <3>2. req[c].pod = req[d].pod => ~Active(c)
      BY <2>2, <3>1 DEF Excluded
    <3>3. registry'[req[d].pod] = registry[req[d].pod]
      <4>1. req[d].pod \in Pods
        BY <3>1 DEF TypeOK, Event, DownSteps
      <4>2. pc[c] \in {"put", "downDelete"} => req[c].pod # req[d].pod
        BY <3>2 DEF Active, Steps, UpSteps, DownSteps
      <4> QED
        BY <4>1, <4>2, RowMoves DEF TypeOK
    <3> QED
      BY <3>1, <3>3 DEF EntryIsRow, Same
  <2> QED
    BY <2>1, <2>2
<1> QED
  BY <1>2, <1>3

-----------------------------------------------------------------------------
(* Workspaces while no two pod-ups of one pod overlap.                     *)

UpsAlone ==
  \A c, d \in Call :
    c # d /\ Active(c) /\ Active(d) /\ IsUp(c) /\ IsUp(d) => req[c].pod # req[d].pod

LEMMA WorkspaceMoves ==
  ASSUME TypeOK, NEW c \in Call, Act(c)
  PROVE  /\ \/ UNCHANGED <<accessPoints, apTags>> /\ ~Goes(c, {"ap"}, {"taskDef"})
            \/ /\ pc[c] = "ap" /\ pc'[c] = "taskDef"
               /\ accessPoints' = accessPoints \cup {c}
               /\ apTags' = [apTags EXCEPT ![c] = apTags'[c]]
               /\ apTags'[c].pod = req[c].pod
            \/ /\ UNCHANGED apTags
               /\ \/ /\ pc[c] = "prune"
                     /\ \E a \in stale[c] : accessPoints' = accessPoints \ {a}
                  \/ /\ pc[c] = "undoAp" /\ "ap" \in held[c]
                     /\ accessPoints' = accessPoints \ {c}
                  \/ pc[c] = "downAp" /\ accessPoints' = accessPoints \ {entry[c].ap}
         /\ \/ /\ UNCHANGED accessPointId[c] /\ stale'[c] \subseteq stale[c]
               /\ ~Goes(c, {"find"}, {"prune"}) /\ ~Goes(c, {"ap"}, {"taskDef"})
            \/ /\ pc[c] = "find" /\ pc'[c] = "prune"
               /\ UNCHANGED <<accessPoints, apTags>>
               /\ accessPointId'[c] \in Workspaces(req[c].pod)
               /\ stale'[c] = Workspaces(req[c].pod) \ {accessPointId'[c]}
            \/ pc[c] = "ap" /\ pc'[c] = "taskDef" /\ accessPointId'[c] = c /\ UNCHANGED stale
            \/ pc[c] = "prune" /\ pc'[c] = "refused" /\ accessPointId'[c] = None /\ UNCHANGED stale
         /\ pc[c] = "find" /\ pc'[c] = "uid" =>
              Workspaces(req[c].pod) = {} /\ UNCHANGED <<accessPoints, apTags>>
<1> USE DEF TypeOK, Goto, Goes, At, aws, efs, locals
<1>1. CASE StartUp(c) \/ StartDown(c)
  BY <1>1 DEF StartUp, StartDown, Start
<1>2. CASE UpStep(c)
  <2>1. CASE UpFindWorkspace(c)
    <3>1. Workspaces(req[c].pod) \subseteq Call
      BY DEF Workspaces
    <3> QED
      BY <2>1, <3>1 DEF UpFindWorkspace
  <2> QED
    BY <1>2, <2>1 DEF UpStep, UpRegistryGet, UpPruneDuplicate,
     UpReuseWorkspace, UpAllocateUid, UpCreateAccessPoint, UpRegisterTaskDef,
     UpCreateTargetGroup, UpCreateListenerRule, UpRunTask, UpWaitForTask,
     UpRegisterTarget, UpRegistryPut, DeleteAccessPoint
<1>3. CASE UndoStep(c)
  BY <1>3 DEF UndoStep, UndoTask, UndoRule, UndoTargetGroup, UndoAccessPoint,
      DeleteAccessPoint
<1>4. CASE DownStep(c)
  BY <1>4 DEF DownStep, DownRegistryGet, DownStopTask, DownDeleteRule, DownDeregister,
     DownDeleteTargetGroup, DownReleaseWorkspace, DownRegistryDelete, DeleteAccessPoint
<1>5. CASE UpFails(c) \/ DownFails(c) \/ LambdaDies(c) \/ TaskStarts(c) \/ TaskStops(c)
  BY <1>5 DEF UpFails, DownFails, LambdaDies, TaskStarts, TaskStops
<1> QED
  BY <1>1, <1>2, <1>3, <1>4, <1>5 DEF Act, Step

(* The tags of an access point stay those of the pod it was made for.      *)
LEMMA TagsFitNext ==
  ASSUME TypeOK, WorkspaceInv, KindsFit, TagsFit, NEW c \in Call, Act(c),
         pc[c] = "idle" => apTags'[c] = NoTags
  PROVE  TagsFit'
<1>1. ASSUME NEW a \in Call, a # c PROVE apTags'[a] = apTags[a] /\ req'[a] = req[a]
  BY <1>1, Frame, WorkspaceMoves DEF Same, TypeOK
<1>2. apTags'[c].pod # None => apTags'[c].pod = req'[c].pod /\ IsUp(c)'
  <2>1. CASE pc[c] = "idle"
    BY <2>1 DEF NoTags
  <2>2. CASE pc[c] # "idle"
    BY <2>2, WorkspaceMoves, OwnMoves DEF TagsFit, KindsFit, IsUp, UpSteps
  <2> QED
    BY <2>1, <2>2
<1> QED
  BY <1>1, <1>2 DEF TagsFit, IsUp

LEMMA SerialInit == Init => SerialInv
BY DEF Init, SerialInv, TagsFit, OneWorkspace, NoneFound, NoDuplicates, MakerHasLeft,
   NoTags, Active, Steps, UpSteps, UndoSteps, DownSteps

LEMMA SerialNext ==
  ASSUME TypeOK, WorkspaceInv, KindsFit, UpsAlone, SerialInv, NEW c \in Call, Act(c)
  PROVE  SerialInv'
<1> USE DEF SerialInv
<1>1. ASSUME NEW d \in Call, d # c PROVE Same(d)
  BY <1>1, Frame
<1>2. ASSUME NEW d \in Call, Active(c), Active(d), IsUp(c), IsUp(d),
             req[c].pod = req[d].pod
      PROVE  c = d
  BY <1>2 DEF UpsAlone
<1>3. TagsFit'
  <2>1. ASSUME pc[c] = "idle" PROVE apTags'[c] = NoTags
    BY <2>1, WorkspaceMoves
    DEF Goes, WorkspaceInv, NothingMadeYet, Early, NoDuplicates
  <2> QED
    BY <2>1, TagsFitNext
<1>4. NoDuplicates'
  <2>1. stale'[c] = {}
    BY WorkspaceMoves DEF NoDuplicates, OneWorkspace, Workspaces
  <2> QED
    BY <1>1, <2>1 DEF NoDuplicates, Same
<1>5. OneWorkspace'
  BY WorkspaceMoves DEF OneWorkspace, NoneFound, Workspaces, TypeOK
<1>6. NoneFound'
  <2> SUFFICES ASSUME NEW d \in Call, pc'[d] \in {"uid", "ap"}, NEW a \in accessPoints',
                      apTags'[a].pod = req'[d].pod
               PROVE  FALSE
    BY DEF NoneFound, Workspaces
  <2>1. CASE d = c
    BY <2>1, WorkspaceMoves, OwnMoves DEF NoneFound, Workspaces, Goes
  <2>2. CASE d # c
    <3>1. Same(d) /\ Active(d)
      BY <1>1, <2>2 DEF Same, Active, Steps, UpSteps
    <3>2. pc[c] = "ap" => req[c].pod # req[d].pod
      BY <1>2, <2>2, <3>1 DEF Active, Steps, UpSteps, KindsFit, Same
    <3> QED
      BY <3>1, <3>2, WorkspaceMoves DEF Same, NoneFound, Workspaces, TypeOK
  <2> QED
    BY <2>1, <2>2
<1>7. MakerHasLeft'
  <2> SUFFICES ASSUME NEW a \in Call, NEW d \in Call, a # d, accessPointId'[d] = a,
                      Active(a)'
               PROVE  FALSE
    BY DEF MakerHasLeft
  <2>1. CASE accessPointId[d] = a
    <3>1. apTags[a].pod = req[d].pod /\ pc[d] # "idle"
      BY <2>1, ConstantsAssumption DEF WorkspaceInv, WorkspaceMatches, NoWorkspaceYet,
          Early
    <3>2. req[d].pod \in Pods
      BY <3>1 DEF TypeOK, Event
    <3>3. pc[a] # "idle"
      BY <3>1, <3>2, ConstantsAssumption DEF WorkspaceInv, NothingMadeYet, NoTags, Early
    <3>4. Active(a)
      BY <1>1, <3>3, OwnMoves DEF Same, Active, Goes, Steps, UpSteps, UndoSteps, DownSteps
    <3> QED
      BY <2>1, <3>4 DEF MakerHasLeft
  <2>2. CASE accessPointId[d] # a
    <3>1. d = c /\ pc[c] = "find" /\ a \in Workspaces(req[c].pod)
      BY <1>1, <2>2, WorkspaceMoves, ConstantsAssumption DEF Same
    <3>2. Active(a) /\ Active(c) /\ apTags[a].pod = req[c].pod
      BY <1>1, <3>1 DEF Same, Active, Steps, UpSteps, Workspaces
    <3>3. req[a].pod = req[c].pod /\ IsUp(a) /\ IsUp(c)
      BY <3>1, <3>2, ConstantsAssumption DEF KindsFit, TagsFit, TypeOK, Event, Active,
          Steps, UpSteps, UndoSteps, DownSteps
    <3> QED
      BY <1>2, <3>1, <3>2, <3>3
  <2> QED
    BY <2>1, <2>2
<1> QED
  BY <1>3, <1>4, <1>5, <1>6, <1>7

-----------------------------------------------------------------------------
(* All of this together, in every behaviour.                               *)

PodInv ==
  /\ TypeOK /\ WorkspaceInv /\ StepInv
  /\ Overlap # "any" => TurnInv
  /\ Overlap = "none" => SerialInv

LEMMA PodInvInit == Init => PodInv
BY TypeInit, WorkspaceInit, StepInvInit, TurnInit, SerialInit DEF PodInv

LEMMA NextIsAct == Next <=> \E c \in Call : Act(c)
BY DEF Next, Act

LEMMA StutterKeeps ==
  ASSUME UNCHANGED vars
  PROVE  /\ UNCHANGED <<registry, accessPoints, apTags, targetGroups, targets, rules,
                        tasks, pc, req, uid, accessPointId, stale, targetGroupArn,
                        held, entry>>
BY DEF vars, aws, efs, elb, locals

LEMMA PodInvNext == PodInv /\ [Next]_vars => PodInv'
<1> SUFFICES ASSUME PodInv, [Next]_vars PROVE PodInv'
  OBVIOUS
<1>1. TypeOK' /\ WorkspaceInv'
  BY TypeNext, WorkspaceNext DEF PodInv
<1>2. ASSUME NEW c \in Call, Act(c) PROVE PodInv'
  <2>1. Overlap = "none" => UpsAlone
    BY DEF PodInv, TurnInv, Excluded, UpsAlone
  <2>2. Overlap = "none" => SerialInv'
    BY <1>2, <2>1, SerialNext DEF PodInv, StepInv
  <2> QED
    BY <1>1, <1>2, <2>2, StepInvNext, TurnNext, ConstantsAssumption DEF PodInv
<1>3. CASE UNCHANGED vars
  <2>1. StepInv' /\ (Overlap # "any" => TurnInv')
    BY <1>3, StutterKeeps DEF PodInv, StepInv, KindsFit, MadeInOrder, HeldWhenDone,
       RowsNamed, EntriesNamed, TurnInv, Excluded, EntryIsRow, IsUp, UpDone, LiveTask,
       Registered, MadeBy, Putter, RowOf, Own, Active
  <2>2. Overlap = "none" => SerialInv'
    BY <1>3, StutterKeeps DEF PodInv, SerialInv, TagsFit, OneWorkspace, NoneFound,
       NoDuplicates, MakerHasLeft, Workspaces, Active, IsUp
  <2> QED
    BY <1>1, <2>1, <2>2 DEF PodInv
<1> QED
  BY <1>2, <1>3, NextIsAct

LEMMA PodInvHolds == Spec => []PodInv
BY PodInvInit, PodInvNext, PTL DEF Spec

LEMMA OneIsAtMostOne == SerialInv => OneWorkspacePerPod
<1> SUFFICES ASSUME SerialInv, NEW p \in Pods PROVE Cardinality(Workspaces(p)) <= 1
  BY DEF OneWorkspacePerPod
<1>1. CASE Workspaces(p) = {}
  BY <1>1, FS_EmptySet
<1>2. CASE Workspaces(p) # {}
  <2>1. PICK a : a \in Workspaces(p)
    BY <1>2
  <2>2. Workspaces(p) = {a}
    BY <2>1 DEF SerialInv, OneWorkspace, Workspaces
  <2>3. Cardinality({a}) = 1
    BY FS_Singleton
  <2> QED
    BY <2>2, <2>3
<1> QED
  BY <1>1, <1>2

(* While no two invocations on one pod overlap, and whatever fails, a pod  *)
(* has at most one workspace (findExistingAccessPoint before               *)
(* createAccessPoint), so the newest one is the user's data.               *)
THEOREM PodsHaveOneWorkspace ==
  ASSUME Overlap = "none" PROVE Spec => []OneWorkspacePerPod
<1>1. PodInv => OneWorkspacePerPod
  BY OneIsAtMostOne DEF PodInv
<1> QED
  BY <1>1, PodInvHolds, PTL

(* While no two invocations on one pod overlap, and whatever fails, what a *)
(* pod-up has handed to its user is deleted only by a pod-down that was    *)
(* told to: never by a prune, nor by the rollback of a later pod-up.       *)
THEOREM AdoptedStays ==
  ASSUME Overlap = "none" PROVE Spec => AdoptedWorkspaceIsKept
<1>1. PodInv /\ [Next]_vars =>
        [\A a \in accessPoints :
           Adopted(a) /\ ~ReleaseRequested(a) => a \in accessPoints']_vars
  <2> SUFFICES ASSUME PodInv, NEW c \in Call, Act(c), NEW a \in accessPoints,
                      Adopted(a), ~ReleaseRequested(a), a \notin accessPoints'
               PROVE  FALSE
    BY NextIsAct DEF vars
  <2>1. PICK d \in Call : pc[d] = "ok" /\ accessPointId[d] = a
    BY DEF Adopted, At
  <2>2. stale[c] = {}
    BY DEF PodInv, SerialInv, NoDuplicates
  <2>3. CASE pc[c] = "undoAp" /\ a = c
    BY <2>1, <2>3 DEF PodInv, SerialInv, MakerHasLeft, Active, Steps, UndoSteps, TypeOK
  <2>4. CASE pc[c] = "downAp" /\ a = entry[c].ap
    BY <2>4 DEF ReleaseRequested, At, PodInv, StepInv, KindsFit
  <2> QED
    BY <2>2, <2>3, <2>4, WorkspaceMoves DEF PodInv
<1> QED
  BY <1>1, PodInvHolds, PTL DEF Spec, AdoptedWorkspaceIsKept

-----------------------------------------------------------------------------
(* Target groups.                                                          *)

LEMMA GroupMoves ==
  ASSUME TypeOK, NEW c \in Call, Act(c)
  PROVE  \/ UNCHANGED <<targetGroups, targetGroupArn[c]>> /\ ~(pc[c] = "tg" /\ pc'[c] = "rule")
         \/ /\ pc[c] = "tg" /\ pc'[c] = "rule" /\ UNCHANGED rules
            /\ \/ targetGroups' = targetGroups \cup {c} /\ targetGroupArn'[c] = c
               \/ UNCHANGED targetGroups /\ targetGroupArn'[c] \in GroupsNamed(TgName[req[c].pod])
         \/ /\ targetGroupArn'[c] = targetGroupArn[c] /\ UNCHANGED rules
            /\ \/ /\ pc[c] = "undoTg" /\ ~Forwarded(targetGroupArn[c])
                  /\ targetGroups' = targetGroups \ {targetGroupArn[c]}
               \/ /\ pc[c] = "downTg" /\ ~Forwarded(entry[c].tg)
                  /\ targetGroups' = targetGroups \ {entry[c].tg}
<1> USE DEF TypeOK, Goto, At, aws, elb, locals
<1>1. CASE StartUp(c) \/ StartDown(c)
  BY <1>1 DEF StartUp, StartDown, Start
<1>2. CASE UpStep(c)
  <2>1. CASE UpCreateTargetGroup(c)
    <3>1. GroupsNamed(TgName[req[c].pod]) \subseteq Call
      BY DEF GroupsNamed
    <3> QED
      BY <2>1, <3>1 DEF UpCreateTargetGroup
  <2> QED
    BY <1>2, <2>1 DEF UpStep, UpRegistryGet, UpFindWorkspace, UpPruneDuplicate,
     UpReuseWorkspace, UpAllocateUid, UpCreateAccessPoint, UpRegisterTaskDef,
     UpCreateListenerRule, UpRunTask, UpWaitForTask, UpRegisterTarget, UpRegistryPut
<1>3. CASE UndoStep(c)
  BY <1>3 DEF UndoStep, UndoTask, UndoRule, UndoTargetGroup, UndoAccessPoint,
      DeleteTargetGroup
<1>4. CASE DownStep(c)
  BY <1>4 DEF DownStep, DownRegistryGet, DownStopTask, DownDeleteRule, DownDeregister,
     DownDeleteTargetGroup, DownReleaseWorkspace, DownRegistryDelete, DeleteTargetGroup
<1>5. CASE UpFails(c) \/ DownFails(c) \/ LambdaDies(c) \/ TaskStarts(c) \/ TaskStops(c)
  BY <1>5 DEF UpFails, DownFails, LambdaDies, TaskStarts, TaskStops
<1> QED
  BY <1>1, <1>2, <1>3, <1>4, <1>5 DEF Act, Step

(* A group is its pod's: no other pod's up finds it by its name.           *)
LEMMA GroupsFitNext ==
  ASSUME TypeOK, MadeInOrder, WorkspaceInv, TgNamesDiffer, GroupsFit,
         NEW c \in Call, Act(c)
  PROVE  GroupsFit'
<1>1. ASSUME NEW d \in Call, d # c PROVE Same(d)
  BY <1>1, Frame
<1>2. ASSUME NEW d \in Call, pc[d] # "idle" PROVE pc'[d] # "idle" /\ req'[d] = req[d]
  BY <1>1, <1>2, OwnMoves DEF Same, Goes
<1>3. ASSUME NEW g \in targetGroups' PROVE pc'[g] # "idle"
  BY <1>2, <1>3, GroupMoves DEF GroupsFit, TypeOK
<1>4. ASSUME NEW d \in Call, targetGroupArn'[d] # None, targetGroupArn'[d] = targetGroupArn[d]
      PROVE  pc'[targetGroupArn[d]] # "idle" /\ req'[targetGroupArn[d]].pod = req'[d].pod
  <2>1. pc[d] # "idle"
    BY <1>4 DEF MadeInOrder, BeforeRule, Early
  <2> QED
    BY <1>2, <1>4, <2>1 DEF GroupsFit, TypeOK, OptCall
<1>5. ASSUME targetGroupArn'[c] # targetGroupArn[c]
      PROVE  /\ targetGroupArn'[c] \in Call /\ pc'[targetGroupArn'[c]] # "idle"
             /\ req'[targetGroupArn'[c]].pod = req'[c].pod
  <2>1. pc[c] = "tg" /\ pc'[c] = "rule" /\ req'[c] = req[c] /\ req[c] \in Event
    BY <1>5, GroupMoves, OwnMoves DEF TypeOK
  <2>2. CASE targetGroupArn'[c] = c
    BY <2>1, <2>2
  <2>3. CASE targetGroupArn'[c] \in GroupsNamed(TgName[req[c].pod])
    <3>1. PICK g \in targetGroups :
            targetGroupArn'[c] = g /\ TgName[req[g].pod] = TgName[req[c].pod]
      BY <2>3 DEF GroupsNamed
    <3>2. pc[g] # "idle" /\ req[g] \in Event
      BY DEF GroupsFit, TypeOK
    <3>3. req[g].pod = req[c].pod
      BY <2>1, <3>1, <3>2 DEF TgNamesDiffer, Event
    <3> QED
      BY <1>2, <2>1, <3>1, <3>2, <3>3 DEF TypeOK
  <2> QED
    BY <1>5, <2>1, <2>2, <2>3, GroupMoves
<1> QED
  BY <1>1, <1>3, <1>4, <1>5 DEF GroupsFit, Same

-----------------------------------------------------------------------------
(* Orphans.  While teardown calls work and Lambda lets its invocations     *)
(* live, whatever a pod-up has made is on the way out or in its pod's row. *)

(* What the teardown calls then achieve.                                   *)
LEMMA TeardownWorks ==
  ASSUME TypeOK, StepInv, WorkspaceInv, "delete" \notin Faults, NEW c \in Call, Act(c)
  PROVE  /\ Goes(c, {"undoTask"}, {"undoRule"}) => ~LiveTask(c)'
         /\ Goes(c, {"undoRule"}, {"undoTg"}) => rules'[c] = None
         /\ Goes(c, {"undoTg"}, {"undoAp"}) =>
              UNCHANGED rules
              /\ (targetGroupArn[c] \notin targetGroups' \/ Forwarded(targetGroupArn[c]))
         /\ Goes(c, {"downTask"}, {"downRule"}) => ~LiveTask(entry[c].task)'
         /\ Goes(c, {"downRule"}, {"downTarget"}) =>
              entry[c].rule = None \/ rules'[entry[c].rule] = None
         /\ Goes(c, {"downTg"}, {"downAp", "downDelete"}) =>
              UNCHANGED rules
              /\ (entry[c].tg \notin targetGroups' \/ Forwarded(entry[c].tg))
<1> USE ConstantsAssumption DEF TypeOK, Goes, Goto, At, aws, elb, Row, OptCall
<1>1. CASE StartUp(c) \/ StartDown(c)
  BY <1>1 DEF StartUp, StartDown, Start
<1>2. CASE UpStep(c)
  BY <1>2 DEF UpStep, UpRegistryGet, UpFindWorkspace, UpPruneDuplicate,
     UpReuseWorkspace, UpAllocateUid, UpCreateAccessPoint, UpRegisterTaskDef,
     UpCreateTargetGroup, UpCreateListenerRule, UpRunTask, UpWaitForTask,
     UpRegisterTarget, UpRegistryPut
<1>3. CASE UndoStep(c)
  BY <1>3 DEF UndoStep, UndoTask, UndoRule, UndoTargetGroup, UndoAccessPoint, StopTask,
     DeleteListenerRule, DeleteTargetGroup, Own, StepInv, MadeInOrder, LiveTask
<1>4. CASE DownStep(c)
  <2>1. pc[c] \in DownSteps \ {"downGet"} => entry[c].task \in Call
    BY DEF StepInv, EntriesNamed, MadeBy
  <2> QED
    <3>1. CASE DownStopTask(c)
      BY <2>1, <3>1 DEF DownStopTask, StopTask, LiveTask, DownSteps, locals
    <3>2. CASE DownDeleteRule(c)
      BY <2>1, <3>2 DEF DownDeleteRule, DeleteListenerRule
    <3>3. CASE DownDeleteTargetGroup(c)
      BY <2>1, <3>3 DEF DownDeleteTargetGroup, DeleteTargetGroup, Forwarded
    <3> QED
      BY <1>4, <3>1, <3>2, <3>3 DEF DownStep, DownRegistryGet, DownDeregister,
         DownReleaseWorkspace, DownRegistryDelete
<1>5. CASE UpFails(c) \/ DownFails(c) \/ LambdaDies(c) \/ TaskStarts(c) \/ TaskStops(c)
  BY <1>5 DEF UpFails, DownFails, LambdaDies, TaskStarts, TaskStops
<1> QED
  BY <1>1, <1>2, <1>3, <1>4, <1>5 DEF Act, Step

LEMMA OrphanInit == Init => OrphanInv
BY DEF Init, OrphanInv, ServicesInv, TasksAccounted, RulesAccounted, GroupsAccounted,
   ServicesTaken, GroupsTaken, LiveTask, DownSteps

LEMMA Lists ==
  /\ TaskSteps = {"wait", "target", "put", "undoTask"}
  /\ RuleSteps = {"run", "wait", "target", "put", "undoTask", "undoRule"}
  /\ GroupSteps = {"rule", "run", "wait", "target", "put", "undoTask", "undoRule", "undoTg"}
  /\ BeforeRule = {"idle", "get", "find", "prune", "uid", "ap", "taskDef", "tg", "rule"}
  /\ RuleSteps \cup GroupSteps \cup DownSteps \cup {"tg"} \subseteq Steps
  /\ DownSteps = {"downGet", "downTask", "downRule", "downTarget", "downTg", "downAp",
                  "downDelete"}
BY DEF TaskSteps, RuleSteps, GroupSteps, AfterRule, AfterRun, BeforeRule, Early, Steps,
   UpSteps, UndoSteps, DownSteps

(* An invocation keeps its event, ...                                      *)
LEMMA EventStays ==
  ASSUME TypeOK, NEW c \in Call, Act(c), NEW d \in Call, pc[d] # "idle"
  PROVE  pc'[d] # "idle" /\ req'[d] = req[d]
BY Frame, OwnMoves DEF Same, Goes

(* ... only a pod-down takes a row away, and it is the one it has read, ...*)
LEMMA RowGoes ==
  ASSUME PodInv, Overlap # "any", NEW c \in Call, Act(c),
         NEW p \in Pods, Registered(p), registry'[p] # registry[p]
  PROVE  pc[c] = "downDelete" /\ req[c].pod = p /\ entry[c] = registry[p]
<1> USE DEF PodInv
<1>1. pc[c] = "downDelete" /\ req[c].pod = p
  BY RowMoves DEF TypeOK
<1> QED
  BY <1>1, Lists DEF TurnInv, EntryIsRow

(* ... and the put of a pod-up writes its own.                             *)
LEMMA PutWrites ==
  ASSUME TypeOK, NEW c \in Call, Act(c), Goes(c, {"put"}, {"ok"}), req[c].pod \in Pods
  PROVE  registry'[req[c].pod] = RowOf(c)
BY RowMoves DEF Goes, TypeOK

(* What a pod-down has read in the row is its pod's.                       *)
LEMMA EntryIsThePods ==
  ASSUME StepInv, NEW c \in Call, pc[c] \in DownSteps \ {"downGet"}
  PROVE  /\ entry[c].task \in Call /\ req[entry[c].task].pod = req[c].pod
         /\ pc[entry[c].task] \notin UpSteps
         /\ entry[c].rule \in {entry[c].task, None}
         /\ entry[c].ap = accessPointId[entry[c].task]
         /\ entry[c].tg = targetGroupArn[entry[c].task]
<1>1. MadeBy(entry[c], entry[c].task, req[c].pod)
  BY DEF StepInv, EntriesNamed
<1> QED
  BY <1>1 DEF MadeBy, RowOf, Own, Putter, UpSteps, UndoSteps

LEMMA ServicesNext ==
  ASSUME PodInv, ServicesInv, Overlap # "any", Faults \cap {"delete", "die"} = {},
         NEW c \in Call, Act(c)
  PROVE  ServicesInv'
<1> USE ConstantsAssumption DEF PodInv, ServicesInv
<1>1. ASSUME NEW d \in Call, d # c PROVE Same(d)
  BY <1>1, Frame
(* What a row names stays named, until a pod-down has taken it away.       *)
<1>2. ASSUME NEW p \in Pods, Registered(p), registry'[p] # registry[p]
      PROVE  /\ ~LiveTask(registry[p].task)
             /\ registry[p].rule # None => rules[registry[p].rule] = None
  BY <1>2, RowGoes, Lists DEF ServicesTaken
<1>3. TasksAccounted'
  <2> SUFFICES ASSUME NEW x \in Call, LiveTask(x)'
               PROVE  pc'[x] \in TaskSteps \/ registry'[req'[x].pod].task = x
    BY DEF TasksAccounted
  <2>1. CASE Goes(x, {"run"}, {"wait"}) /\ x = c
    BY Lists, <2>1 DEF Goes
  <2>2. CASE LiveTask(x)
    <3>1. pc[x] # "idle" /\ req'[x] = req[x] /\ req[x].pod \in Pods
      BY Lists, EventStays, <2>2 DEF StepInv, MadeInOrder, LiveTask, TypeOK, Event
    <3>2. CASE registry[req[x].pod].task = x
      <4>1. Registered(req[x].pod)
        BY <3>2 DEF Registered, NoRow
      <4> QED
        BY <1>2, <2>2, <3>1, <3>2, <4>1
    <3>3. CASE pc[x] \in TaskSteps
      <4>1. CASE x = c
        <5>1. ASSUME Goes(c, {"put"}, {"ok"}) PROVE registry'[req[c].pod].task = c
          <6>1. registry'[req[c].pod] = RowOf(c)
            BY <3>1, <4>1, <5>1, PutWrites
          <6> QED
            BY <2>2, <4>1, <6>1 DEF RowOf, Own, StepInv, MadeInOrder
        <5>2. ~Goes(c, {"undoTask"}, {"undoRule"})
          BY <4>1, TeardownWorks
        <5> QED
          BY Lists, <3>1, <3>3, <4>1, <5>1, <5>2, OwnMoves DEF Goes
      <4>2. CASE x # c
        BY <1>1, <3>3, <4>2 DEF Same
      <4> QED
        BY <4>1, <4>2
    <3> QED
      BY <2>2, <3>2, <3>3 DEF TasksAccounted
  <2> QED
    BY <2>1, <2>2, OwnServices, ServiceFrame DEF Goes
<1>4. RulesAccounted'
  <2> SUFFICES ASSUME NEW x \in Call, rules'[x] # None
               PROVE  pc'[x] \in RuleSteps \/ registry'[req'[x].pod].rule = x
    BY DEF RulesAccounted
  <2>1. CASE Goes(x, {"rule"}, {"run"}) /\ x = c
    BY Lists, <2>1 DEF Goes
  <2>2. CASE rules[x] # None
    <3>1. pc[x] # "idle" /\ req'[x] = req[x] /\ req[x].pod \in Pods
      BY Lists, EventStays, <2>2 DEF StepInv, MadeInOrder, TypeOK, Event
    <3>2. CASE registry[req[x].pod].rule = x
      <4>1. Registered(req[x].pod)
        BY <3>2 DEF Registered, NoRow
      <4> QED
        BY <1>2, <2>2, <3>1, <3>2, <4>1
    <3>3. CASE pc[x] \in RuleSteps
      <4>1. CASE x = c
        <5>1. ASSUME Goes(c, {"put"}, {"ok"}) PROVE registry'[req[c].pod].rule = c
          <6>1. registry'[req[c].pod] = RowOf(c)
            BY <3>1, <4>1, <5>1, PutWrites
          <6> QED
            BY <2>2, <4>1, <6>1 DEF RowOf, Own, StepInv, MadeInOrder
        <5>2. ~Goes(c, {"undoRule"}, {"undoTg"})
          BY <4>1, TeardownWorks
        <5> QED
          BY Lists, <3>1, <3>3, <4>1, <5>1, <5>2, OwnMoves DEF Goes
      <4>2. CASE x # c
        BY <1>1, <3>3, <4>2 DEF Same
      <4> QED
        BY <4>1, <4>2
    <3> QED
      BY <2>2, <3>2, <3>3 DEF RulesAccounted
  <2> QED
    BY <2>1, <2>2, OwnServices, ServiceFrame DEF Goes
<1>5. ServicesTaken'
  <2> SUFFICES ASSUME NEW d \in Call, pc'[d] \in DownSteps \ {"downGet", "downTask"}
               PROVE  /\ ~LiveTask(entry[d].task)'
                      /\ pc'[d] # "downRule" /\ entry'[d].rule # None =>
                           rules'[entry'[d].rule] = None
    BY Lists DEF ServicesTaken
  <2> DEFINE x == entry[d].task
  <2>1. pc[d] \in DownSteps \ {"downGet"} /\ entry'[d] = entry[d]
    <3>1. CASE d = c
      BY Lists, <3>1, OwnMoves, RowMoves DEF Goes
    <3> QED
      BY <1>1, <3>1 DEF Same
  <2>3. /\ x \in Call /\ req[x].pod = req[d].pod /\ pc[x] \notin UpSteps
        /\ entry[d].rule \in {x, None} /\ entry[d].tg = targetGroupArn[x]
    BY <2>1, EntryIsThePods
  <2>4. (LiveTask(x)' => LiveTask(x)) /\ rules'[x] \in {rules[x], None}
    BY <2>1, <2>3, ServiceFrame
  <2>5. ~LiveTask(x)'
    BY Lists, <1>1, <2>1, <2>3, <2>4, OwnMoves, TeardownWorks DEF ServicesTaken, Goes, Same
  <2>6. pc'[d] # "downRule" /\ entry[d].rule # None => rules'[entry[d].rule] = None
    BY Lists, <1>1, <2>1, <2>3, <2>4, OwnMoves, TeardownWorks DEF ServicesTaken, Goes, Same
  <2> QED
    BY <2>1, <2>5, <2>6
<1> QED
  BY <1>3, <1>4, <1>5

LEMMA OrphanNext ==
  ASSUME PodInv, GroupsFit, OrphanInv, TgNamesDiffer, Overlap # "any",
         Faults \cap {"delete", "die"} = {}, NEW c \in Call, Act(c)
  PROVE  OrphanInv'
<1> USE ConstantsAssumption DEF PodInv, OrphanInv, ServicesInv
<1>1. ASSUME NEW d \in Call, d # c PROVE Same(d)
  BY <1>1, Frame
<1>2. ServicesInv'
  BY ServicesNext
(* A pod-down shares its pod with nobody.                                  *)
<1>3. ASSUME NEW d \in Call, NEW e \in Call, pc[d] \in DownSteps, Active(e), d # e
      PROVE  req[d].pod # req[e].pod
  BY Lists, <1>3 DEF TurnInv, Excluded, Active, StepInv, KindsFit, IsUp
(* A group that a row names is named, until a pod-down has taken it away.  *)
<1>4. ASSUME NEW p \in Pods, Registered(p), registry'[p] # registry[p]
      PROVE  registry[p].tg \notin targetGroups
  BY <1>4, RowGoes DEF GroupsTaken
(* The rules that forward to a group are its pod's.                        *)
<1>5. ASSUME NEW g \in Call, NEW r \in Call, rules[r] = g
      PROVE  /\ targetGroupArn[r] = g /\ req[g].pod = req[r].pod /\ req[r].pod \in Pods
             /\ \/ pc[r] \in RuleSteps
                \/ registry[req[r].pod].rule = r /\ registry[req[r].pod].tg = g
  <2>1. targetGroupArn[r] = g /\ pc[r] # "idle"
    BY Lists, <1>5 DEF StepInv, MadeInOrder
  <2>2. req[g].pod = req[r].pod /\ req[r].pod \in Pods
    BY <2>1 DEF GroupsFit, TypeOK, Event
  <2>3. CASE registry[req[r].pod].rule = r
    <3>1. PICK x \in Call : registry[req[r].pod] = RowOf(x)
      BY <2>2, <2>3 DEF StepInv, RowsNamed, MadeBy, Registered, NoRow
    <3>2. x = r
      BY <2>3, <3>1 DEF RowOf, Own
    <3> QED
      BY <2>1, <2>2, <2>3, <3>1, <3>2 DEF RowOf
  <2> QED
    BY <1>5, <2>1, <2>2, <2>3 DEF RulesAccounted
<1>6. GroupsAccounted'
  <2> SUFFICES ASSUME NEW g \in targetGroups'
               PROVE  \/ registry'[req'[g].pod].tg = g
                      \/ \E d \in Call : targetGroupArn'[d] = g /\ pc'[d] \in GroupSteps
    BY DEF GroupsAccounted
  <2>1. CASE g \notin targetGroups
    <3>1. g = c /\ targetGroupArn'[c] = c /\ pc'[c] = "rule"
      BY <2>1, GroupMoves
    <3> QED
      BY Lists, <3>1
  <2>2. CASE g \in targetGroups
    <3>1. g \in Call /\ pc[g] # "idle" /\ req'[g] = req[g] /\ req[g].pod \in Pods
      BY EventStays, <2>2 DEF GroupsFit, TypeOK, Event
    <3>2. CASE registry[req[g].pod].tg = g
      <4>1. Registered(req[g].pod)
        BY <3>1, <3>2 DEF Registered, NoRow
      <4> QED
        BY <1>4, <2>2, <3>1, <3>2, <4>1
    <3>3. ASSUME NEW d \in Call, d # c, targetGroupArn[d] = g, pc[d] \in GroupSteps
          PROVE  targetGroupArn'[d] = g /\ pc'[d] \in GroupSteps
      BY <1>1, <3>3 DEF Same
    <3>4. ASSUME targetGroupArn[c] = g, pc[c] \in GroupSteps
          PROVE  \/ registry'[req[g].pod].tg = g
                 \/ \E d \in Call : targetGroupArn'[d] = g /\ pc'[d] \in GroupSteps
      <4>1. targetGroupArn'[c] = g /\ req[c].pod = req[g].pod /\ req[c].pod \in Pods
        BY Lists, <3>1, <3>4, GroupMoves DEF GroupsFit
      <4>2. CASE pc'[c] \in GroupSteps
        BY <4>1, <4>2
      <4>3. CASE Goes(c, {"put"}, {"ok"})
        <5>1. registry'[req[c].pod] = RowOf(c)
          BY <4>1, <4>3, PutWrites
        <5> QED
          BY <3>4, <4>1, <5>1 DEF RowOf
      <4>4. CASE Goes(c, {"undoTg"}, {"undoAp"})
        <5>1. UNCHANGED rules /\ Forwarded(g)
          BY <3>4, <4>4, TeardownWorks
        <5>2. PICK r \in Call : rules[r] = g
          BY <5>1 DEF Forwarded
        <5>3. /\ targetGroupArn[r] = g /\ req[r].pod = req[g].pod
              /\ pc[r] \in RuleSteps \/ registry[req[g].pod].tg = g
          BY <1>5, <3>1, <5>2
        <5>4. r # c \/ registry[req[g].pod].tg = g
          BY Lists, <4>4, <5>3 DEF Goes
        <5> QED
          BY Lists, <3>2, <3>1, <3>3, <5>3, <5>4
      <4> QED
        BY Lists, <3>4, <4>2, <4>3, <4>4, OwnMoves DEF Goes
    <3> QED
      BY <2>2, <3>1, <3>2, <3>3, <3>4 DEF GroupsAccounted
  <2> QED
    BY <2>1, <2>2
<1>7. GroupsTaken'
  <2> SUFFICES ASSUME NEW d \in Call, pc'[d] \in {"downAp", "downDelete"},
                      entry'[d].tg \in targetGroups'
               PROVE  FALSE
    BY DEF GroupsTaken
  <2> DEFINE x == entry[d].task
  <2>1. pc[d] \in DownSteps \ {"downGet"} /\ entry'[d] = entry[d]
    <3>1. CASE d = c
      BY Lists, <3>1, OwnMoves, RowMoves DEF Goes
    <3> QED
      BY Lists, <1>1, <3>1 DEF Same
  <2>3. /\ x \in Call /\ req[x].pod = req[d].pod /\ pc[x] \notin UpSteps
        /\ entry[d].rule \in {x, None} /\ entry[d].tg = targetGroupArn[x]
    BY <2>1, EntryIsThePods
  <2> DEFINE g == entry[d].tg
  <2>4. CASE g \notin targetGroups
    <3>1. g = c /\ pc[c] = "tg"
      BY <2>1, <2>4, GroupMoves
    <3>2. req[c].pod = req[d].pod
      BY <2>3, <3>1 DEF GroupsFit
    <3> QED
      BY Lists, <1>3, <2>1, <3>1, <3>2 DEF Active
  <2>5. CASE g \in targetGroups
    <3>1. d = c /\ Goes(c, {"downTg"}, {"downAp", "downDelete"})
      BY Lists, <1>1, <2>1, <2>5, OwnMoves DEF GroupsTaken, Goes, Same
    <3>2. Forwarded(g)
      BY <2>1, <3>1, TeardownWorks
    <3>3. PICK r \in Call : rules[r] = g
      BY <3>2 DEF Forwarded
    <3>4. g \in Call /\ req[g].pod = req[d].pod
      BY <2>3, <2>5 DEF GroupsFit, TypeOK
    <3>5. req[r].pod = req[d].pod /\ (pc[r] \in RuleSteps \/ registry[req[d].pod].rule = r)
      BY <1>5, <3>3, <3>4
    <3>6. pc[r] \notin RuleSteps
      BY Lists, <1>3, <2>1, <3>5 DEF Active
    <3>7. entry[d].rule = r /\ pc[d] = "downTg"
      BY Lists, <2>1, <3>1, <3>5, <3>6 DEF TurnInv, EntryIsRow, Goes
    <3> QED
      BY <3>3, <3>4, <3>7 DEF ServicesTaken
  <2> QED
    BY <2>4, <2>5
<1> QED
  BY <1>2, <1>6, <1>7

(* NoOrphans of PodLifecycle, as far as it is about tasks and rules.       *)
NoOrphanServices ==
  \A c \in Call :
    pc[c] # "idle" /\ (\A d \in Call : Active(d) => req[d].pod # req[c].pod) =>
      /\ LiveTask(c) => registry[req[c].pod].task = c
      /\ rules[c] # None => registry[req[c].pod].rule = c

(* While no pod-down of a pod overlaps another invocation, teardown calls  *)
(* work and Lambda lets invocations live, every task and rule of a pod     *)
(* with nothing in flight is in the pod's row, where a pod-down finds it:  *)
(* whichever pod-ups raced or failed, and even when a put was stored and   *)
(* reported as an error (podUp's catch block).  So no task costs money and *)
(* no rule uses up a priority unseen, whatever the pods are called.        *)
THEOREM NoServiceIsOrphaned ==
  ASSUME Overlap # "any", Faults \cap {"delete", "die"} = {}
  PROVE  Spec => []NoOrphanServices
<1> DEFINE I == PodInv /\ ServicesInv
<1>1. Init => I
  BY PodInvInit, OrphanInit DEF OrphanInv
<1>2. I /\ [Next]_vars => I'
  <2> SUFFICES ASSUME I, [Next]_vars PROVE I'
    OBVIOUS
  <2>1. PodInv'
    BY PodInvNext
  <2>2. ASSUME NEW c \in Call, Act(c) PROVE ServicesInv'
    BY <2>2, ServicesNext
  <2> QED
    BY <2>1, <2>2, NextIsAct, StutterKeeps
    DEF ServicesInv, TasksAccounted, RulesAccounted, ServicesTaken, LiveTask
<1>3. I => NoOrphanServices
  BY Lists DEF ServicesInv, TasksAccounted, RulesAccounted, Active, NoOrphanServices
<1> QED
  BY <1>1, <1>2, <1>3, PTL DEF Spec

(* The same for target groups, where no two pods share a group's name: a   *)
(* pod-up finds a group by its name cut to 32 characters.                  *)
THEOREM NothingIsOrphaned ==
  ASSUME Overlap # "any", Faults \cap {"delete", "die"} = {}, TgNamesDiffer
  PROVE  Spec => []NoOrphans
<1> DEFINE I == PodInv /\ GroupsFit /\ OrphanInv
<1>1. Init => I
  BY PodInvInit, OrphanInit DEF Init, GroupsFit
<1>2. I /\ [Next]_vars => I'
  <2> SUFFICES ASSUME I, [Next]_vars PROVE I'
    OBVIOUS
  <2>1. PodInv'
    BY PodInvNext
  <2>2. ASSUME NEW c \in Call, Act(c) PROVE GroupsFit' /\ OrphanInv'
    BY <2>2, GroupsFitNext, OrphanNext DEF PodInv, StepInv
  <2> QED
    BY <2>1, <2>2, NextIsAct, StutterKeeps
    DEF GroupsFit, OrphanInv, ServicesInv, TasksAccounted, RulesAccounted,
        GroupsAccounted, ServicesTaken, GroupsTaken, LiveTask
<1>3. I => NoOrphans
  <2> SUFFICES ASSUME I, NEW c \in Call, pc[c] # "idle",
                      \A d \in Call : Active(d) => req[d].pod # req[c].pod
               PROVE  /\ LiveTask(c) => registry[req[c].pod].task = c
                      /\ rules[c] # None => registry[req[c].pod].rule = c
                      /\ c \in targetGroups => registry[req[c].pod].tg = c
    BY DEF NoOrphans
  <2>1. ~Active(c)
    OBVIOUS
  <2>2. c \in targetGroups => registry[req[c].pod].tg = c
    BY Lists, ConstantsAssumption
    DEF OrphanInv, GroupsAccounted, GroupsFit, Active, PodInv, TypeOK
  <2> QED
    BY Lists, <2>1, <2>2
    DEF OrphanInv, ServicesInv, TasksAccounted, RulesAccounted, Active
<1> QED
  BY <1>1, <1>2, <1>3, PTL DEF Spec

(* One desktop at a time, while no two invocations on one pod overlap: a   *)
(* pod-up past registryGet finds no row but its own.                       *)
UpsOwnTheRow ==
  \A c \in Call :
    pc[c] \in (UpSteps \ {"get"}) \cup UndoSteps /\ Registered(req[c].pod) =>
      registry[req[c].pod].task = c

(* No two live tasks are of one pod, or mount one workspace.               *)
OneDesktopPerPod ==
  \A c, d \in Call :
    /\ LiveTask(c) /\ LiveTask(d)
    /\ req[c].pod = req[d].pod \/ accessPointId[c] = accessPointId[d]
    => c = d

LEMMA GetSeesNoRow ==
  ASSUME TypeOK, NEW c \in Call, Act(c), Goes(c, {"get"}, {"find"})
  PROVE  ~Registered(req[c].pod)
<1> USE DEF TypeOK, Goto, Goes, At
<1>1. CASE StartUp(c) \/ StartDown(c)
  BY <1>1 DEF StartUp, StartDown, Start
<1>2. CASE UpStep(c)
  BY <1>2 DEF UpStep, UpRegistryGet, UpFindWorkspace, UpPruneDuplicate,
     UpReuseWorkspace, UpAllocateUid, UpCreateAccessPoint, UpRegisterTaskDef,
     UpCreateTargetGroup, UpCreateListenerRule, UpRunTask, UpWaitForTask,
     UpRegisterTarget, UpRegistryPut
<1>3. CASE UndoStep(c) \/ DownStep(c)
  BY <1>3 DEF UndoStep, UndoTask, UndoRule, UndoTargetGroup, UndoAccessPoint, DownStep,
     DownRegistryGet, DownStopTask, DownDeleteRule, DownDeregister,
     DownDeleteTargetGroup, DownReleaseWorkspace, DownRegistryDelete
<1>4. CASE UpFails(c) \/ DownFails(c) \/ LambdaDies(c) \/ TaskStarts(c) \/ TaskStops(c)
  BY <1>4 DEF UpFails, DownFails, LambdaDies, TaskStarts, TaskStops
<1> QED
  BY <1>1, <1>2, <1>3, <1>4 DEF Act, Step

LEMMA UpsOwnTheRowNext ==
  ASSUME PodInv, UpsOwnTheRow, Overlap = "none", NEW c \in Call, Act(c)
  PROVE  UpsOwnTheRow'
<1> USE DEF PodInv
<1> DEFINE Late == (UpSteps \ {"get"}) \cup UndoSteps
<1> SUFFICES ASSUME NEW d \in Call, pc'[d] \in Late, Registered(req[d].pod)'
             PROVE  registry'[req'[d].pod].task = d
  BY DEF UpsOwnTheRow
<1>1. CASE d # c
  <2>1. Same(d) /\ pc[d] \in Late /\ Active(d) /\ pc[d] # "idle"
    BY <1>1, Frame DEF Same, Active, Steps, UpSteps, UndoSteps
  <2>2. req[d].pod \in Pods
    BY <2>1 DEF TypeOK, Event
  <2>3. pc[c] \in {"put", "downDelete"} => req[c].pod # req[d].pod
    BY <1>1, <2>1 DEF TurnInv, Excluded, Active, Steps, UpSteps, DownSteps
  <2>4. registry'[req[d].pod] = registry[req[d].pod]
    BY <2>2, <2>3, RowMoves DEF TypeOK
  <2> QED
    BY <2>1, <2>4 DEF UpsOwnTheRow, Same, Registered
<1>2. CASE d = c
  <2>1. \/ pc[c] \in Late \/ Goes(c, {"get"}, {"find"})
    BY <1>2, OwnMoves DEF Goes, UpSteps, UndoSteps, DownSteps, Steps
  <2>2. pc[c] # "idle" /\ pc[c] # "downDelete" /\ req'[c] = req[c] /\ req[c].pod \in Pods
    BY <2>1, OwnMoves DEF Goes, UpSteps, UndoSteps, TypeOK, Event
  <2>3. CASE UNCHANGED registry
    <3>1. Registered(req[c].pod)
      BY <1>2, <2>2, <2>3 DEF Registered
    <3>2. pc[c] \in Late
      BY <2>1, <3>1, GetSeesNoRow
    <3> QED
      BY <1>2, <2>2, <2>3, <3>1, <3>2 DEF UpsOwnTheRow
  <2>4. CASE pc[c] = "put" /\ registry' = [registry EXCEPT ![req[c].pod] = RowOf(c)]
    <3>1. "task" \in held[c]
      BY <2>4 DEF StepInv, HeldWhenDone, AfterRun
    <3> QED
      BY <1>2, <2>2, <2>4, <3>1 DEF RowOf, Own, TypeOK
  <2> QED
    BY <2>2, <2>3, <2>4, RowMoves
<1> QED
  BY <1>1, <1>2

(* While no two invocations on one pod overlap, teardown calls work and    *)
(* Lambda lets invocations live, a pod never has two tasks alive, and no   *)
(* two live tasks ever write one workspace: podUp starts a task only for a *)
(* pod without a row, and podDown stops the row's task before the row goes.*)
THEOREM OneDesktopAtATime ==
  ASSUME Overlap = "none", Faults \cap {"delete", "die"} = {}
  PROVE  Spec => []OneDesktopPerPod
<1> DEFINE I == PodInv /\ ServicesInv /\ UpsOwnTheRow
<1>1. Init => I
  BY PodInvInit, OrphanInit
  DEF OrphanInv, Init, UpsOwnTheRow, UpSteps, UndoSteps
<1>2. I /\ [Next]_vars => I'
  <2> SUFFICES ASSUME I, [Next]_vars PROVE I'
    OBVIOUS
  <2>1. PodInv'
    BY PodInvNext
  <2>2. ASSUME NEW c \in Call, Act(c) PROVE ServicesInv' /\ UpsOwnTheRow'
    BY <2>2, ServicesNext, UpsOwnTheRowNext
  <2> QED
    BY <2>1, <2>2, NextIsAct, StutterKeeps
    DEF ServicesInv, TasksAccounted, RulesAccounted, ServicesTaken, LiveTask,
        UpsOwnTheRow, Registered
<1>3. I => OneDesktopPerPod
  <2> SUFFICES ASSUME I, NEW c \in Call, NEW d \in Call, LiveTask(c), LiveTask(d),
                      req[c].pod = req[d].pod \/ accessPointId[c] = accessPointId[d]
               PROVE  c = d
    BY DEF OneDesktopPerPod
  <2>1. req[c].pod = req[d].pod
    BY DEF PodInv, LiveTask, WorkspaceInv, BuildersOwnTheirs, OwnerMatches, WorkspaceMatches
  <2>2. pc[c] \in TaskSteps => Active(c) /\ pc[c] \in (UpSteps \ {"get"}) \cup UndoSteps
    BY Lists DEF Active, UpSteps, UndoSteps, TaskSteps
  <2>3. pc[d] \in TaskSteps => Active(d) /\ pc[d] \in (UpSteps \ {"get"}) \cup UndoSteps
    BY Lists DEF Active, UpSteps, UndoSteps, TaskSteps
  <2>4. /\ pc[c] \in TaskSteps \/ registry[req[c].pod].task = c
        /\ pc[d] \in TaskSteps \/ registry[req[c].pod].task = d
    BY <2>1 DEF ServicesInv, TasksAccounted
  <2>5. CASE pc[c] \in TaskSteps /\ pc[d] \in TaskSteps
    BY <2>1, <2>2, <2>3, <2>5 DEF PodInv, TurnInv, Excluded
  <2>6. CASE registry[req[c].pod].task \in {c, d}
    <3>1. Registered(req[c].pod)
      BY <2>6, ConstantsAssumption DEF Registered, NoRow
    <3> QED
      BY <2>1, <2>2, <2>3, <2>4, <3>1 DEF UpsOwnTheRow
  <2> QED
    BY <2>4, <2>5, <2>6
<1> QED
  BY <1>1, <1>2, <1>3, PTL DEF Spec

-----------------------------------------------------------------------------
(* Isolation of the pods, whoever overlaps and whatever fails.             *)

(* An invocation changes the row, the tasks, the rules and the access      *)
(* points of its own pod only.                                             *)
KeepsToItsPod(c) ==
  /\ \A p \in Pods : registry'[p] # registry[p] => p = req[c].pod
  /\ \A t \in Call :
       tasks'[t] # tasks[t] \/ rules'[t] # rules[t] => req[t].pod = req[c].pod
  /\ \A a \in accessPoints \ accessPoints' : apTags[a].pod = req[c].pod
PodsAreIsolated == [][\A c \in Call : Step(c) => KeepsToItsPod(c)]_vars

(* The access points that there are have been tagged, and what a prune is  *)
(* about to delete is tagged with the pod's name.                          *)
Tagged   == \A a \in accessPoints : apTags[a].pod # None
StaleFit ==
  \A c \in Call : stale[c] # {} =>
    IsUp(c) /\ pc[c] # "idle" /\ \A a \in stale[c] : apTags[a].pod = req[c].pod
TagInv == TagsFit /\ Tagged /\ StaleFit

(* What a pod-down works from names what one pod-up of its pod made, or    *)
(* nothing, where the row is one that the reaper's upsert created.         *)
Names(row, p) ==
  \/ row.task = None /\ row.rule = None /\ row.ap = None /\ row.tg = None
  \/ \E t \in Call : /\ row.task \in {t, None} /\ row.rule \in {t, None}
                      /\ row.ap = accessPointId[t] /\ row.tg = targetGroupArn[t]
                      /\ req[t].pod = p
                      /\ IsUp(t) /\ pc[t] \notin UpSteps \cup {"idle"}
EntriesFit ==
  \A d \in Call : pc[d] \in DownSteps \ {"downGet"} => Names(entry[d], req[d].pod)

LEMMA TagInit == Init => TagInv
BY DEF Init, TagInv, TagsFit, Tagged, StaleFit, NoTags

LEMMA TagNext ==
  ASSUME TypeOK, WorkspaceInv, KindsFit, TagInv, NEW c \in Call, Act(c) PROVE TagInv'
<1> USE DEF TagInv
<1>1. ASSUME NEW d \in Call, pc[d] # "idle" PROVE pc'[d] # "idle" /\ req'[d] = req[d]
  BY <1>1, EventStays
<1>2. pc[c] \in Early => apTags[c] = NoTags
  BY DEF WorkspaceInv, NothingMadeYet
<1>3. TagsFit'
  <2>1. ASSUME pc[c] = "idle" PROVE apTags'[c] = NoTags
    <3>1. stale[c] = {} /\ pc[c] \notin {"ap", "prune", "undoAp", "downAp"}
      BY <2>1 DEF StaleFit
    <3> QED
      BY <1>2, <2>1, <3>1, WorkspaceMoves DEF Early
  <2> QED
    BY <2>1, TagsFitNext
<1>4. Tagged'
  <2>1. CASE UNCHANGED <<accessPoints, apTags>>
    BY <2>1 DEF Tagged
  <2>2. CASE UNCHANGED apTags /\ accessPoints' \subseteq accessPoints
    BY <2>2 DEF Tagged
  <2>3. CASE /\ pc[c] = "ap" /\ accessPoints' = accessPoints \cup {c}
             /\ apTags' = [apTags EXCEPT ![c] = apTags'[c]]
             /\ apTags'[c].pod = req[c].pod
    <3>1. req[c].pod # None
      BY <2>3, ConstantsAssumption DEF TypeOK, Event
    <3> QED
      BY <2>3, <3>1 DEF Tagged, TypeOK
  <2> QED
    BY <2>1, <2>2, <2>3, WorkspaceMoves
<1>5. StaleFit'
  <2> SUFFICES ASSUME NEW d \in Call, NEW a \in stale'[d]
               PROVE  IsUp(d)' /\ pc'[d] # "idle" /\ apTags'[a].pod = req'[d].pod
    BY DEF StaleFit
  <2>1. CASE a \in stale[d]
    <3>1. /\ a \in Call /\ apTags[a].pod = req[d].pod /\ req[d] \in Event
          /\ IsUp(d) /\ pc[d] # "idle"
      BY <2>1 DEF StaleFit, TypeOK
    <3>2. apTags[a] # NoTags
      BY <3>1, ConstantsAssumption DEF NoTags, Event
    <3>3. apTags'[a] = apTags[a]
      BY <1>2, <3>1, <3>2, WorkspaceMoves DEF Early, TypeOK
    <3> QED
      BY <1>1, <3>1, <3>3 DEF IsUp
  <2>2. CASE a \notin stale[d]
    <3>1. d = c /\ pc[c] = "find" /\ a \in Workspaces(req[c].pod) /\ UNCHANGED apTags
      BY <2>2, Frame, WorkspaceMoves DEF Same
    <3>2. IsUp(c)
      BY <3>1 DEF KindsFit, UpSteps
    <3> QED
      BY <1>1, <3>1, <3>2 DEF Workspaces, IsUp
  <2> QED
    BY <2>1, <2>2
<1> QED
  BY <1>3, <1>4, <1>5

LEMMA EntriesAreMade == PodInv => EntriesFit
<1> SUFFICES ASSUME PodInv, NEW d \in Call, pc[d] \in DownSteps \ {"downGet"}
             PROVE  Names(entry[d], req[d].pod)
  BY DEF EntriesFit
<1>1. MadeBy(entry[d], entry[d].task, req[d].pod)
  BY DEF PodInv, StepInv, EntriesNamed
<1> QED
  BY <1>1 DEF MadeBy, RowOf, Own, Putter, UpSteps, UndoSteps, Names

(* So every invocation keeps to its pod.                                   *)
LEMMA StepsKeepToTheirPod ==
  ASSUME TypeOK, WorkspaceInv, TagInv, EntriesFit, NEW c \in Call, Step(c)
  PROVE  KeepsToItsPod(c)
<1> USE DEF TagInv
<1>0. Act(c)
  BY DEF Act
<1>1. ASSUME NEW p \in Pods, registry'[p] # registry[p] PROVE p = req[c].pod
  BY <1>0, <1>1, RowMoves DEF TypeOK
<1>2. ASSUME NEW t \in Call, t # c, tasks'[t] # tasks[t] \/ rules'[t] # rules[t]
      PROVE  pc[c] \in {"downTask", "downRule"} /\ t \in {entry[c].task, entry[c].rule}
  <2> USE DEF TypeOK, aws, efs, elb, At, Goto
  <2>1. CASE UpStep(c)
    BY <1>2, <2>1 DEF UpStep, UpRegistryGet, UpFindWorkspace, UpPruneDuplicate,
       UpReuseWorkspace, UpAllocateUid, UpCreateAccessPoint, UpRegisterTaskDef,
       UpCreateTargetGroup, UpCreateListenerRule, UpRunTask, UpWaitForTask,
       UpRegisterTarget, UpRegistryPut
  <2>2. CASE UndoStep(c)
    BY <1>2, <2>2 DEF UndoStep, UndoTask, UndoRule, UndoTargetGroup, UndoAccessPoint,
       StopTask, DeleteListenerRule, Own
  <2>3. CASE DownStep(c)
    BY <1>2, <2>3 DEF DownStep, DownRegistryGet, DownStopTask, DownDeleteRule,
       DownDeregister, DownDeleteTargetGroup, DownReleaseWorkspace, DownRegistryDelete,
       StopTask, DeleteListenerRule
  <2> QED
    BY <2>1, <2>2, <2>3 DEF Step
<1>3. ASSUME NEW t \in Call, tasks'[t] # tasks[t] \/ rules'[t] # rules[t]
      PROVE  req[t].pod = req[c].pod
  BY <1>2, <1>3, ConstantsAssumption DEF EntriesFit, Names, DownSteps
<1>4. ASSUME NEW a \in accessPoints, a \notin accessPoints' PROVE apTags[a].pod = req[c].pod
  <2>1. a \in Call /\ apTags[a].pod # None
    BY DEF Tagged, TypeOK
  <2>2. CASE pc[c] = "prune" /\ a \in stale[c]
    BY <2>2 DEF StaleFit
  <2>3. CASE a = c
    BY <2>1, <2>3 DEF TagsFit
  <2>4. CASE pc[c] = "downAp" /\ a = entry[c].ap
    <3>1. PICK t \in Call : req[t].pod = req[c].pod /\ a = accessPointId[t]
      BY <2>1, <2>4, ConstantsAssumption DEF EntriesFit, Names, DownSteps
    <3> QED
      BY <2>1, <3>1, ConstantsAssumption DEF WorkspaceInv, WorkspaceMatches
  <2> QED
    BY <1>0, <1>4, <2>2, <2>3, <2>4, WorkspaceMoves
<1> QED
  BY <1>1, <1>3, <1>4 DEF KeepsToItsPod

LEMMA TagInvHolds == Spec => [](PodInv /\ TagInv)
<1>1. PodInv /\ TagInv /\ [Next]_vars => TagInv'
  <2> SUFFICES ASSUME PodInv, TagInv, [Next]_vars PROVE TagInv'
    OBVIOUS
  <2>1. ASSUME NEW c \in Call, Act(c) PROVE TagInv'
    BY <2>1, TagNext DEF PodInv, StepInv
  <2>2. CASE UNCHANGED vars
    BY <2>2, StutterKeeps DEF TagInv, TagsFit, Tagged, StaleFit, IsUp
  <2> QED
    BY <2>1, <2>2, NextIsAct
<1> QED
  BY <1>1, PodInvInit, PodInvNext, TagInit, PTL DEF Spec

(* Whoever overlaps and whatever fails, a pod-up, its rollback, its prune  *)
(* of duplicates and a pod-down change the row, the tasks, the rules and   *)
(* the access points of their own pod only (the row podDown works from,    *)
(* findExistingAccessPoint's tag filter, podUp's local variables).         *)
THEOREM InvocationsKeepToTheirPod == Spec => PodsAreIsolated
<1>1. PodInv /\ TagInv /\ [Next]_vars => [\A c \in Call : Step(c) => KeepsToItsPod(c)]_vars
  BY EntriesAreMade, StepsKeepToTheirPod DEF PodInv
<1> QED
  BY <1>1, TagInvHolds, PTL DEF Spec, PodsAreIsolated

(* Target groups, when no two pods share a name: the tasks registered in a *)
(* group are those of its pod.                                             *)
TargetsFit ==
  \A g \in Call : \A t \in targets[g] :
    pc[t] # "idle" /\ pc[g] # "idle" /\ req[t].pod = req[g].pod
RouteInv == GroupsFit /\ TargetsFit

(* A listener rule, by its pod's host, leads to tasks of its pod.          *)
RulesLeadHome ==
  \A r \in Call : rules[r] # None =>
    /\ req[rules[r]].pod = req[r].pod
    /\ \A t \in targets[rules[r]] : req[t].pod = req[r].pod

(* An invocation changes the target groups of its own pod only, and who is *)
(* registered in them.                                                     *)
GroupsKept(c) ==
  /\ \A g \in targetGroups \ targetGroups' : req[g].pod = req[c].pod
  /\ \A g \in Call : targets'[g] # targets[g] => req[g].pod = req[c].pod
GroupsAreIsolated == [][\A c \in Call : Step(c) => GroupsKept(c)]_vars

LEMMA TargetMoves ==
  ASSUME TypeOK, NEW c \in Call, Act(c)
  PROVE  /\ \/ UNCHANGED targets
            \/ targets' = [targets EXCEPT ![targetGroupArn[c]] = @ \cup {c}]
            \/ /\ pc[c] = "downTarget"
               /\ targets' = [targets EXCEPT ![entry[c].tg] = @ \ {entry[c].task}]
            \/ \E g \in OptCall : ~Forwarded(g) /\ targets' = [targets EXCEPT ![g] = {}]
         /\ Goes(c, {"wait"}, {"target", "put"}) =>
              /\ tasks'[c] = "running" /\ UNCHANGED aws
              /\ pc'[c] = "put" => held'[c] = held[c]
         /\ Goes(c, {"rule"}, {"run"}) =>
              rules'[c] = targetGroupArn[c] /\ targetGroupArn[c] \in targetGroups'
         /\ Goes(c, {"target"}, {"put"}) =>
              /\ c \in targets'[targetGroupArn[c]]
              /\ UNCHANGED <<accessPoints, targetGroups, rules, tasks>>
         /\ \A x \in Call : \/ rules[x] = None \/ rules'[x] = rules[x]
                            \/ x = c /\ pc[c] \in {"rule", "undoRule"}
                            \/ pc[c] = "downRule" /\ x = entry[c].rule
<1> USE DEF TypeOK, Goto, Goes, At, aws, efs, elb, locals, Holds
<1>1. CASE StartUp(c) \/ StartDown(c)
  BY <1>1 DEF StartUp, StartDown, Start
<1>2. CASE UpStep(c)
  BY <1>2 DEF UpStep, UpRegistryGet, UpFindWorkspace, UpPruneDuplicate,
     UpReuseWorkspace, UpAllocateUid, UpCreateAccessPoint, UpRegisterTaskDef,
     UpCreateTargetGroup, UpCreateListenerRule, UpRunTask, UpWaitForTask,
         UpRegisterTarget,
     UpRegistryPut
<1>3. CASE UndoStep(c)
  BY <1>3 DEF UndoStep, UndoTask, UndoRule, UndoTargetGroup, UndoAccessPoint,
     DeleteTargetGroup, DeleteListenerRule, Own
<1>4. CASE DownStep(c)
  <2>1. entry[c].tg \in OptCall
    BY DEF Row
  <2> QED
    BY <1>4, <2>1 DEF DownStep, DownRegistryGet, DownStopTask, DownDeleteRule,
        DownDeregister,
     DownDeleteTargetGroup, DownReleaseWorkspace, DownRegistryDelete, DeleteTargetGroup,
     DeleteListenerRule
<1>5. CASE UpFails(c) \/ DownFails(c) \/ LambdaDies(c) \/ TaskStarts(c) \/ TaskStops(c)
  BY <1>5 DEF UpFails, DownFails, LambdaDies, TaskStarts, TaskStops
<1> QED
  BY <1>1, <1>2, <1>3, <1>4, <1>5 DEF Act, Step

LEMMA TargetsFitNext ==
  ASSUME TypeOK, WorkspaceInv, MadeInOrder, RouteInv, NEW c \in Call, Act(c)
  PROVE  TargetsFit'
<1> SUFFICES ASSUME NEW g \in Call, NEW t \in targets'[g]
             PROVE  pc'[t] # "idle" /\ pc'[g] # "idle" /\ req'[t].pod = req'[g].pod
  BY DEF TargetsFit
<1> USE DEF RouteInv
<1>1. CASE t \in targets[g]
  <2>1. t \in Call /\ pc[t] # "idle" /\ pc[g] # "idle" /\ req[t].pod = req[g].pod
    BY <1>1 DEF TargetsFit, TypeOK
  <2> QED
    BY <2>1, EventStays
<1>2. CASE t \notin targets[g]
  <2>1. targets' = [targets EXCEPT ![targetGroupArn[c]] = @ \cup {c}]
    BY <1>2, TargetMoves DEF TypeOK
  <2>2. g = targetGroupArn[c] /\ t = c
    BY <1>2, <2>1 DEF TypeOK
  <2>3. pc[c] # "idle" /\ pc[g] # "idle" /\ req[g].pod = req[c].pod
    BY <2>2, ConstantsAssumption DEF GroupsFit, MadeInOrder, BeforeRule, Early
  <2> QED
    BY <2>2, <2>3, EventStays
<1> QED
  BY <1>1, <1>2

LEMMA StepsKeepTheirGroups ==
  ASSUME TypeOK, RouteInv, EntriesFit, NEW c \in Call, Step(c) PROVE GroupsKept(c)
<1> USE ConstantsAssumption DEF RouteInv
<1>0. Act(c)
  BY DEF Act
<1>1. ASSUME NEW g \in Call, g = targetGroupArn[c] PROVE req[g].pod = req[c].pod
  BY <1>1 DEF GroupsFit
<1>2. ASSUME NEW g \in Call, g = entry[c].tg, pc[c] \in DownSteps \ {"downGet"}
      PROVE  req[g].pod = req[c].pod
  BY <1>2 DEF EntriesFit, Names, GroupsFit
<1>3. ASSUME NEW g \in targetGroups, g \notin targetGroups' PROVE req[g].pod = req[c].pod
  BY <1>0, <1>1, <1>2, <1>3, GroupMoves DEF DownSteps, TypeOK
<1>4. ASSUME NEW g \in Call, targets'[g] # targets[g]
      PROVE  g = targetGroupArn[c] \/ (g = entry[c].tg /\ pc[c] \in {"downTarget", "downTg"})
  <2> USE DEF TypeOK, aws, elb, At
  <2>1. CASE UpStep(c)
    BY <1>4, <2>1 DEF UpStep, UpRegistryGet, UpFindWorkspace, UpPruneDuplicate,
       UpReuseWorkspace, UpAllocateUid, UpCreateAccessPoint, UpRegisterTaskDef,
       UpCreateTargetGroup, UpCreateListenerRule, UpRunTask, UpWaitForTask,
       UpRegisterTarget, UpRegistryPut
  <2>2. CASE UndoStep(c)
    BY <1>4, <2>2 DEF UndoStep, UndoTask, UndoRule, UndoTargetGroup, UndoAccessPoint,
       DeleteTargetGroup
  <2>3. CASE DownStep(c)
    BY <1>4, <2>3 DEF DownStep, DownRegistryGet, DownStopTask, DownDeleteRule,
       DownDeregister, DownDeleteTargetGroup, DownReleaseWorkspace, DownRegistryDelete,
       DeleteTargetGroup
  <2> QED
    BY <2>1, <2>2, <2>3 DEF Step
<1> QED
  BY <1>1, <1>2, <1>3, <1>4 DEF GroupsKept, DownSteps

LEMMA RouteInvHolds ==
  ASSUME TgNamesDiffer PROVE Spec => [](PodInv /\ RouteInv)
<1>1. Init => RouteInv
  BY DEF Init, RouteInv, GroupsFit, TargetsFit
<1>2. PodInv /\ RouteInv /\ [Next]_vars => RouteInv'
  <2> SUFFICES ASSUME PodInv, RouteInv, [Next]_vars PROVE RouteInv'
    OBVIOUS
  <2>1. ASSUME NEW c \in Call, Act(c) PROVE RouteInv'
    BY <2>1, GroupsFitNext, TargetsFitNext DEF PodInv, StepInv, RouteInv
  <2>2. CASE UNCHANGED vars
    BY <2>2, StutterKeeps DEF RouteInv, GroupsFit, TargetsFit
  <2> QED
    BY <2>1, <2>2, NextIsAct
<1> QED
  BY <1>1, <1>2, PodInvInit, PodInvNext, PTL DEF Spec

LEMMA GroupsLeadHome ==
  ASSUME TypeOK, MadeInOrder, RouteInv PROVE RulesLeadHome
<1> SUFFICES ASSUME NEW r \in Call, rules[r] # None
             PROVE  /\ req[rules[r]].pod = req[r].pod
                    /\ \A t \in targets[rules[r]] : req[t].pod = req[r].pod
  BY DEF RulesLeadHome
<1>1. rules[r] \in Call /\ targetGroupArn[r] = rules[r]
  BY DEF TypeOK, OptCall, MadeInOrder
<1>2. req[rules[r]].pod = req[r].pod
  BY <1>1, ConstantsAssumption DEF RouteInv, GroupsFit
<1> QED
  BY <1>1, <1>2 DEF RouteInv, TargetsFit

(* Where no two pods share a target group's name, whoever overlaps and     *)
(* whatever fails, a listener rule forwards to a group of its own pod and  *)
(* to tasks of its own pod only: nobody who opens a pod's host meets       *)
(* another pod's desktop (createTargetGroup answers with the group of that *)
(* name).                                                                  *)
THEOREM RulesLeadToTheirOwnPod ==
  ASSUME TgNamesDiffer PROVE Spec => []RulesLeadHome
<1>1. PodInv /\ RouteInv => RulesLeadHome
  BY GroupsLeadHome DEF PodInv, StepInv
<1> QED
  BY <1>1, RouteInvHolds, PTL

(* And an invocation deletes no group, and registers and deregisters no    *)
(* task, of another pod (registerTarget and deregisterAndDeleteTargetGroup *)
(* by the ARN in podUp's locals or in the row).                            *)
THEOREM InvocationsKeepTheirGroups ==
  ASSUME TgNamesDiffer PROVE Spec => GroupsAreIsolated
<1>1. PodInv /\ RouteInv /\ [Next]_vars => [\A c \in Call : Step(c) => GroupsKept(c)]_vars
  BY EntriesAreMade, StepsKeepTheirGroups DEF PodInv
<1> QED
  BY <1>1, RouteInvHolds, PTL DEF Spec, GroupsAreIsolated

-----------------------------------------------------------------------------
(* Whole pods, while no two invocations on one pod overlap.                *)

(* Nobody takes the parts of x's pod away while x builds it or has handed  *)
(* it over, except a pod-down that has read x's row.                       *)
Undisturbed(c, x) ==
  pc[c] \in DownSteps \ {"downGet"} =>
    entry[c].task # x /\ entry[c].ap # accessPointId[x]

LEMMA PartsStay ==
  ASSUME PodInv, Overlap = "none", NEW c \in Call, Act(c), NEW x \in Call,
         pc[x] \in Building \cup {"prune", "ok"}, accessPointId'[x] = accessPointId[x],
         accessPointId[x] # None, Undisturbed(c, x)
  PROVE  /\ accessPointId[x] \in accessPoints => accessPointId[x] \in accessPoints'
         /\ tasks[x] \in {"running", "stopped"} => tasks'[x] \in {"running", "stopped"}
         /\ rules[x] # None /\ pc[x] # "rule" => rules'[x] = rules[x]
         /\ rules[x] # None /\ rules[x] \in targetGroups => rules[x] \in targetGroups'
         /\ \A g \in Call : rules[x] = g /\ x \in targets[g] => x \in targets'[g]
<1> USE ConstantsAssumption DEF PodInv
<1>1. pc[c] \in DownSteps \ {"downGet"} =>
        /\ entry[c].task # x /\ entry[c].rule # x /\ entry[c].ap # accessPointId[x]
  <2> SUFFICES ASSUME pc[c] \in DownSteps \ {"downGet"}
               PROVE  entry[c].rule # x
    BY DEF Undisturbed
  <2>1. MadeBy(entry[c], entry[c].task, req[c].pod)
    BY DEF StepInv, EntriesNamed
  <2>2. entry[c].rule \in {entry[c].task, None}
    BY <2>1 DEF MadeBy, RowOf, Own
  <2> QED
    BY <2>2 DEF Undisturbed
<1>2. accessPointId[x] \in accessPoints => accessPointId[x] \in accessPoints'
  <2>1. stale[c] = {}
    BY DEF SerialInv, NoDuplicates
  <2>2. pc[c] = "undoAp" => accessPointId[x] # c
    BY DEF SerialInv, MakerHasLeft, Active, Steps, UndoSteps, Building
  <2> QED
    BY <1>1, <2>1, <2>2, WorkspaceMoves DEF DownSteps
<1>3. tasks[x] \in {"running", "stopped"} => tasks'[x] \in {"running", "stopped"}
  BY ServiceFrame, OwnServices DEF StepInv, MadeInOrder
<1>4. rules[x] # None /\ pc[x] # "rule" => rules'[x] = rules[x]
  BY <1>1, TargetMoves DEF DownSteps, Building
<1>5. rules[x] # None /\ rules[x] \in targetGroups => rules[x] \in targetGroups'
  BY GroupMoves DEF Forwarded, TypeOK
<1>6. ASSUME NEW g \in Call, rules[x] = g, x \in targets[g] PROVE x \in targets'[g]
  <2>1. Forwarded(g)
    BY <1>6 DEF Forwarded
  <2> QED
    BY <1>1, <1>6, <2>1, TargetMoves DEF DownSteps, TypeOK
<1> QED
  BY <1>2, <1>3, <1>4, <1>5, <1>6

LEMMA IntactInit == Init => IntactInv
BY DEF Init, IntactInv, BuiltSoFar, UnreadRowsWhole, Registered, Building, AfterRule

LEMMA IntactNext ==
  ASSUME PodInv, IntactInv, Overlap = "none", "lost" \notin Faults, NEW c \in Call, Act(c)
  PROVE  IntactInv'
<1> USE ConstantsAssumption DEF PodInv, IntactInv
<1>0. /\ Building = {"taskDef", "tg", "rule", "run", "wait", "target", "put"}
      /\ AfterRule = {"run", "wait", "target", "put"}
      /\ DownSteps = {"downGet", "downTask", "downRule", "downTarget", "downTg", "downAp",
                      "downDelete"}
      /\ Building \cup DownSteps \cup {"prune"} \subseteq Steps
  BY DEF Building, AfterRule, Steps, UpSteps, DownSteps
<1>1. ASSUME NEW d \in Call, d # c PROVE Same(d)
  BY <1>1, Frame
(* A pod-down that has read a row: whose, and of which pod.                *)
<1>2. ASSUME pc[c] \in DownSteps \ {"downGet"}
      PROVE  /\ entry[c] = registry[req[c].pod] /\ req[c].pod \in Pods /\ Active(c)
             /\ entry[c].task \in Call /\ pc[entry[c].task] = "ok"
             /\ entry[c] = RowOf(entry[c].task) /\ req[entry[c].task].pod = req[c].pod
  BY <1>0, <1>2 DEF TurnInv, EntryIsRow, StepInv, EntriesNamed, MadeBy, Putter, Active,
     TypeOK, Event
<1>3. ASSUME NEW x \in Call, pc[x] # "idle", accessPointId[x] # None,
             pc[c] \in DownSteps \ {"downGet"}, entry[c].ap = accessPointId[x]
      PROVE  req[x].pod = req[c].pod
  BY <1>2, <1>3 DEF WorkspaceInv, WorkspaceMatches, RowOf
<1>4. ASSUME NEW x \in Call, pc[x] \in Building \cup {"prune"} PROVE Undisturbed(c, x)
  <2> SUFFICES ASSUME pc[c] \in DownSteps \ {"downGet"}
               PROVE  entry[c].task # x /\ entry[c].ap # accessPointId[x]
    BY DEF Undisturbed
  <2>1. Active(x) /\ x # c
    BY <1>0, <1>4 DEF Active
  <2>2. accessPointId[x] # None
    BY <1>4, <1>0 DEF WorkspaceInv, NoWorkspaceYet, BuildersOwnTheirs, OwnerMatches
  <2>3. req[x].pod # req[c].pod
    BY <1>2, <2>1 DEF TurnInv, Excluded
  <2> QED
    BY <1>2, <1>3, <1>0, <1>4, <2>2, <2>3
(* What an up has built stays while it is building, and what it then adds. *)
<1>5. ASSUME NEW d \in Call, pc[d] \in Building \cup {"prune"},
             accessPointId'[d] = accessPointId[d]
      PROVE  /\ accessPointId[d] \in accessPoints => accessPointId[d] \in accessPoints'
             /\ tasks[d] \in {"running", "stopped"} => tasks'[d] \in {"running", "stopped"}
             /\ rules[d] # None /\ pc[d] # "rule" => rules'[d] = rules[d]
             /\ rules[d] # None /\ rules[d] \in targetGroups => rules[d] \in targetGroups'
             /\ \A g \in Call : rules[d] = g /\ d \in targets[g] => d \in targets'[g]
  <2>1. accessPointId[d] # None
    BY <1>5, <1>0 DEF WorkspaceInv, NoWorkspaceYet, BuildersOwnTheirs, OwnerMatches
  <2> QED
    BY <1>4, <1>5, <2>1, PartsStay
<1>6. BuiltSoFar'
  <2>1. ASSUME NEW d \in Call, d # c PROVE BuiltSoFar!(d)'
    <3>1. Same(d)
      BY <1>1, <2>1
    <3>2. pc[d] \in Building \cup {"prune"} => accessPointId[d] \in accessPoints
      BY DEF BuiltSoFar
    <3> QED
      BY <1>0, <1>5, <3>1, <3>2 DEF BuiltSoFar, Same, Whole, TypeOK
  <2>2. pc'[c] \in Building \cup {"prune"} => accessPointId'[c] \in accessPoints'
    <3>1. CASE pc[c] \in Building \cup {"prune"} /\ accessPointId'[c] = accessPointId[c]
      BY <1>5, <3>1 DEF BuiltSoFar
    <3>2. CASE pc[c] \notin Building \cup {"prune"} \/ accessPointId'[c] # accessPointId[c]
      <4>1. CASE Goes(c, {"find"}, {"prune"})
        BY <4>1, WorkspaceMoves DEF Workspaces, Goes
      <4>2. CASE Goes(c, {"ap"}, {"taskDef"})
        BY <4>2, WorkspaceMoves DEF Goes
      <4>3. CASE pc'[c] \notin Building \cup {"prune"}
        BY <4>3
      <4> QED
        BY <1>0, <3>2, <4>1, <4>2, <4>3, OwnMoves, WorkspaceMoves DEF Goes
    <3> QED
      BY <3>1, <3>2
  <2>3. pc'[c] \in {"target", "put"} => tasks'[c] \in {"running", "stopped"}
    BY <1>0, <1>5, OwnMoves, TargetMoves, WorkspaceMoves DEF BuiltSoFar, Goes
  <2>4. ASSUME pc'[c] \in AfterRule, req'[c].mode = "browser"
        PROVE  rules'[c] = targetGroupArn'[c] /\ targetGroupArn'[c] \in targetGroups'
    <3>1. CASE Goes(c, {"rule"}, {"run"})
      <4>1. targetGroupArn'[c] = targetGroupArn[c]
        BY <3>1, OwnServices DEF Goes
      <4> QED
        BY <3>1, <4>1, TargetMoves
    <3>2. CASE pc[c] \in AfterRule
      <4>1. /\ rules[c] = targetGroupArn[c] /\ targetGroupArn[c] \in targetGroups
            /\ targetGroupArn'[c] = targetGroupArn[c] /\ accessPointId'[c] = accessPointId[c]
        BY <1>0, <2>4, <3>2, OwnMoves, OwnServices, WorkspaceMoves DEF BuiltSoFar
      <4> QED
        BY <1>0, <1>5, <3>2, <4>1 DEF TypeOK
    <3> QED
      BY <1>0, <2>4, <3>1, <3>2, OwnMoves DEF Goes
  <2>5. ASSUME pc'[c] = "put" PROVE Whole(c)'
    <3>1. /\ accessPointId'[c] \in accessPoints' /\ tasks'[c] \in {"running", "stopped"}
          /\ req'[c].mode = "browser" =>
               rules'[c] = targetGroupArn'[c] /\ targetGroupArn'[c] \in targetGroups'
      BY <1>0, <2>2, <2>3, <2>4, <2>5
    <3>2. ASSUME req'[c].mode = "browser", "address" \in held'[c]
          PROVE  c \in targets'[targetGroupArn'[c]]
      <4>1. targetGroupArn'[c] = targetGroupArn[c]
        BY <2>5, OwnServices
      <4>2. CASE Goes(c, {"wait"}, {"put"})
        BY <3>2, <4>2, TargetMoves DEF Goes, StepInv, MadeInOrder
      <4>3. CASE Goes(c, {"target"}, {"put"})
        BY <4>1, <4>3, TargetMoves
      <4>4. CASE pc[c] = "put"
        <5>1. /\ accessPointId'[c] = accessPointId[c] /\ req'[c] = req[c]
              /\ "address" \in held[c]
          BY <2>5, <3>2, <4>4, WorkspaceMoves, OwnMoves
        <5>2. Whole(c)
          BY <4>4 DEF BuiltSoFar
        <5> QED
          BY <1>0, <1>5, <3>2, <4>1, <4>4, <5>1, <5>2 DEF Whole, TypeOK
      <4> QED
        BY <2>5, <4>2, <4>3, <4>4, OwnMoves DEF Goes
    <3> QED
      BY <3>1, <3>2 DEF Whole
  <2> QED
    BY <2>1, <2>2, <2>3, <2>4, <2>5 DEF BuiltSoFar
<1>7. UnreadRowsWhole'
  <2> SUFFICES ASSUME NEW p \in Pods, Registered(p)', \A d \in Call : entry'[d] # registry'[p]
               PROVE  Whole(registry[p].task)'
    BY DEF UnreadRowsWhole
  <2>1. CASE registry'[p] = registry[p]
    <3>1. \A d \in Call : entry[d] # registry[p]
      <4>1. entry[c] # registry[p]
        BY <2>1, RowMoves DEF StepInv, EntriesNamed, Registered
      <4> QED
        BY <1>1, <2>1, <4>1 DEF Same
    <3>2. PICK x \in Call : /\ x = registry[p].task /\ req[x].pod = p /\ pc[x] = "ok"
                            /\ registry[p] = RowOf(x) /\ IsUp(x)
      BY <2>1 DEF StepInv, RowsNamed, MadeBy, Putter, Registered
    <3>3. Whole(x)
      BY <2>1, <3>1, <3>2 DEF UnreadRowsWhole, Registered
    <3>4. Undisturbed(c, x)
      BY <1>2, <1>3, <3>1, <3>2, <3>3 DEF Undisturbed, Whole, TypeOK
    <3>5. /\ RowOf(x)' = RowOf(x) /\ req'[x] = req[x]
          /\ accessPointId'[x] = accessPointId[x] /\ targetGroupArn'[x] = targetGroupArn[x]
          /\ "address" \in held'[x] => "address" \in held[x]
      <4>1. RowOf(x)' = RowOf(x) /\ req'[x] = req[x]
        BY <3>2, RowStays DEF Putter
      <4>2. "address" \in held'[x] => "address" \in held[x]
        BY <1>1, <3>2, OwnMoves DEF Same
      <4> QED
        BY <4>1, <4>2 DEF RowOf
    <3> QED
      BY <2>1, <3>2, <3>3, <3>4, <3>5, PartsStay DEF Whole, TypeOK
  <2>2. CASE registry'[p] # registry[p]
    <3>1. /\ pc[c] = "put" /\ req[c].pod = p /\ registry'[p] = RowOf(c)
          /\ UNCHANGED <<req, locals>>
      BY <2>2, RowMoves DEF Registered, TypeOK
    <3>2. RowOf(c).task = c
      BY <3>1 DEF RowOf, Own, StepInv, HeldWhenDone, AfterRun
    <3> QED
      BY <1>0, <1>5, <3>1, <3>2 DEF BuiltSoFar, Whole, locals, TypeOK
  <2> QED
    BY <2>1, <2>2
<1> QED
  BY <1>6, <1>7

(* While no two invocations on one pod overlap, and unless DynamoDB stores *)
(* a put that it reports as failed, a registered pod that no pod-down has  *)
(* read is whole, whatever else fails or dies (its target is missing only  *)
(* if ECS gave podUp no address for its task): podUp registers a pod only  *)
(* once it is built, and neither a rollback, a prune nor the pod-down of   *)
(* another pod takes any of it away, even if the two share a target group. *)
THEOREM RegisteredPodsAreIntact ==
  ASSUME Overlap = "none", "lost" \notin Faults
  PROVE  Spec => []RegisteredPodIsIntact
<1> DEFINE I == PodInv /\ IntactInv
<1>1. Init => I
  BY PodInvInit, IntactInit
<1>2. I /\ [Next]_vars => I'
  <2> SUFFICES ASSUME I, [Next]_vars PROVE I'
    OBVIOUS
  <2>1. PodInv'
    BY PodInvNext
  <2>2. CASE UNCHANGED vars
    BY <2>1, <2>2, StutterKeeps
    DEF IntactInv, BuiltSoFar, UnreadRowsWhole, Whole, Registered
  <2> QED
    BY <2>1, <2>2, IntactNext, NextIsAct
<1>3. I => RegisteredPodIsIntact
  <2> SUFFICES ASSUME I, NEW p \in Pods, Registered(p), \A d \in Call : entry[d] # registry[p]
               PROVE  LET row == registry[p] IN
                        /\ row.ap \in accessPoints
                        /\ tasks[row.task] \in {"running", "stopped"}
                        /\ row.mode = "browser" =>
                             /\ rules[row.rule] = row.tg
                             /\ row.tg \in targetGroups
                             /\ "address" \in held[row.task] =>
                                  row.task \in targets[row.tg]
    BY DEF RegisteredPodIsIntact
  <2>1. PICK x \in Call : /\ x = registry[p].task /\ registry[p] = RowOf(x)
                          /\ pc[x] = "ok" /\ IsUp(x)
    BY DEF PodInv, StepInv, RowsNamed, MadeBy, Putter
  <2>2. Whole(x)
    BY <2>1 DEF IntactInv, UnreadRowsWhole
  <2>3. req[x].mode = "browser" => Own(x, "rule") = x
    BY <2>1 DEF PodInv, StepInv, HeldWhenDone, UpDone, Own
  <2> QED
    BY <2>1, <2>2, <2>3 DEF Whole, RowOf
<1> QED
  BY <1>1, <1>2, <1>3, PTL DEF Spec

-----------------------------------------------------------------------------
(* The refinement: PodLifecycle implements PodStates.                      *)

-----------------------------------------------------------------------------
(* The promise is for these invocations and failures only.                 *)

Promised == Overlap = "none" /\ Faults \subseteq {"create", "stop"}

(* A pod is not registered while a pod-up works on it.                     *)
UpsUnregistered ==
  \A c \in Call : pc[c] \in (UpSteps \ {"get"}) \cup UndoSteps =>
    ~Registered(req[c].pod)

(* What createdNewAp is about is there until it is rolled back.            *)
CreatedIsThere ==
  \A c \in Call :
    /\ pc[c] \in Early => "ap" \notin held[c]
    /\ Constructing(c) /\ "ap" \in held[c] =>
         c \in accessPoints /\ apTags[c].pod = req[c].pod
    /\ pc[c] \in Building \cup {"prune"} => accessPointId[c] \in accessPoints

(* A row's workspace is there until a pod-down releases it.                *)
Released(c) == pc[c] = "downDelete" /\ ~req[c].keep
RowsHaveWorkspace ==
  /\ \A p \in Pods : Registered(p) /\ (\A c \in On(p) : ~Released(c)) =>
       registry[p].ap \in accessPoints
  /\ \A c \in Call : Released(c) => Workspaces(req[c].pod) = {}

(* A pod-down past its first step has stopped the row's task.              *)
DownsStopTheTask ==
  \A c \in Call : pc[c] \in DownSteps \ {"downGet", "downTask"} =>
    ~LiveTask(entry[c].task)

PhaseInv ==
  UpsUnregistered /\ CreatedIsThere /\ RowsHaveWorkspace /\ DownsStopTheTask
LEMMA PhaseInit == Init => PhaseInv
BY DEF Init, PhaseInv, UpsUnregistered, CreatedIsThere, RowsHaveWorkspace, Registered, On,
   Released, DownsStopTheTask, Constructing, UpSteps, UndoSteps, DownSteps, Building

(* What these failures leave of the ways a step can go.                    *)
LEMMA PromisedMoves ==
  ASSUME TypeOK, Promised, NoDuplicates, NEW c \in Call, Act(c)
  PROVE  /\ ~Goes(c, Steps, {"dead"}) /\ ~Goes(c, {"downDelete"}, {"error"})
         /\ Goes(c, {"get"}, {"find"}) => ~Registered(req[c].pod)
         /\ Goes(c, {"put"}, {"undoTask"}) => UNCHANGED registry
         /\ Goes(c, {"downTg"}, {"downDelete"}) => req[c].keep
         /\ Goes(c, {"downAp"}, {"error"}) => entry[c].ap \notin accessPoints
         /\ \/ /\ UNCHANGED <<accessPoints, apTags>>
               /\ ~Goes(c, {"downAp"}, {"downDelete"}) /\ ~Goes(c, {"ap"}, {"taskDef"})
               /\ Goes(c, {"undoAp"}, {"error"}) => "ap" \notin held[c]
            \/ Goes(c, {"ap"}, {"taskDef"}) /\ "ap" \in held'[c]
            \/ /\ Goes(c, {"undoAp"}, {"error"}) /\ "ap" \in held[c]
               /\ accessPoints' = accessPoints \ {c} /\ UNCHANGED apTags
            \/ /\ Goes(c, {"downAp"}, {"downDelete"}) /\ entry[c].ap \in accessPoints
               /\ accessPoints' = accessPoints \ {entry[c].ap} /\ UNCHANGED apTags
<1> USE DEF TypeOK, Promised, Goto, Goes, At, Holds, aws, efs, locals
<1>1. CASE StartUp(c) \/ StartDown(c)
  BY <1>1 DEF StartUp, StartDown, Start, Steps, UpSteps, UndoSteps, DownSteps
<1>2. CASE UpStep(c)
  <2>1. ~UpPruneDuplicate(c)
    BY DEF UpPruneDuplicate, NoDuplicates
  <2> QED
    BY <1>2, <2>1 DEF UpStep, UpRegistryGet, UpFindWorkspace,
     UpReuseWorkspace, UpAllocateUid, UpCreateAccessPoint, UpRegisterTaskDef,
     UpCreateTargetGroup, UpCreateListenerRule, UpRunTask, UpWaitForTask,
     UpRegisterTarget, UpRegistryPut
<1>3. CASE UndoStep(c)
  BY <1>3 DEF UndoStep, UndoTask, UndoRule, UndoTargetGroup, UndoAccessPoint,
      DeleteAccessPoint
<1>4. CASE DownStep(c)
  BY <1>4 DEF DownStep, DownRegistryGet, DownStopTask, DownDeleteRule, DownDeregister,
     DownDeleteTargetGroup, DownReleaseWorkspace, DownRegistryDelete, DeleteAccessPoint
<1>5. CASE UpFails(c) \/ DownFails(c) \/ LambdaDies(c) \/ TaskStarts(c) \/ TaskStops(c)
  <2>1. ~LambdaDies(c) /\ "delete" \notin Faults
    BY DEF LambdaDies
  <2>2. CASE UpFails(c)
    BY <2>2 DEF UpFails, UpSteps
  <2>3. CASE DownFails(c)
    BY <2>1, <2>3 DEF DownFails
  <2> QED
    BY <1>5, <2>1, <2>2, <2>3 DEF TaskStarts, TaskStops, Steps, UpSteps, UndoSteps,
        DownSteps
<1> QED
  BY <1>1, <1>2, <1>3, <1>4, <1>5 DEF Act, Step

(* The workspaces c makes or deletes are its pod's, and it is at work then.*)
LEMMA WorkspaceChanges ==
  ASSUME PodInv, PhaseInv, Promised, NEW c \in Call, Act(c)
  PROVE  /\ \A a \in accessPoints : a \notin accessPoints' =>
              /\ apTags[a].pod = req[c].pod /\ Active(c)
              /\ \/ Goes(c, {"undoAp"}, {"error"}) /\ a = c
                 \/ Goes(c, {"downAp"}, {"downDelete"}) /\ a = entry[c].ap
         /\ \A a \in accessPoints' : a \notin accessPoints \/ apTags'[a] # apTags[a] =>
              a = c /\ Goes(c, {"ap"}, {"taskDef"}) /\ apTags'[c].pod = req[c].pod
<1>0. TypeOK /\ WorkspaceInv /\ StepInv /\ TurnInv /\ SerialInv /\ NoDuplicates
  BY DEF PodInv, Promised, SerialInv
<1> USE <1>0 DEF PhaseInv
<1>1. ASSUME NEW a \in accessPoints, a \notin accessPoints'
      PROVE  /\ apTags[a].pod = req[c].pod /\ Active(c)
             /\ \/ Goes(c, {"undoAp"}, {"error"}) /\ a = c
                \/ Goes(c, {"downAp"}, {"downDelete"}) /\ a = entry[c].ap
  <2>1. CASE Goes(c, {"undoAp"}, {"error"}) /\ "ap" \in held[c] /\ a = c
    BY <2>1 DEF Goes, CreatedIsThere, Constructing, Active, Steps, UndoSteps
  <2>2. CASE Goes(c, {"downAp"}, {"downDelete"}) /\ a = entry[c].ap
    <3>1. Active(c) /\ entry[c] = registry[req[c].pod] /\ req[c].pod \in Pods
      BY <2>2 DEF Goes, Active, Steps, DownSteps, TurnInv, EntryIsRow, TypeOK, Event
    <3> QED
      BY <2>2, <3>1, ConstantsAssumption DEF WorkspaceInv, RowsMatch, TypeOK
  <2> QED
    BY <1>1, <2>1, <2>2, PromisedMoves, WorkspaceMoves DEF Goes
<1>2. ASSUME NEW a \in accessPoints', a \notin accessPoints \/ apTags'[a] # apTags[a]
      PROVE  a = c /\ Goes(c, {"ap"}, {"taskDef"}) /\ apTags'[c].pod = req[c].pod
  BY <1>2, PromisedMoves, WorkspaceMoves DEF Goes, TypeOK
<1> QED
  BY <1>1, <1>2

LEMMA PhaseNext ==
  ASSUME PodInv, PhaseInv, Promised, NEW c \in Call, Act(c) PROVE PhaseInv'
<1>0. TypeOK /\ WorkspaceInv /\ StepInv /\ TurnInv /\ SerialInv
  BY DEF PodInv, Promised
<1> USE <1>0 DEF PhaseInv
<1>1. ASSUME NEW d \in Call, d # c PROVE Same(d)
  BY <1>1, Frame
<1>2. ASSUME NEW d \in Call, Active(c), Active(d), req[c].pod = req[d].pod PROVE c = d
  BY <1>2 DEF TurnInv, Excluded, Promised
<1>3. NoDuplicates
  BY DEF SerialInv
<1>4. ASSUME NEW a \in accessPoints, a \notin accessPoints'
      PROVE  /\ apTags[a].pod = req[c].pod /\ Active(c)
             /\ \/ Goes(c, {"undoAp"}, {"error"}) /\ a = c
                \/ Goes(c, {"downAp"}, {"downDelete"}) /\ a = entry[c].ap
  BY <1>4, WorkspaceChanges
<1>6. ASSUME NEW a \in accessPoints', a \notin accessPoints \/ apTags'[a] # apTags[a]
      PROVE  a = c /\ Goes(c, {"ap"}, {"taskDef"}) /\ apTags'[c].pod = req[c].pod
  BY <1>6, WorkspaceChanges
<1>5. UpsUnregistered'
  <2> SUFFICES ASSUME NEW d \in Call, pc'[d] \in (UpSteps \ {"get"}) \cup UndoSteps
               PROVE  ~Registered(req[d].pod)'
    BY DEF UpsUnregistered
  <2>1. CASE d = c
    <3>1. ~Registered(req[c].pod) /\ req'[c] = req[c]
      BY <1>3, <2>1, OwnMoves, PromisedMoves
      DEF Goes, UpsUnregistered, UpSteps, UndoSteps
    <3> QED
      BY <1>3, <2>1, <3>1, RowMoves, PromisedMoves DEF Goes, Registered, UpSteps,
          UndoSteps
  <2>2. CASE d # c
    <3>1. Same(d) /\ Active(d) /\ ~Registered(req[d].pod) /\ req[d].pod \in Pods
      BY <1>1, <2>2 DEF Same, Active, Steps, UpsUnregistered, UpSteps, UndoSteps,
          TypeOK, Event
    <3>2. pc[c] = "put" => req[c].pod # req[d].pod
      BY <1>2, <2>2, <3>1 DEF Active, Steps, UpSteps
    <3> QED
      BY <3>1, <3>2, RowMoves DEF Registered, Same, TypeOK
  <2> QED
    BY <2>1, <2>2
<1>7. CreatedIsThere'
  <2>1. ASSUME NEW d \in Call, pc'[d] \in Early PROVE "ap" \notin held'[d]
    <3>1. CASE d = c
      BY <2>1, <3>1, OwnMoves DEF Goes, Early, CreatedIsThere, Steps, UpSteps,
          UndoSteps, DownSteps
    <3>2. CASE d # c
      BY <1>1, <2>1, <3>2 DEF Same, CreatedIsThere
    <3> QED
      BY <3>1, <3>2
  <2>2. ASSUME NEW d \in Call, Constructing(d)', "ap" \in held'[d]
        PROVE  d \in accessPoints' /\ apTags'[d].pod = req'[d].pod
    <3>1. CASE Goes(c, {"ap"}, {"taskDef"}) /\ d = c
      BY <3>1, OwnMoves, WorkspaceMoves DEF Goes
    <3>2. CASE Constructing(d) /\ "ap" \in held[d]
      <4>1. d \in accessPoints /\ apTags[d].pod = req[d].pod /\ Active(d) /\ pc[d] # "idle"
        BY <3>2 DEF CreatedIsThere, Constructing, Active, Steps, UpSteps, UndoSteps
      <4>2. req'[d] = req[d]
        BY <1>1, <4>1, OwnMoves DEF Same
      <4>3. d \in accessPoints'
        BY <1>2, <1>4, <2>2, <3>2, <4>1
        DEF Goes, Constructing, UndoSteps, DownSteps
      <4>4. apTags'[d] = apTags[d]
        BY <1>6, <3>2, <4>1, <4>3 DEF Goes, Constructing, UndoSteps
      <4> QED
        BY <4>1, <4>2, <4>3, <4>4
    <3>3. CASE d # c
      BY <1>1, <2>2, <3>2, <3>3 DEF Same, Constructing
    <3>4. CASE d = c /\ ~(Constructing(c) /\ "ap" \in held[c]) /\ ~Goes(c, {"ap"}, {"taskDef"})
      <4>1. "ap" \in held[c]
        BY <2>2, <3>4, OwnMoves DEF Goes
      <4>2. pc[c] \notin Early /\ ~Constructing(c)
        BY <3>4, <4>1 DEF CreatedIsThere
      <4> QED
        BY <2>2, <3>4, <4>2, OwnMoves DEF Goes, Constructing, Early, UndoSteps, Steps,
            UpSteps,
           DownSteps
    <3> QED
      BY <3>1, <3>2, <3>3, <3>4
  <2>3. ASSUME NEW d \in Call, pc'[d] \in Building \cup {"prune"}
        PROVE  accessPointId'[d] \in accessPoints'
    <3>1. CASE pc[d] \in Building \cup {"prune"} /\ accessPointId'[d] = accessPointId[d]
      <4>1. accessPointId[d] \in accessPoints /\ Active(d)
        BY <3>1 DEF CreatedIsThere, Active, Steps, UpSteps, Building
      <4>2. apTags[accessPointId[d]].pod = req[d].pod
        BY <4>1, ConstantsAssumption DEF WorkspaceInv, WorkspaceMatches, TypeOK
      <4>3. ASSUME accessPointId[d] \notin accessPoints' PROVE FALSE
        <5>1. c = d
          BY <1>2, <1>4, <4>1, <4>2, <4>3
        <5> QED
          BY <1>4, <2>3, <3>1, <4>1, <4>3, <5>1 DEF Goes, Building
      <4> QED
        BY <3>1, <4>3
    <3>2. CASE d = c
      <4>1. CASE Goes(c, {"find"}, {"prune"})
        BY <3>2, <4>1, WorkspaceMoves DEF Workspaces, Goes
      <4>2. CASE Goes(c, {"ap"}, {"taskDef"})
        BY <3>2, <4>2, WorkspaceMoves DEF Goes
      <4> QED
        BY <2>3, <3>1, <3>2, <4>1, <4>2, OwnMoves, WorkspaceMoves DEF Goes, Building
    <3>3. CASE d # c
      BY <1>1, <2>3, <3>1, <3>3 DEF Same
    <3> QED
      BY <3>2, <3>3
  <2> QED
    BY <2>1, <2>2, <2>3 DEF CreatedIsThere
<1>8. DownsStopTheTask'
  <2> SUFFICES ASSUME NEW d \in Call, pc'[d] \in DownSteps \ {"downGet", "downTask"}
               PROVE  ~LiveTask(entry[d].task)'
    BY DEF DownsStopTheTask
  <2>1. pc[d] \in DownSteps \ {"downGet"} /\ entry'[d] = entry[d]
    <3>1. CASE d = c
      BY <3>1, OwnMoves, RowMoves DEF Goes, DownSteps
    <3>2. CASE d # c
      BY <1>1, <3>2 DEF Same
    <3> QED
      BY <3>1, <3>2
  <2>2. MadeBy(entry[d], entry[d].task, req[d].pod)
    BY <2>1 DEF StepInv, EntriesNamed
  <2>3. entry[d].task \in Call /\ pc[entry[d].task] \notin UpSteps
    BY <2>2 DEF MadeBy, Putter, Promised, UpSteps
  <2>4. CASE ~LiveTask(entry[d].task)
    BY <2>1, <2>3, <2>4, ServiceFrame DEF LiveTask
  <2>5. CASE LiveTask(entry[d].task)
    <3>1. pc[d] = "downTask"
      BY <2>1, <2>5 DEF DownsStopTheTask
    <3>2. d = c /\ Goes(c, {"downTask"}, {"downRule"})
      BY <1>1, <3>1, OwnMoves DEF Same, Goes, DownSteps
    <3> QED
      BY <2>1, <3>2, TeardownWorks DEF Promised
  <2> QED
    BY <2>4, <2>5
<1>9. ASSUME NEW p \in Pods, Registered(p)', \A d \in On(p)' : ~Released(d)'
      PROVE  registry'[p].ap \in accessPoints'
  <2>1. CASE registry'[p] # registry[p]
    <3>1. pc[c] = "put" /\ registry'[p].ap = accessPointId[c]
      <4>1. RowOf(c).ap = accessPointId[c]
        BY DEF RowOf
      <4> QED
        BY <1>9, <2>1, <4>1, RowMoves DEF Registered, TypeOK
    <3>2. accessPointId[c] \in accessPoints
      BY <3>1 DEF CreatedIsThere, Building
    <3> QED
      BY <1>4, <3>1, <3>2 DEF Goes
  <2>2. CASE registry'[p] = registry[p]
    <3>1. Registered(p)
      BY <1>9, <2>2 DEF Registered
    <3>2. ASSUME NEW d \in On(p), Released(d) PROVE FALSE
      <4>1. d \in Call /\ pc[d] = "downDelete" /\ ~req[d].keep /\ req[d].pod = p
        BY <3>2 DEF On, Released
      <4>2. d = c
        BY <1>1, <1>9, <4>1 DEF On, Released, Same
      <4>3. pc'[c] \in {"downDelete", "ok"} /\ req'[c] = req[c]
        BY <1>3, <4>1, <4>2, OwnMoves, PromisedMoves DEF Goes, Steps, DownSteps
      <4>4. pc'[c] = "ok"
        BY <1>9, <4>1, <4>2, <4>3 DEF On, Released
      <4> QED
        BY <1>9, <4>1, <4>2, <4>4, RowMoves DEF Registered, Goes, TypeOK
    <3>3. registry[p].ap \in accessPoints /\ apTags[registry[p].ap].pod = p
      BY <3>1, <3>2, ConstantsAssumption DEF RowsHaveWorkspace, WorkspaceInv, RowsMatch,
          TypeOK
    <3>4. ASSUME registry[p].ap \notin accessPoints' PROVE FALSE
      <4>1. req[c].pod = p /\ Active(c)
        BY <1>4, <3>3, <3>4
      <4>2. CASE pc[c] = "undoAp"
        BY <3>1, <4>1, <4>2 DEF UpsUnregistered, UndoSteps
      <4>3. CASE Goes(c, {"downAp"}, {"downDelete"})
        <5>1. ~req[c].keep /\ req'[c] = req[c]
          BY <4>3, OwnMoves DEF StepInv, KindsFit, Goes
        <5> QED
          BY <1>9, <4>1, <4>3, <5>1 DEF On, Released, Goes
      <4> QED
        BY <1>4, <3>3, <3>4, <4>2, <4>3 DEF Goes
    <3> QED
      BY <2>2, <3>4
  <2> QED
    BY <2>1, <2>2
<1>10. ASSUME NEW d \in Call, Released(d)' PROVE Workspaces(req[d].pod)' = {}
  <2> SUFFICES ASSUME NEW a \in accessPoints', apTags'[a].pod = req'[d].pod PROVE FALSE
    BY DEF Workspaces
  <2>1. CASE Released(d) /\ req'[d] = req[d]
    <3>1. Workspaces(req[d].pod) = {} /\ Active(d) /\ pc[d] = "downDelete"
      BY <2>1 DEF RowsHaveWorkspace, Released, Active, Steps, DownSteps
    <3>2. a = c /\ Goes(c, {"ap"}, {"taskDef"}) /\ apTags'[c].pod = req[c].pod
      BY <1>6, <2>1, <3>1 DEF Workspaces
    <3>3. Active(c)
      BY <3>2 DEF Active, Goes, Steps, UpSteps
    <3> QED
      BY <1>2, <2>1, <3>1, <3>2, <3>3 DEF Goes
  <2>2. CASE d = c /\ ~(Released(d) /\ req'[d] = req[d])
    <3>1. /\ Goes(c, {"downAp"}, {"downDelete"}) \/ Goes(c, {"downTg"}, {"downDelete"})
          /\ req'[c] = req[c]
      BY <1>10, <2>2, OwnMoves DEF Goes, Released
    <3>2. Goes(c, {"downAp"}, {"downDelete"})
      BY <1>3, <1>10, <2>2, <3>1, PromisedMoves DEF Released
    <3>3. /\ entry[c].ap \in accessPoints /\ accessPoints' = accessPoints \ {entry[c].ap}
          /\ UNCHANGED apTags
      BY <1>3, <3>2, PromisedMoves DEF Goes
    <3>4. apTags[entry[c].ap].pod = req[c].pod
      BY <1>4, <3>3
    <3> QED
      BY <2>2, <3>1, <3>3, <3>4 DEF SerialInv, OneWorkspace
  <2>3. CASE d # c
    BY <1>1, <1>10, <2>1, <2>3 DEF Same, Released
  <2> QED
    BY <2>1, <2>2, <2>3
<1>11. RowsHaveWorkspace'
  BY <1>9, <1>10 DEF RowsHaveWorkspace
<1> QED
  BY <1>5, <1>7, <1>8, <1>11

-----------------------------------------------------------------------------
(* The state a pod is in, by what is at work on it.                        *)

Alone ==
  \A c, d \in Call : c # d /\ Active(c) /\ Active(d) => req[c].pod # req[d].pod

Idle(p) == \A c \in On(p) : ~Dismantling(c) /\ ~Constructing(c)

PhaseFits(p) ==
  /\ \A c \in On(p) :
       /\ Dismantling(c) => PhaseOf(p) = IF req[c].keep THEN "stopping" ELSE "releasing"
       /\ Constructing(c) => PhaseOf(p) = IF "ap" \in held[c] THEN "creating" ELSE "resuming"
  /\ Idle(p) => PhaseOf(p) = IF ~Registered(p) THEN "down"
                             ELSE IF LiveTask(registry[p].task) THEN "running"
                             ELSE "orphaned"

LEMMA PhaseCases == Alone => \A p \in Pods : PhaseFits(p)
<1> SUFFICES ASSUME Alone, NEW p \in Pods PROVE PhaseFits(p)
  OBVIOUS
<1>1. ASSUME NEW c \in On(p), NEW d \in On(p), Dismantling(c) \/ Constructing(c),
             Dismantling(d) \/ Constructing(d)
      PROVE  c = d
  BY <1>1 DEF Alone, On, Dismantling, Constructing, Active, Steps, UpSteps
<1>2. ASSUME NEW c \in On(p) PROVE ~(Dismantling(c) /\ Constructing(c))
  BY DEF Dismantling, Constructing, DownSteps, UndoSteps
<1>3. ASSUME NEW c \in On(p), Dismantling(c)
      PROVE  PhaseOf(p) = IF req[c].keep THEN "stopping" ELSE "releasing"
  <2>1. /\ ~Creating(p) /\ ~Resuming(p)
        /\ (Stopping(p) <=> req[c].keep) /\ (Releasing(p) <=> ~req[c].keep)
    BY <1>1, <1>2, <1>3 DEF Stopping, Releasing, Creating, Resuming
  <2> QED
    BY <2>1 DEF PhaseOf
<1>4. ASSUME NEW c \in On(p), Constructing(c)
      PROVE  PhaseOf(p) = IF "ap" \in held[c] THEN "creating" ELSE "resuming"
  <2>1. /\ ~Stopping(p) /\ ~Releasing(p)
        /\ (Creating(p) <=> "ap" \in held[c]) /\ (Resuming(p) <=> "ap" \notin held[c])
    BY <1>1, <1>2, <1>4 DEF Stopping, Releasing, Creating, Resuming
  <2> QED
    BY <2>1 DEF PhaseOf
<1>5. ASSUME Idle(p)
      PROVE  PhaseOf(p) = IF ~Registered(p) THEN "down"
                          ELSE IF LiveTask(registry[p].task) THEN "running"
                          ELSE "orphaned"
  BY <1>5 DEF Idle, PhaseOf, Stopping, Releasing, Creating, Resuming
<1> QED
  BY <1>3, <1>4, <1>5 DEF PhaseFits

WorkspaceFits(p) ==
  /\ Workspaces(p) = {} => WorkspaceOf(p) = None
  /\ \A a \in Workspaces(p) : WorkspaceOf(p) = a

LEMMA WorkspaceCases == OneWorkspace => \A p \in Pods : WorkspaceFits(p)
<1> SUFFICES ASSUME OneWorkspace, NEW p \in Pods, NEW a \in Workspaces(p)
             PROVE  WorkspaceOf(p) = a
  BY DEF WorkspaceFits, WorkspaceOf
<1>1. Workspaces(p) = {a}
  BY DEF OneWorkspace, Workspaces
<1> QED
  BY <1>1 DEF WorkspaceOf

(* The same of the states after a step.                                    *)
LEMMA CasesAfter ==
  /\ Alone' => (\A p \in Pods : PhaseFits(p))'
  /\ OneWorkspace' => (\A p \in Pods : WorkspaceFits(p))'
BY PhaseCases, WorkspaceCases, PTL

-----------------------------------------------------------------------------
(* One step of the pod-manager is one step of PodStates, or none.          *)

(* The task of a row stops by itself, or because a pod-down stops it.      *)
LEMMA TaskMoves ==
  ASSUME TypeOK, WorkspaceInv, NEW c \in Call, Act(c), NEW t \in Call, LiveTask(t), ~LiveTask(t)'
  PROVE  t = c \/ (pc[c] = "downTask" /\ t = entry[c].task)
<1> USE DEF TypeOK, LiveTask, aws, At
<1>1. CASE StartUp(c) \/ StartDown(c)
  BY <1>1 DEF StartUp, StartDown, Start
<1>2. CASE UpStep(c)
  BY <1>2 DEF UpStep, UpRegistryGet, UpFindWorkspace, UpPruneDuplicate,
     UpReuseWorkspace, UpAllocateUid, UpCreateAccessPoint, UpRegisterTaskDef,
     UpCreateTargetGroup, UpCreateListenerRule, UpRunTask, UpWaitForTask,
     UpRegisterTarget, UpRegistryPut
<1>3. CASE UndoStep(c)
  BY <1>3 DEF UndoStep, UndoTask, UndoRule, UndoTargetGroup, UndoAccessPoint, StopTask,
      Own
<1>4. CASE DownStep(c)
  BY <1>4 DEF DownStep, DownRegistryGet, DownStopTask, DownDeleteRule, DownDeregister,
     DownDeleteTargetGroup, DownReleaseWorkspace, DownRegistryDelete, StopTask
<1>5. CASE UpFails(c) \/ DownFails(c) \/ LambdaDies(c) \/ TaskStarts(c) \/ TaskStops(c)
  BY <1>5 DEF UpFails, DownFails, LambdaDies, TaskStarts, TaskStops
<1> QED
  BY <1>1, <1>2, <1>3, <1>4, <1>5 DEF Act, Step

WorksOn(c, p) == c \in On(p) /\ (Dismantling(c) \/ Constructing(c))

(* A pod c is not at work on, and whose row, row's task and workspaces     *)
(* stay as they are, stays in its state.                                   *)
Untouched(c, q) ==
  /\ \A d \in Call : d # c => Same(d)
  /\ ~WorksOn(c, q) /\ ~WorksOn(c, q)'
  /\ registry'[q] = registry[q] /\ Workspaces(q)' = Workspaces(q)
  /\ Registered(q) => (LiveTask(registry[q].task)' <=> LiveTask(registry[q].task))

LEMMA PodStays ==
  ASSUME NEW c \in Call, NEW q \in Pods, Untouched(c, q)
  PROVE  PhaseOf(q)' = PhaseOf(q) /\ WorkspaceOf(q)' = WorkspaceOf(q)
<1> USE DEF Untouched
<1>1. Stopping(q)' <=> Stopping(q)
  BY DEF Stopping, WorksOn, Same, On, Dismantling, Constructing
<1>2. Releasing(q)' <=> Releasing(q)
  BY DEF Releasing, WorksOn, Same, On, Dismantling, Constructing
<1>3. Creating(q)' <=> Creating(q)
  BY DEF Creating, WorksOn, Same, On, Dismantling, Constructing
<1>4. Resuming(q)' <=> Resuming(q)
  BY DEF Resuming, WorksOn, Same, On, Dismantling, Constructing
<1>5. Registered(q)' <=> Registered(q)
  BY DEF Registered
<1>6. PhaseOf(q)' = PhaseOf(q)
  BY <1>1, <1>2, <1>3, <1>4, <1>5 DEF PhaseOf
<1> QED
  BY <1>6 DEF WorkspaceOf

(* The row's task goes on or stays stopped.                                *)
LEMMA RowTaskStays ==
  ASSUME PodInv, Promised, NEW c \in Call, Act(c), NEW q \in Pods, Registered(q),
         registry'[q] = registry[q], registry[q].task # c,
         ~(pc[c] = "downTask" /\ req[c].pod = q)
  PROVE  LiveTask(registry[q].task)' <=> LiveTask(registry[q].task)
<1>0. TypeOK /\ WorkspaceInv /\ StepInv
  BY DEF PodInv
<1>1. PICK t \in Call : t = registry[q].task /\ req[t].pod = q
  BY <1>0 DEF StepInv, RowsNamed, MadeBy
<1>2. pc[c] = "downTask" => entry[c].task # t
  <2>1. ASSUME pc[c] = "downTask" PROVE req[entry[c].task].pod = req[c].pod
    BY <1>0, <2>1 DEF StepInv, EntriesNamed, MadeBy, DownSteps
  <2> QED
    BY <1>1, <2>1
<1>3. LiveTask(t)' <=> LiveTask(t)
  BY <1>0, <1>1, <1>2, TaskMoves, ServiceFrame
<1> QED
  BY <1>1, <1>3

(* No AWS call for one pod changes the state of another.                   *)
LEMMA Elsewhere ==
  ASSUME PodInv, PhaseInv, Promised, NEW c \in Call, Act(c), NEW q \in Pods,
         pc[c] = "idle" \/ req[c].pod # q
  PROVE  PhaseOf(q)' = PhaseOf(q) /\ WorkspaceOf(q)' = WorkspaceOf(q)
<1>0. TypeOK /\ WorkspaceInv /\ StepInv /\ SerialInv
  BY DEF PodInv, Promised
<1> USE <1>0
<1>1. \A d \in Call : d # c => Same(d)
  BY Frame
<1>2. registry'[q] = registry[q]
  BY RowMoves DEF TypeOK
<1>3. ~WorksOn(c, q) /\ ~WorksOn(c, q)'
  BY OwnMoves DEF WorksOn, On, Goes, Dismantling, Constructing, UndoSteps, DownSteps
<1>4. ASSUME Active(c) PROVE req[c].pod # q
  BY <1>4 DEF Active, Steps, UpSteps, UndoSteps, DownSteps
<1>5. Workspaces(q)' = Workspaces(q)
  <2>1. ASSUME NEW a \in Workspaces(q) PROVE a \in Workspaces(q)'
    <3>1. a \in accessPoints /\ a \in accessPoints' /\ apTags[a].pod = q
      BY <1>4, <2>1, WorkspaceChanges DEF Workspaces
    <3>2. a # c \/ ~Active(c)
      BY <1>4, <3>1, ConstantsAssumption DEF SerialInv, TagsFit
    <3>3. apTags'[a] = apTags[a]
      BY <3>1, <3>2, WorkspaceChanges DEF Goes, Active, Steps, UpSteps
    <3> QED
      BY <3>1, <3>3 DEF Workspaces
  <2>2. ASSUME NEW a \in Workspaces(q)' PROVE a \in Workspaces(q)
    BY <1>4, <2>2, WorkspaceChanges DEF Workspaces, Goes, Active, Steps, UpSteps
  <2> QED
    BY <2>1, <2>2
<1>6. Registered(q) => registry[q].task # c
  BY DEF StepInv, RowsNamed, MadeBy, Putter, Promised
<1>7. Untouched(c, q)
  BY <1>1, <1>2, <1>3, <1>5, <1>6, RowTaskStays DEF Untouched
<1> QED
  BY <1>7, PodStays

PhaseFn     == [p \in Pods |-> PhaseOf(p)]
WorkspaceFn == [p \in Pods |-> WorkspaceOf(p)]
UsedSet     == {a \in Call : apTags[a] # NoTags}

(* What to show of the pod a step is about, when the others stay.          *)
LEMMA PodSteps ==
  ASSUME NEW p \in Pods,
         \A q \in Pods \ {p} : PhaseOf(q)' = PhaseOf(q) /\ WorkspaceOf(q)' = WorkspaceOf(q)
  PROVE  /\ UsedSet' = UsedSet /\ WorkspaceOf(p)' = WorkspaceOf(p) =>
              /\ PhaseOf(p)' = PhaseOf(p) => UNCHANGED <<PhaseFn, WorkspaceFn, UsedSet>>
              /\ PhaseOf(p) = "down" /\ PhaseOf(p)' = "resuming" /\ WorkspaceOf(p) # None =>
                   States!Resume(p)
              /\ PhaseOf(p) \in {"creating", "resuming"}
                 /\ PhaseOf(p)' \in {"running", "orphaned"} => States!Serve(p)
              /\ PhaseOf(p) = "resuming" /\ PhaseOf(p)' = "down" => States!UndoResume(p)
              /\ PhaseOf(p) = "running" /\ PhaseOf(p)' = "orphaned" => States!TaskDies(p)
              /\ PhaseOf(p) \in {"running", "orphaned"}
                 /\ PhaseOf(p)' \in {"stopping", "releasing"} => States!Stop(p)
              /\ PhaseOf(p) \in {"stopping", "releasing"} /\ PhaseOf(p)' = "orphaned"
                 /\ WorkspaceOf(p) # None => States!Abort(p)
              /\ \/ PhaseOf(p) = "stopping"
                 \/ PhaseOf(p) = "releasing" /\ WorkspaceOf(p) = None
                 => (PhaseOf(p)' = "down" => States!Finish(p))
         /\ UsedSet' = UsedSet /\ WorkspaceOf(p)' = None =>
              /\ PhaseOf(p) = "creating" /\ PhaseOf(p)' = "down" => States!UndoCreate(p)
              /\ PhaseOf(p) = "releasing" /\ PhaseOf(p)' = "releasing" => States!Release(p)
         /\ /\ PhaseOf(p) = "down" /\ PhaseOf(p)' = "creating" /\ WorkspaceOf(p) = None
            /\ \E w \in Call \ UsedSet :
                 WorkspaceOf(p)' = w /\ UsedSet' = UsedSet \cup {w}
            => States!Create(p)
<1>1. /\ PhaseFn' = [PhaseFn EXCEPT ![p] = PhaseOf(p)']
      /\ WorkspaceFn' = [WorkspaceFn EXCEPT ![p] = WorkspaceOf(p)']
      /\ PhaseFn[p] = PhaseOf(p) /\ WorkspaceFn[p] = WorkspaceOf(p)
      /\ PhaseOf(p)' = PhaseOf(p) => PhaseFn' = PhaseFn
      /\ WorkspaceOf(p)' = WorkspaceOf(p) => WorkspaceFn' = WorkspaceFn
  BY DEF PhaseFn, WorkspaceFn
<1> QED
  BY <1>1 DEF States!Resume, States!Serve, States!UndoResume, States!TaskDies,
      States!Stop,
     States!Abort, States!Finish, States!UndoCreate, States!Release, States!Create,
     States!Enter, PhaseFn, WorkspaceFn, UsedSet

(* The pod c's step is about.                                              *)
LEMMA OwnPod ==
  ASSUME PodInv, PhaseInv, Promised, NEW c \in Call, Act(c), pc[c] # "idle",
         NEW p \in Pods, p = req[c].pod
  PROVE  /\ WorkspaceFits(p) /\ WorkspaceFits(p)' /\ PhaseFits(p) /\ PhaseFits(p)'
         /\ Dismantling(c) => PhaseOf(p) = IF req[c].keep THEN "stopping" ELSE "releasing"
         /\ Dismantling(c)' => PhaseOf(p)' = IF req[c].keep THEN "stopping" ELSE "releasing"
         /\ Constructing(c) => PhaseOf(p) = IF "ap" \in held[c] THEN "creating" ELSE "resuming"
         /\ Constructing(c)' =>
              PhaseOf(p)' = IF "ap" \in held'[c] THEN "creating" ELSE "resuming"
         /\ Active(c) /\ ~Dismantling(c) /\ ~Constructing(c) =>
              PhaseOf(p) = IF ~Registered(p) THEN "down"
                           ELSE IF LiveTask(registry[p].task) THEN "running" ELSE "orphaned"
         /\ Active(c) /\ ~Dismantling(c)' /\ ~Constructing(c)' =>
              PhaseOf(p)' = IF registry'[p] = NoRow THEN "down"
                            ELSE IF LiveTask(registry[p].task)' THEN "running" ELSE "orphaned"
         /\ pc[c] \in (UpSteps \ {"get"}) \cup UndoSteps => ~Registered(p)
         /\ pc[c] \in DownSteps \ {"downGet"} => entry[c] = registry[p] /\ Registered(p)
         /\ registry'[p] = registry[p] \/ Goes(c, {"put", "downDelete"}, {"ok"})
         /\ WorkspaceOf(p)' = WorkspaceOf(p) \/ Goes(c, {"ap"}, {"taskDef"})
            \/ Goes(c, {"undoAp"}, {"error"}) \/ Goes(c, {"downAp"}, {"downDelete"})
         /\ UsedSet' = UsedSet \/ Goes(c, {"ap"}, {"taskDef"})
<1>0. /\ TypeOK /\ WorkspaceInv /\ StepInv /\ TurnInv /\ SerialInv /\ NoDuplicates
      /\ Alone /\ OneWorkspace
  BY DEF PodInv, Promised, SerialInv, TurnInv, Excluded, Alone
<1>1. Alone' /\ OneWorkspace'
  <2>1. PodInv'
    BY PodInvNext, NextIsAct
  <2> QED
    BY <2>1 DEF PodInv, Promised, SerialInv, TurnInv, Excluded, Alone
<1> USE <1>0
<1>2. \A d \in Call : d # c => Same(d)
  BY Frame
<1>3. PhaseFits(p) /\ PhaseFits(p)' /\ WorkspaceFits(p) /\ WorkspaceFits(p)'
  BY <1>1, PhaseCases, WorkspaceCases, CasesAfter
<1>4. c \in On(p) /\ c \in On(p)' /\ req'[c] = req[c]
  <2>1. req'[c] = req[c] /\ pc'[c] # "idle"
    BY OwnMoves DEF Goes
  <2> QED
    BY <2>1 DEF On
<1>5. Active(c) /\ ~Dismantling(c) /\ ~Constructing(c) => Idle(p)
  BY DEF Idle, Alone, On, Active, Steps, Dismantling, Constructing, UpSteps
<1>6. Active(c) /\ ~Dismantling(c)' /\ ~Constructing(c)' => Idle(p)'
  <2> SUFFICES ASSUME Active(c), ~Dismantling(c)', ~Constructing(c)', NEW d \in On(p)',
                      Dismantling(d)' \/ Constructing(d)'
               PROVE  FALSE
    BY DEF Idle
  <2>1. d \in Call /\ d # c
    BY DEF On
  <2>2. d \in On(p) /\ Active(d)
    BY <1>2, <2>1 DEF On, Same, Active, Steps, Dismantling, Constructing, UpSteps
  <2> QED
    BY <2>1, <2>2 DEF Alone, On
<1>7. /\ pc[c] \in (UpSteps \ {"get"}) \cup UndoSteps => ~Registered(p)
      /\ pc[c] \in DownSteps \ {"downGet"} => entry[c] = registry[p] /\ Registered(p)
  BY DEF PhaseInv, UpsUnregistered, TurnInv, EntryIsRow, StepInv, EntriesNamed, Registered
<1>8. registry'[p] = registry[p] \/ Goes(c, {"put", "downDelete"}, {"ok"})
  BY RowMoves DEF Goes, Promised
<1>9. \/ UNCHANGED <<accessPoints, apTags>> \/ Goes(c, {"ap"}, {"taskDef"})
      \/ (Goes(c, {"undoAp"}, {"error"}) \/ Goes(c, {"downAp"}, {"downDelete"}))
         /\ UNCHANGED apTags
  BY PromisedMoves
<1>10. WorkspaceOf(p)' = WorkspaceOf(p) \/ Goes(c, {"ap"}, {"taskDef"})
       \/ Goes(c, {"undoAp"}, {"error"}) \/ Goes(c, {"downAp"}, {"downDelete"})
  <2>1. UNCHANGED <<accessPoints, apTags>> => Workspaces(p)' = Workspaces(p)
    BY DEF Workspaces
  <2>2. Workspaces(p)' = Workspaces(p) => WorkspaceOf(p)' = WorkspaceOf(p)
    BY DEF WorkspaceOf
  <2> QED
    BY <1>9, <2>1, <2>2
<1>11. UsedSet' = UsedSet \/ Goes(c, {"ap"}, {"taskDef"})
  BY <1>9 DEF UsedSet
<1>12. /\ Dismantling(c) => PhaseOf(p) = IF req[c].keep THEN "stopping" ELSE "releasing"
       /\ Constructing(c) => PhaseOf(p) = IF "ap" \in held[c] THEN "creating" ELSE "resuming"
       /\ Active(c) /\ ~Dismantling(c) /\ ~Constructing(c) =>
              PhaseOf(p) = IF ~Registered(p) THEN "down"
                           ELSE IF LiveTask(registry[p].task) THEN "running" ELSE "orphaned"
  BY <1>3, <1>4, <1>5 DEF PhaseFits
<1>13. /\ Dismantling(c)' => PhaseOf(p)' = IF req[c].keep THEN "stopping" ELSE "releasing"
       /\ Constructing(c)' =>
              PhaseOf(p)' = IF "ap" \in held'[c] THEN "creating" ELSE "resuming"
       /\ Active(c) /\ ~Dismantling(c)' /\ ~Constructing(c)' =>
              PhaseOf(p)' = IF registry'[p] = NoRow THEN "down"
                            ELSE IF LiveTask(registry[p].task)' THEN "running" ELSE "orphaned"
  BY <1>3, <1>4, <1>6 DEF PhaseFits, Registered
<1> QED
  BY <1>3, <1>7, <1>8, <1>10, <1>11, <1>12, <1>13

LEMMA Simulation ==
  ASSUME PodInv, PhaseInv, Promised, NEW c \in Call, Act(c)
  PROVE  States!Next \/ UNCHANGED <<PhaseFn, WorkspaceFn, UsedSet>>
<1>0. TypeOK /\ WorkspaceInv /\ StepInv /\ TurnInv /\ SerialInv /\ NoDuplicates
  BY DEF PodInv, Promised, SerialInv
<1> USE <1>0 DEF PhaseInv
<1>1. CASE pc[c] = "idle"
  <2>1. PhaseFn' = PhaseFn /\ WorkspaceFn' = WorkspaceFn
    BY <1>1, Elsewhere DEF PhaseFn, WorkspaceFn
  <2>2. UNCHANGED apTags
    BY <1>1, PromisedMoves DEF Goes
  <2> QED
    BY <2>1, <2>2 DEF UsedSet
<1>2. CASE pc[c] # "idle"
  <2>1. PICK p \in Pods : p = req[c].pod
    BY <1>2 DEF TypeOK, Event
  <2>2. \A q \in Pods \ {p} : PhaseOf(q)' = PhaseOf(q) /\ WorkspaceOf(q)' = WorkspaceOf(q)
    BY <2>1, Elsewhere
  <2>3. /\ WorkspaceFits(p) /\ WorkspaceFits(p)' /\ PhaseFits(p) /\ PhaseFits(p)'
        /\ Dismantling(c) => PhaseOf(p) = IF req[c].keep THEN "stopping" ELSE "releasing"
        /\ Dismantling(c)' => PhaseOf(p)' = IF req[c].keep THEN "stopping" ELSE "releasing"
        /\ Constructing(c) => PhaseOf(p) = IF "ap" \in held[c] THEN "creating" ELSE "resuming"
        /\ Constructing(c)' =>
             PhaseOf(p)' = IF "ap" \in held'[c] THEN "creating" ELSE "resuming"
        /\ Active(c) /\ ~Dismantling(c) /\ ~Constructing(c) =>
             PhaseOf(p) = IF ~Registered(p) THEN "down"
                          ELSE IF LiveTask(registry[p].task) THEN "running" ELSE "orphaned"
        /\ Active(c) /\ ~Dismantling(c)' /\ ~Constructing(c)' =>
             PhaseOf(p)' = IF registry'[p] = NoRow THEN "down"
                           ELSE IF LiveTask(registry[p].task)' THEN "running" ELSE "orphaned"
        /\ pc[c] \in (UpSteps \ {"get"}) \cup UndoSteps => ~Registered(p)
        /\ pc[c] \in DownSteps \ {"downGet"} => entry[c] = registry[p] /\ Registered(p)
        /\ registry'[p] = registry[p] \/ Goes(c, {"put", "downDelete"}, {"ok"})
        /\ WorkspaceOf(p)' = WorkspaceOf(p) \/ Goes(c, {"ap"}, {"taskDef"})
           \/ Goes(c, {"undoAp"}, {"error"}) \/ Goes(c, {"downAp"}, {"downDelete"})
        /\ UsedSet' = UsedSet \/ Goes(c, {"ap"}, {"taskDef"})
    BY <1>2, <2>1, OwnPod
  (* How c's step moves its pod. *)
  <2> DEFINE Moves(from, to) == PhaseOf(p) \in from /\ PhaseOf(p)' \in to
             Still == UsedSet' = UsedSet /\ WorkspaceOf(p)' = WorkspaceOf(p)
  <2>4. ASSUME Still, PhaseOf(p)' = PhaseOf(p) PROVE UNCHANGED <<PhaseFn, WorkspaceFn, UsedSet>>
    BY <2>2, <2>4, PodSteps
  (* A pod-up takes its workspace. *)
  <2>5. CASE Goes(c, {"prune"}, {"taskDef"})
    <3>1. Moves({"down"}, {"resuming"}) /\ Still
      <4>1. "ap" \notin held'[c]
        BY <2>5, OwnMoves DEF Goes, CreatedIsThere, Early
      <4> QED
        BY <2>3, <2>5, <4>1 DEF Goes, Active, Steps, UpSteps, UndoSteps, Constructing,
           Dismantling, DownSteps
    <3>2. WorkspaceOf(p) # None
      <4>1. accessPointId[c] \in Workspaces(p)
        BY <2>1, <2>5, ConstantsAssumption
        DEF CreatedIsThere, Goes, Building, WorkspaceInv, WorkspaceMatches, Workspaces,
            TypeOK
      <4> QED
        BY <2>3, <4>1, ConstantsAssumption DEF WorkspaceFits, Workspaces, TypeOK
    <3> QED
      BY <2>2, <3>1, <3>2, PodSteps DEF States!Next
  <2>6. CASE Goes(c, {"ap"}, {"taskDef"})
    <3>1. Moves({"down"}, {"creating"})
      <4>1. "ap" \in held'[c]
        BY <2>6, PromisedMoves DEF Goes
      <4> QED
        BY <2>3, <2>6, <4>1 DEF Goes, Active, Steps, UpSteps, UndoSteps, Constructing,
           Dismantling, DownSteps
    <3>2. WorkspaceOf(p) = None
      BY <2>1, <2>3, <2>6 DEF Goes, SerialInv, NoneFound, WorkspaceFits
    <3>3. /\ c \in accessPoints' /\ apTags'[c].pod = p
          /\ apTags' = [apTags EXCEPT ![c] = apTags'[c]]
      BY <2>1, <2>6, WorkspaceMoves DEF Goes
    <3>4. WorkspaceOf(p)' = c
      BY <2>3, <3>3 DEF WorkspaceFits, Workspaces
    <3>5. c \notin UsedSet /\ UsedSet' = UsedSet \cup {c}
      BY <2>6, <3>3, ConstantsAssumption
      DEF UsedSet, TypeOK, WorkspaceInv, NothingMadeYet, Early, Goes, NoTags
    <3> QED
      BY <2>2, <3>1, <3>2, <3>4, <3>5, PodSteps DEF States!Next
  (* It answers. *)
  <2>7. CASE Goes(c, {"put"}, {"ok"})
    <3>1. registry'[p] # NoRow
      <4>1. RowOf(c).task # None
        BY <2>7, ConstantsAssumption
        DEF Goes, StepInv, HeldWhenDone, AfterRun, RowOf, Own
      <4> QED
        BY <2>1, <2>7, <4>1, RowMoves DEF Goes, NoRow, TypeOK
    <3>2. Moves({"creating", "resuming"}, {"running", "orphaned"}) /\ Still
      BY <2>3, <2>7, <3>1
      DEF Goes, Active, Steps, UpSteps, UndoSteps, Constructing,
         Dismantling, DownSteps
    <3> QED
      BY <2>2, <3>2, PodSteps DEF States!Next
  (* It has rolled back. *)
  <2>8. CASE Goes(c, {"undoAp"}, {"error"})
    <3>1. CASE "ap" \in held[c]
      <4>1. Moves({"creating"}, {"down"}) /\ UsedSet' = UsedSet
        BY <2>3, <2>8, <3>1
        DEF Goes, Active, Steps, UpSteps, UndoSteps, Constructing,
         Dismantling, DownSteps, Registered
      <4>2. c \in accessPoints /\ apTags[c].pod = p
        BY <2>1, <2>8, <3>1 DEF Goes, CreatedIsThere, Constructing, UndoSteps
      <4>3. accessPoints' = accessPoints \ {c} /\ UNCHANGED apTags
        BY <2>8, <3>1, PromisedMoves DEF Goes
      <4>4. WorkspaceOf(p)' = None
        BY <2>3, <4>2, <4>3 DEF SerialInv, OneWorkspace, WorkspaceFits, Workspaces
      <4> QED
        BY <2>2, <4>1, <4>4, PodSteps DEF States!Next
    <3>2. CASE "ap" \notin held[c]
      <4>1. Moves({"resuming"}, {"down"}) /\ UsedSet' = UsedSet
        BY <2>3, <2>8, <3>2
        DEF Goes, Active, Steps, UpSteps, UndoSteps, Constructing,
         Dismantling, DownSteps, Registered
      <4>2. UNCHANGED <<accessPoints, apTags>>
        BY <2>8, <3>2, PromisedMoves DEF Goes
      <4>3. Workspaces(p)' = Workspaces(p)
        BY <4>2 DEF Workspaces
      <4>4. WorkspaceOf(p)' = WorkspaceOf(p)
        BY <4>3 DEF WorkspaceOf
      <4> QED
        BY <2>2, <4>1, <4>4, PodSteps DEF States!Next
    <3> QED
      BY <3>1, <3>2
  (* A pod-down reads the row, ... *)
  <2>9. CASE Goes(c, {"downGet"}, {"downTask"})
    <3>1. Registered(p)
      BY <2>1, <2>9, RowMoves DEF Goes
    <3>2. Moves({"running", "orphaned"}, {"stopping", "releasing"}) /\ Still
      BY <2>3, <2>9, <3>1
      DEF Goes, Active, Steps, UpSteps, UndoSteps, Constructing,
         Dismantling, DownSteps
    <3> QED
      BY <2>2, <3>2, PodSteps DEF States!Next
  (* ... releases the workspace, ... *)
  <2>10. CASE Goes(c, {"downAp"}, {"downDelete"})
    <3>1. Moves({"releasing"}, {"releasing"}) /\ UsedSet' = UsedSet
      BY <2>3, <2>10
      DEF Goes, Active, Steps, UpSteps, UndoSteps, Constructing,
         Dismantling, DownSteps, StepInv, KindsFit
    <3>2. /\ entry[c].ap \in accessPoints /\ accessPoints' = accessPoints \ {entry[c].ap}
          /\ UNCHANGED apTags
      BY <2>10, PromisedMoves DEF Goes
    <3>3. apTags[entry[c].ap].pod = p
      BY <2>1, <3>2, WorkspaceChanges
    <3>4. WorkspaceOf(p)' = None
      BY <2>3, <3>2, <3>3 DEF SerialInv, OneWorkspace, WorkspaceFits, Workspaces
    <3> QED
      BY <2>2, <3>1, <3>4, PodSteps DEF States!Next
  (* ... fails half-way, ... *)
  <2>11. CASE Goes(c, {"downTarget", "downAp"}, {"error"})
    <3>1. registry[p].ap \in Workspaces(p)
      <4>1. ASSUME NEW d \in On(p) PROVE ~Released(d)
        BY <1>2, <2>1, <2>11, <4>1
        DEF On, Released, TurnInv, Excluded, Promised, Goes, Active, Steps, DownSteps
      <4> QED
        BY <2>3, <2>11, <4>1, ConstantsAssumption
        DEF Goes, DownSteps, RowsHaveWorkspace, WorkspaceInv, RowsMatch, Workspaces,
            TypeOK
    <3>2. WorkspaceOf(p) # None
      BY <2>3, <3>1, ConstantsAssumption DEF WorkspaceFits, Workspaces, TypeOK
    <3>3. pc[c] = "downTarget"
      BY <2>3, <2>11, <3>1, PromisedMoves DEF Goes, DownSteps, Workspaces
    <3>4. PICK t \in Call : t = registry[p].task
      BY <2>3, <3>3 DEF DownSteps, StepInv, RowsNamed, MadeBy
    <3>5. ~LiveTask(t)'
      BY <2>3, <3>3, <3>4, ServiceFrame DEF DownsStopTheTask, DownSteps, UpSteps
    <3>6. ~LiveTask(registry[p].task)' /\ registry'[p] # NoRow
      BY <2>3, <3>3, <3>4, <3>5 DEF Goes, LiveTask, Registered, DownSteps
    <3>7. Moves({"stopping", "releasing"}, {"orphaned"}) /\ Still
      BY <2>3, <2>11, <3>3, <3>6
      DEF Goes, Active, Steps, UpSteps, UndoSteps, Constructing,
         Dismantling, DownSteps
    <3> QED
      BY <2>2, <3>2, <3>7, PodSteps DEF States!Next
  (* ... or deletes the row. *)
  <2>12. CASE Goes(c, {"downDelete"}, {"ok"})
    <3>1. /\ Moves({"stopping"}, {"down"}) \/ (Moves({"releasing"}, {"down"}) /\ WorkspaceOf(p) = None)
          /\ Still
      <4>1. registry'[p] = NoRow
        BY <2>1, <2>12, RowMoves DEF Goes, TypeOK
      <4>2. ~req[c].keep => Workspaces(p) = {}
        BY <2>1, <2>12 DEF Goes, RowsHaveWorkspace, Released
      <4> QED
        BY <2>3, <2>12, <4>1, <4>2
        DEF Goes, Active, Steps, UpSteps, UndoSteps, Constructing,
         Dismantling, DownSteps, WorkspaceFits
    <3> QED
      BY <2>2, <3>1, PodSteps DEF States!Next
  (* The rest of what the handlers do moves no pod. *)
  <2>13. CASE \/ Goes(c, Building \ {"put"}, Building \cup {"undoTask"})
              \/ Goes(c, {"put"}, {"undoTask"}) \/ Goes(c, UndoSteps, UndoSteps)
              \/ Goes(c, DownSteps \ {"downGet", "downAp"}, DownSteps \ {"downGet"})
    <3>1. "ap" \in held'[c] <=> "ap" \in held[c]
      BY <2>13, OwnMoves DEF Goes, Building, UndoSteps, DownSteps
    <3>2. PhaseOf(p)' = PhaseOf(p) /\ Still
      BY <2>3, <2>13, <3>1
      DEF Goes, Active, Steps, UpSteps, UndoSteps, Constructing,
         Dismantling, DownSteps, Building
    <3> QED
      BY <2>4, <3>2
  <2>14. CASE Goes(c, Early \cup {"downGet"}, Early \cup Answers)
    <3>1. registry'[p] = registry[p]
      BY <2>3, <2>14 DEF Goes, Early
    <3>2. Registered(p) => registry[p].task # c
      BY <2>14 DEF Goes, Early, StepInv, RowsNamed, MadeBy, Putter, Promised
    <3>3. Registered(p) => (LiveTask(registry[p].task)' <=> LiveTask(registry[p].task))
      BY <2>14, <3>1, <3>2, RowTaskStays DEF Goes, Early
    <3>4. PhaseOf(p)' = PhaseOf(p)
      BY <1>2, <2>3, <2>14, <3>1, <3>3
      DEF Goes, Active, Steps, UpSteps, UndoSteps, Constructing,
         Dismantling, DownSteps, Early, Answers, Registered
    <3>5. Still
      BY <2>3, <2>14 DEF Goes, Early, Answers
    <3> QED
      BY <2>4, <3>4, <3>5
  <2>15. CASE pc'[c] = pc[c]
    <3>1. /\ registry'[p] = registry[p] /\ Still
          /\ "ap" \in held'[c] <=> "ap" \in held[c]
      BY <2>3, <2>15, OwnMoves DEF Goes
    <3>2. CASE Dismantling(c) \/ Constructing(c)
      <4>1. PhaseOf(p)' = PhaseOf(p)
        BY <2>3, <2>15, <3>1, <3>2 DEF Dismantling, Constructing
      <4> QED
        BY <2>4, <3>1, <4>1
    <3>3. CASE ~Dismantling(c) /\ ~Constructing(c)
      <4>1. ~WorksOn(c, p) /\ ~WorksOn(c, p)' /\ pc[c] # "downTask"
        BY <2>15, <3>3 DEF WorksOn, Dismantling, Constructing, DownSteps
      <4>2. Workspaces(p)' = Workspaces(p)
        BY <2>15, PromisedMoves DEF Goes, Workspaces
      <4>3. \A d \in Call : d # c => Same(d)
        BY Frame
      <4>4. CASE Registered(p) => (LiveTask(registry[p].task)' <=> LiveTask(registry[p].task))
        <5>1. Untouched(c, p)
          BY <3>1, <4>1, <4>2, <4>3, <4>4 DEF Untouched
        <5> QED
          BY <2>4, <3>1, <5>1, PodStays
      (* The task of this pod's row has stopped by itself. *)
      <4>5. CASE Registered(p) /\ ~(LiveTask(registry[p].task)' <=> LiveTask(registry[p].task))
        <5>1. registry[p].task = c
          BY <3>1, <4>1, <4>5, RowTaskStays
        <5>2. registry'[p].task = c
          BY <3>1, <5>1
        <5>3. LiveTask(c) /\ ~LiveTask(c)'
          <6>1. pc[c] \notin UpSteps
            BY <4>5, <5>1 DEF StepInv, RowsNamed, MadeBy, Putter, Promised, UpSteps
          <6> QED
            BY <4>5, <5>1, <5>2, <6>1, ServiceFrame DEF LiveTask
        <5>4. CASE Idle(p)
          <6>1. Idle(p)'
            BY <2>15, <3>3, <4>3, <5>4 DEF Idle, On, Same, Dismantling, Constructing
          <6>2. Moves({"running"}, {"orphaned"})
            BY <2>3, <3>1, <4>5, <5>1, <5>2, <5>3, <5>4, <6>1
            DEF PhaseFits, Registered, LiveTask
          <6> QED
            BY <2>2, <3>1, <6>2, PodSteps DEF States!Next
        <5>5. CASE ~Idle(p)
          <6>1. PICK d \in On(p) : Dismantling(d) \/ Constructing(d)
            BY <5>5 DEF Idle
          <6>2. d # c /\ Same(d)
            BY <3>3, <4>3, <6>1 DEF On
          <6>3. d \in On(p)' /\ (Dismantling(d)' <=> Dismantling(d))
                /\ (Constructing(d)' <=> Constructing(d))
            BY <6>1, <6>2 DEF On, Same, Dismantling, Constructing
          <6>4. PhaseOf(p)' = PhaseOf(p)
            BY <2>3, <6>1, <6>2, <6>3 DEF PhaseFits, Same
          <6> QED
            BY <2>4, <3>1, <6>4
        <5> QED
          BY <5>4, <5>5
      <4> QED
        BY <4>4, <4>5
    <3> QED
      BY <3>2, <3>3
  <2> QED
    BY <1>2, <2>5, <2>6, <2>7, <2>8, <2>9, <2>10, <2>11, <2>12, <2>13, <2>14, <2>15,
        OwnMoves, PromisedMoves
    DEF Goes, Building, Early, Place, UndoSteps, DownSteps, UpSteps, Steps, Answers
<1> QED
  BY <1>1, <1>2

LEMMA SimulatedInit == Init => States!Init
<1> SUFFICES ASSUME Init PROVE States!Init
  OBVIOUS
<1>1. ASSUME NEW p \in Pods
      PROVE  On(p) = {} /\ ~Registered(p) /\ Workspaces(p) = {}
  BY <1>1 DEF Init, On, Registered, Workspaces
<1>2. ASSUME NEW p \in Pods PROVE PhaseOf(p) = "down" /\ WorkspaceOf(p) = None
  BY <1>1 DEF PhaseOf, Stopping, Releasing, Creating, Resuming, WorkspaceOf
<1>3. UsedSet = {}
  BY DEF Init, UsedSet
<1> QED
  BY <1>2, <1>3 DEF States!Init, UsedSet

LEMMA PhaseStutters == PhaseInv /\ UNCHANGED vars =>
  PhaseInv' /\ UNCHANGED <<PhaseFn, WorkspaceFn, UsedSet>>
<1> SUFFICES ASSUME PhaseInv, UNCHANGED vars
             PROVE  PhaseInv' /\ UNCHANGED <<PhaseFn, WorkspaceFn, UsedSet>>
  OBVIOUS
<1>1. PhaseInv'
  BY StutterKeeps DEF PhaseInv, UpsUnregistered, CreatedIsThere, RowsHaveWorkspace,
     DownsStopTheTask, Registered, Constructing, On, Released, Workspaces, LiveTask
<1>2. UNCHANGED <<PhaseFn, WorkspaceFn, UsedSet>>
  BY StutterKeeps DEF PhaseFn, WorkspaceFn, UsedSet, PhaseOf, WorkspaceOf, Workspaces,
     Stopping, Releasing, Creating, Resuming, On, Dismantling, Constructing, Registered,
     LiveTask
<1> QED
  BY <1>1, <1>2

(* While no two invocations on one pod overlap, teardown calls succeed and *)
(* Lambda kills none, the pod-manager implements the state machine of      *)
(* docs/diagrams/pod-lifecycle: every AWS call of podUp and podDown,       *)
(* every failed one and every task that stops is one of its steps on one   *)
(* pod, or leaves all of them where they are.                              *)
THEOREM PodManagerImplementsPodStates ==
  ASSUME Overlap = "none", Faults \subseteq {"create", "stop"}
  PROVE  Spec => ImplementsPodStates
<1>1. Promised
  BY DEF Promised
<1>2. Init => PodInv /\ PhaseInv /\ States!Init
  BY PodInvInit, PhaseInit, SimulatedInit
<1>3. PodInv /\ PhaseInv /\ [Next]_vars => PhaseInv'
  BY <1>1, PhaseNext, PhaseStutters, NextIsAct
<1>4. PodInv /\ PhaseInv /\ [Next]_vars =>
        States!Next \/ UNCHANGED <<PhaseFn, WorkspaceFn, UsedSet>>
  BY <1>1, Simulation, PhaseStutters, NextIsAct
<1>5. PodInv /\ PhaseInv /\ [Next]_vars => [States!Next]_(States!vars)
  BY <1>4 DEF States!vars, PhaseFn, WorkspaceFn, UsedSet
<1> QED
  BY <1>2, <1>3, <1>5, PodInvNext, PTL DEF Spec, ImplementsPodStates, States!Spec

-----------------------------------------------------------------------------
(* The idle reaper: the same guarantees beside it, and its warnings, for   *)
(* any number of users, pods and pod-downs of the reaper.                  *)

(* A scan past the metric works on one pod, which is off its list.         *)
ScanFits ==
  /\ scan.at \in {"clear", "mark", "notify", "invoke", "answer"} =>
       scan.pod \in Pods /\ scan.pod \notin scan.todo
  /\ scan.at = "answer" => scan.call \in ReaperCalls

(* An idleSince, in the registry or in the rows the scan still has to look *)
(* at, comes with a warning; only the one just set is ahead of it.         *)
IdleSinceWarned ==
  /\ \A p \in Pods : registry[p].idleSince =>
       warned[p] \/ (scan.at = "notify" /\ scan.pod = p)
  /\ \A p \in scan.todo : scan.rows[p].idleSince => warned[p]
WarnedSoFar ==
  throws = 0 =>
    IdleSinceWarned /\ (scan.at \in {"invoke", "answer"} => warned[scan.pod])

(* The reaper's invocations only take pods down, with the workspace kept.  *)
ReapersOnlyKeep ==
  \A c \in ReaperCalls :
    /\ pc[c] # "idle" => req[c].action = "down" /\ req[c].keep
    /\ apTags[c] = NoTags /\ tasks[c] = "none" /\ accessPointId[c] = None
    /\ held[c] = {}

(* Overlap = "none" is about the users.                                    *)
UsersAlone ==
  \A c, d \in Call \ ReaperCalls :
    c # d /\ Active(c) /\ Active(d) => req[c].pod # req[d].pod

PodPart == TypeOK /\ WorkspaceInv /\ KindsFit
ReaperPart ==
  /\ scan \in [at : ScanSteps, rows : [Pods -> Row], todo : SUBSET Pods,
               pod : Pods \cup {None}, call : ReaperCalls \cup {None}]
  /\ stopEvent \in [Call -> {"none", "handled"} \cup Pods]
  /\ aged \subseteq Call /\ quiet \subseteq Call
  /\ warned \in [Pods -> BOOLEAN] /\ throws \in 0 .. MaxThrows
  /\ ScanFits /\ WarnedSoFar

ReaperInv ==
  /\ PodPart /\ ReaperPart /\ ReapersOnlyKeep
  /\ Overlap = "none" => UsersAlone /\ SerialInv

LEMMA ReaperInvInit == ReaperInit => ReaperInv
<1> SUFFICES ASSUME ReaperInit PROVE ReaperInv
  OBVIOUS
<1> USE ConstantsAssumption, ReaperAssumption DEF ReaperInit
<1>1. TypeOK /\ WorkspaceInv /\ SerialInv /\ KindsFit
  BY TypeInit, WorkspaceInit, SerialInit, StepInvInit DEF StepInv
<1>2. [p \in Pods |-> NoRow] \in [Pods -> Row]
  BY <1>1 DEF TypeOK, Init
<1>3. ScanFits /\ WarnedSoFar
  BY DEF Init, ScanFits, WarnedSoFar, IdleSinceWarned, NoScan, NoRow
<1>4. ReaperPart
  BY <1>2, <1>3 DEF ReaperPart, NoScan, ScanSteps
<1>5. ReapersOnlyKeep /\ UsersAlone
  BY DEF Init, ReapersOnlyKeep, UsersAlone, Active, Steps, UpSteps, UndoSteps, DownSteps
<1> QED
  BY <1>1, <1>4, <1>5 DEF ReaperInv, PodPart

-----------------------------------------------------------------------------
(* What the steps do to the pod-manager's state.                           *)

(* An invocation begins, a user's or the reaper's.                         *)
LEMMA BeginKeeps ==
  ASSUME PodPart, NEW c \in Call, At(c, "idle"), NEW event \in Event,
         req' = [req EXCEPT ![c] = event], UNCHANGED <<aws, locals>>,
         \/ event.action = "up" /\ Goto(c, "get")
         \/ event.action = "down" /\ Goto(c, "downGet")
  PROVE  PodPart' /\ (SerialInv => SerialInv')
<1> USE DEF PodPart, At, Goto
<1>1. /\ UNCHANGED <<registry, accessPoints, apTags, targetGroups, targets, rules, tasks,
                     uid, accessPointId, stale, targetGroupArn, held, entry>>
  BY DEF aws, efs, elb, locals
<1>2. TypeOK'
  BY <1>1, Places DEF TypeOK
<1>3. /\ apTags[c] = NoTags /\ tasks[c] = "none" /\ accessPointId[c] = None
  BY DEF WorkspaceInv, NothingMadeYet, NoWorkspaceYet, Early
<1>4. WorkspaceInv'
  BY <1>1, <1>3 DEF TypeOK, WorkspaceInv, NothingMadeYet, NoWorkspaceYet,
      WorkspaceMatches,
     BuildersOwnTheirs, OwnerMatches, NamedTasksStarted, RowsMatch, Early, Building
<1>5. KindsFit'
  BY DEF KindsFit, IsUp, TypeOK, UpSteps, UndoSteps, DownSteps
<1>6. ASSUME SerialInv PROVE SerialInv'
  <2> USE <1>1, <1>6 DEF SerialInv
  <2>1. TagsFit'
    BY <1>3 DEF TagsFit, IsUp, NoTags, TypeOK
  <2>2. OneWorkspace' /\ NoDuplicates'
    BY DEF OneWorkspace, NoDuplicates
  <2>3. NoneFound'
    BY DEF NoneFound, Workspaces, TypeOK
  <2>4. MakerHasLeft'
    <3>1. ASSUME NEW d \in Call, d # c, accessPointId[d] = c PROVE FALSE
      <4>1. apTags[c].pod = req[d].pod /\ pc[d] # "idle"
        BY <3>1, ConstantsAssumption
        DEF WorkspaceInv, WorkspaceMatches, NoWorkspaceYet, Early
      <4> QED
        BY <1>3, <4>1, ConstantsAssumption DEF NoTags, TypeOK, Event
    <3> QED
      BY <3>1 DEF MakerHasLeft, Active, TypeOK
  <2> QED
    BY <2>1, <2>2, <2>3, <2>4
<1> QED
  BY <1>2, <1>4, <1>5, <1>6

(* The name of one of the reaper's invocations serves again.               *)
LEMMA RecycleKeeps ==
  ASSUME PodPart, ReapersOnlyKeep, NEW c \in ReaperCalls, Recycle(c)
  PROVE  PodPart' /\ (SerialInv => SerialInv')
<1> USE ReaperAssumption DEF PodPart, Recycle, Goto
<1>1. /\ UNCHANGED <<registry, accessPoints, apTags, targetGroups, targets, rules, tasks,
                     uid, accessPointId, stale, targetGroupArn, held>>
  BY DEF aws, efs, elb
<1>2. TypeOK'
  <2>1. NoRow \in Row
    BY DEF Row, NoRow, OptCall, OptUid
  <2> QED
    BY <1>1, <2>1, Places DEF TypeOK
<1>3. /\ apTags[c] = NoTags /\ tasks[c] = "none" /\ accessPointId[c] = None
      /\ "task" \notin held[c]
  BY DEF ReapersOnlyKeep
<1>4. WorkspaceInv'
  BY <1>1, <1>3 DEF TypeOK, WorkspaceInv, NothingMadeYet, NoWorkspaceYet,
      WorkspaceMatches,
     BuildersOwnTheirs, OwnerMatches, NamedTasksStarted, RowsMatch, Early, Building, NoRow
<1>5. KindsFit'
  BY DEF KindsFit, IsUp, TypeOK, UpSteps, UndoSteps, DownSteps
<1>6. ASSUME SerialInv PROVE SerialInv'
  <2> USE <1>1, <1>6 DEF SerialInv
  <2>1. TagsFit'
    BY <1>3 DEF TagsFit, IsUp, NoTags, TypeOK
  <2>2. OneWorkspace' /\ NoDuplicates'
    BY DEF OneWorkspace, NoDuplicates
  <2>3. NoneFound'
    BY DEF NoneFound, Workspaces, TypeOK
  <2>4. MakerHasLeft'
    BY DEF MakerHasLeft, Active, TypeOK, Steps, UpSteps, UndoSteps, DownSteps
  <2> QED
    BY <2>1, <2>2, <2>3, <2>4
<1> QED
  BY <1>2, <1>4, <1>5, <1>6

(* The scan writes one attribute of one row, or makes a row of it.         *)
LEMMA SetIdleKeeps ==
  ASSUME PodPart, NEW p \in Pods, NEW value \in BOOLEAN, SetIdle(p, value)
  PROVE  PodPart' /\ (SerialInv => SerialInv')
<1> USE DEF PodPart
<1>1. /\ UNCHANGED <<accessPoints, apTags, targetGroups, targets, rules, tasks, pc, req,
                     uid, accessPointId, stale, targetGroupArn, held, entry>>
      /\ registry' = [registry EXCEPT ![p].idleSince = value]
  BY DEF SetIdle, efs, elb, locals
<1>2. TypeOK'
  <2>1. [registry[p] EXCEPT !.idleSince = value] \in Row
    <3> SUFFICES ASSUME NEW row \in Row PROVE [row EXCEPT !.idleSince = value] \in Row
      BY DEF TypeOK
    <3> QED
      BY DEF Row
  <2>2. registry' \in [Pods -> Row]
    BY <1>1, <2>1 DEF TypeOK
  <2> QED
    BY <1>1, <2>2 DEF TypeOK
<1>3. ASSUME NEW q \in Pods
      PROVE  /\ registry'[q].ap = registry[q].ap /\ registry'[q].uid = registry[q].uid
             /\ registry'[q].task = registry[q].task
  BY <1>1 DEF TypeOK, Row
<1>4. WorkspaceInv'
  BY <1>1, <1>3 DEF WorkspaceInv, NothingMadeYet, NoWorkspaceYet, WorkspaceMatches,
     BuildersOwnTheirs, OwnerMatches, NamedTasksStarted, RowsMatch
<1>5. KindsFit' /\ (SerialInv => SerialInv')
  BY <1>1 DEF KindsFit, IsUp, SerialInv, TagsFit, OneWorkspace, NoneFound, NoDuplicates,
     MakerHasLeft, Workspaces, Active
<1> QED
  BY <1>2, <1>4, <1>5

(* Every other step of the pod-manager is one of PodLifecycle.             *)
LEMMA ActKeeps ==
  ASSUME PodPart, NEW c \in Call, Act(c)
  PROVE  PodPart' /\ (SerialInv /\ UpsAlone => SerialInv')
BY TypeNext, WorkspaceNext, KindsNext, SerialNext, NextIsAct DEF PodPart

LEMMA StutterKeepsPods ==
  ASSUME PodPart, UNCHANGED vars
  PROVE  PodPart' /\ (SerialInv => SerialInv')
BY StutterKeeps, TypeNext, WorkspaceNext
DEF PodPart, KindsFit, IsUp, SerialInv, TagsFit, OneWorkspace, NoneFound, NoDuplicates,
    MakerHasLeft, Workspaces, Active

-----------------------------------------------------------------------------
(* What the steps do to the rest of the invariant.                         *)

Rest(c) ==
  \/ Step(c) \/ UpFails(c) \/ DownFails(c) \/ LambdaDies(c) \/ TaskStarts(c)
  \/ TaskStops(c)

LEMMA RestMoves ==
  ASSUME TypeOK, WorkspaceInv, KindsFit, NEW c \in Call, Rest(c)
  PROVE  /\ Act(c) /\ UNCHANGED req
         /\ \A d \in Call : d # c => Same(d)
         /\ Active(c)' => Active(c)
         /\ pc[c] = "idle" => pc'[c] = "idle"
<1>1. Act(c)
  BY DEF Rest, Act
<1>2. UNCHANGED req /\ (pc[c] = "idle" => pc'[c] = "idle")
  BY DEF Rest, Step, UpStep, UpRegistryGet, UpFindWorkspace, UpPruneDuplicate,
     UpReuseWorkspace, UpAllocateUid, UpCreateAccessPoint, UpRegisterTaskDef,
     UpCreateTargetGroup, UpCreateListenerRule, UpRunTask, UpWaitForTask,
     UpRegisterTarget, UpRegistryPut, UndoStep, UndoTask, UndoRule, UndoTargetGroup,
     UndoAccessPoint, DownStep, DownRegistryGet, DownStopTask, DownDeleteRule,
     DownDeregister, DownDeleteTargetGroup, DownReleaseWorkspace, DownRegistryDelete,
     UpFails, DownFails, LambdaDies, TaskStarts, TaskStops, Active, Steps, UpSteps,
     UndoSteps, DownSteps, At
<1>3. Active(c)' => Active(c)
  BY <1>1, <1>2, OwnMoves DEF Goes, Active, Steps, UpSteps, UndoSteps, DownSteps
<1> QED
  BY <1>1, <1>2, <1>3, Frame

(* No step of the pod-manager sets idleSince: podUp writes a row without.  *)
LEMMA RowsLoseIdleSince ==
  ASSUME TypeOK, NEW c \in Call, Act(c), NEW p \in Pods, registry'[p].idleSince
  PROVE  registry[p].idleSince
<1>1. ~NoRow.idleSince /\ ~RowOf(c).idleSince
  BY DEF NoRow, RowOf
<1> QED
  BY <1>1, RowMoves DEF TypeOK

(* Invocations that act on what they were asked.                           *)
LEMMA RestKeepsReapers ==
  ASSUME PodPart, ReapersOnlyKeep, NEW c \in Call, Rest(c)
  PROVE  ReapersOnlyKeep' /\ (UsersAlone => UsersAlone')
<1> USE ReaperAssumption DEF PodPart
<1>1. Act(c) /\ UNCHANGED req
  BY RestMoves
<1>2. UsersAlone => UsersAlone'
  BY RestMoves DEF UsersAlone, Same, Active
<1>3. ASSUME NEW d \in ReaperCalls
      PROVE  /\ pc'[d] # "idle" => req'[d].action = "down" /\ req'[d].keep
             /\ apTags'[d] = NoTags /\ tasks'[d] = "none" /\ accessPointId'[d] = None
             /\ held'[d] = {}
  <2>1. /\ pc[d] \notin UpSteps \cup UndoSteps
        /\ apTags[d] = NoTags /\ tasks[d] = "none" /\ accessPointId[d] = None
        /\ held[d] = {}
        /\ pc[d] # "idle" => req[d].action = "down" /\ req[d].keep
    BY DEF ReapersOnlyKeep, KindsFit, IsUp, UpSteps, UndoSteps
  <2>2. pc'[d] # "idle" => pc[d] # "idle"
    BY RestMoves DEF Same
  <2>3. apTags'[d] = NoTags /\ accessPointId'[d] = None
    BY <1>1, <2>1, WorkspaceMoves, Frame DEF TypeOK, UpSteps, Same
  <2>4. tasks'[d] = "none"
    BY <1>1, <2>1, ServiceFrame
  <2>5. held'[d] = {}
    <3>1. CASE d # c
      BY <1>1, <2>1, <3>1, Frame DEF Same
    <3>2. CASE d = c
      BY <1>1, <2>1, <3>2, OwnMoves DEF UpSteps, Held
    <3> QED
      BY <3>1, <3>2
  <2> QED
    BY <1>1, <2>1, <2>2, <2>3, <2>4, <2>5
<1> QED
  BY <1>2, <1>3 DEF ReapersOnlyKeep

(* An invocation on a pod begins: no other user works on the pod, or it is *)
(* one of the reaper's.                                                    *)
LEMMA BeginKeepsReapers ==
  ASSUME PodPart, ReapersOnlyKeep, NEW c \in Call, At(c, "idle"), NEW event \in Event,
         NEW first \in {"get", "downGet"}, Goto(c, first),
         req' = [req EXCEPT ![c] = event], UNCHANGED <<aws, locals>>,
         c \in ReaperCalls => event.action = "down" /\ event.keep
  PROVE  /\ ReapersOnlyKeep'
         /\ UsersAlone /\ (c \in ReaperCalls \/
              \A d \in Call \ ReaperCalls : ~(Active(d) /\ req[d].pod = event.pod))
              => UsersAlone'
<1> USE ReaperAssumption DEF PodPart, TypeOK, Goto
<1>1. UNCHANGED <<apTags, tasks, accessPointId, held>>
  BY DEF aws, efs, locals
<1>2. ReapersOnlyKeep'
  BY <1>1 DEF ReapersOnlyKeep
<1>3. ASSUME NEW d \in Call, d # c PROVE (Active(d)' <=> Active(d)) /\ req'[d] = req[d]
  BY <1>3 DEF Active
<1>4. req'[c].pod = event.pod
  OBVIOUS
<1> QED
  BY <1>2, <1>3, <1>4 DEF UsersAlone

-----------------------------------------------------------------------------
(* One step per action.                                                    *)

LEMMA InvokeDownIsBegin ==
  ASSUME NEW c, NEW p \in Pods, InvokeDown(c, p)
  PROVE  /\ c \in ReaperCalls /\ At(c, "idle") /\ Goto(c, "downGet")
         /\ DownEvent(p) \in Event /\ DownEvent(p).action = "down" /\ DownEvent(p).keep
         /\ req' = [req EXCEPT ![c] = DownEvent(p)]
         /\ UNCHANGED <<aws, locals>>
BY DEF InvokeDown, InvokeDownWith, DownEvent, Event

LEMMA InvokeDownKeeps ==
  ASSUME ReaperInv, NEW c, NEW p \in Pods, InvokeDown(c, p)
  PROVE  /\ PodPart' /\ ReapersOnlyKeep'
         /\ Overlap = "none" => UsersAlone' /\ SerialInv'
         /\ UNCHANGED registry
BY InvokeDownIsBegin, BeginKeeps, BeginKeepsReapers, ReaperAssumption
DEF ReaperInv, aws

LEMMA UsersAndReapersApart ==
  ASSUME PodPart, ReapersOnlyKeep, UsersAlone PROVE UpsAlone
BY DEF PodPart, ReapersOnlyKeep, UsersAlone, UpsAlone, IsUp, Active, Steps, UpSteps,
   UndoSteps, DownSteps

(* A user's invocation is an event for one of the two handlers.            *)
LEMMA UserStartsOne ==
  ASSUME NEW c, UserStarts(c)
  PROVE  \E event \in Event, first \in {"get", "downGet"} :
           /\ UserInvokes(c, event, first)
           /\ event.action = IF first = "get" THEN "up" ELSE "down"
<1>1. ASSUME NEW p \in Pods, NEW m \in Modes, NEW o \in Owners \cup {None}
      PROVE  [action |-> "up", pod |-> p, mode |-> m, owner |-> o, keep |-> TRUE] \in Event
  BY DEF Event
<1>2. ASSUME NEW p \in Pods, NEW keep \in BOOLEAN
      PROVE  /\ [DownEvent(p) EXCEPT !.keep = keep] \in Event
             /\ [DownEvent(p) EXCEPT !.keep = keep].action = "down"
  BY DEF Event, DownEvent
<1>3. CASE \E p \in Pods, m \in Modes, o \in Owners \cup {None} :
             UserInvokes(c, [action |-> "up", pod |-> p, mode |-> m, owner |-> o,
                             keep |-> TRUE], "get")
  BY <1>1, <1>3
<1>4. CASE \E p \in Pods, keep \in BOOLEAN :
             UserInvokes(c, [DownEvent(p) EXCEPT !.keep = keep], "downGet")
  BY <1>2, <1>4
<1> QED
  BY <1>3, <1>4 DEF UserStarts

LEMMA PodManagerKeeps ==
  ASSUME ReaperInv, NEW c \in Call, PodManager(c) PROVE ReaperInv'
<1> USE DEF ReaperInv
<1>0. UNCHANGED <<scan, stopEvent, aged, quiet, warned, throws>>
  BY DEF PodManager, reaper
<1>1. CASE UserStarts(c)
  <2>1. PICK event \in Event, first \in {"get", "downGet"} :
          /\ UserInvokes(c, event, first)
          /\ event.action = IF first = "get" THEN "up" ELSE "down"
    BY <1>1, UserStartsOne
  <2>2. c \in Call \ ReaperCalls /\ At(c, "idle")
    BY <1>1 DEF UserStarts
  <2>3. /\ req' = [req EXCEPT ![c] = event] /\ Goto(c, first)
        /\ UNCHANGED <<aws, locals>>
        /\ \A d \in Call \ ReaperCalls : Active(d) /\ req[d].pod = event.pod =>
             MayOverlap(req[d].action, event.action)
    BY <2>1 DEF UserInvokes
  <2>4. PodPart' /\ (SerialInv => SerialInv')
    BY <1>0, <2>1, <2>2, <2>3, BeginKeeps
  <2>5. ReapersOnlyKeep' /\ (Overlap = "none" => UsersAlone')
    BY <1>0, <2>1, <2>2, <2>3, BeginKeepsReapers DEF MayOverlap
  <2>6. ReaperPart'
    BY <1>0, <2>3 DEF ReaperPart, ScanFits, WarnedSoFar, IdleSinceWarned, aws
  <2> QED
    BY <2>4, <2>5, <2>6
<1>2. CASE Rest(c)
  <2>1. Act(c)
    BY <1>0, <1>2, RestMoves DEF PodPart
  <2>2. PodPart' /\ (SerialInv /\ UpsAlone => SerialInv')
    BY <1>0, <2>1, ActKeeps
  <2>3. ReapersOnlyKeep' /\ (UsersAlone => UsersAlone')
    BY <1>0, <1>2, RestKeepsReapers
  <2>4. Overlap = "none" => UpsAlone
    BY <1>0, UsersAndReapersApart
  <2>5. ReaperPart'
    BY <1>0, <2>1, RowsLoseIdleSince
    DEF PodPart, ReaperPart, ScanFits, WarnedSoFar, IdleSinceWarned
  <2> QED
    BY <2>2, <2>3, <2>4, <2>5
<1> QED
  BY <1>1, <1>2 DEF PodManager, Rest

LEMMA RecycleKeepsInv ==
  ASSUME ReaperInv, NEW c \in ReaperCalls, Recycle(c) PROVE ReaperInv'
<1> USE ReaperAssumption DEF ReaperInv
<1>1. PodPart' /\ (SerialInv => SerialInv')
  BY RecycleKeeps
<1>2. UNCHANGED <<registry, apTags, tasks, accessPointId, held, scan, stopEvent, aged,
                  quiet, warned, throws>>
  BY DEF Recycle, aws, efs, reaper
<1>3. \A d \in Call : d # c => pc'[d] = pc[d] /\ req'[d] = req[d]
  BY DEF Recycle, Goto, PodPart, TypeOK
<1>4. pc'[c] = "idle"
  BY DEF Recycle, Goto, PodPart, TypeOK
<1>5. ReapersOnlyKeep' /\ (UsersAlone => UsersAlone')
  BY <1>2, <1>3, <1>4 DEF ReapersOnlyKeep, UsersAlone, Active
<1>6. ReaperPart'
  BY <1>2 DEF ReaperPart, ScanFits, WarnedSoFar, IdleSinceWarned
<1> QED
  BY <1>1, <1>5, <1>6

(* Steps of the reaper that leave the pod-manager's state alone.           *)
LEMMA PodsUntouched ==
  ASSUME ReaperInv, UNCHANGED vars
  PROVE  /\ PodPart' /\ ReapersOnlyKeep'
         /\ Overlap = "none" => UsersAlone' /\ SerialInv'
         /\ UNCHANGED registry
BY StutterKeepsPods, StutterKeeps
DEF ReaperInv, ReapersOnlyKeep, UsersAlone, Active

(* The loop of a scan, while it does not touch a pod.                      *)
LEMMA ScanReadsKeep ==
  ASSUME ReaperInv,
         ScanLists \/ ScanReadsMetric \/ ScanNotifies \/ ScanGetsAnswer \/ ScanEnds \/ ScanFails
  PROVE  ReaperInv'
<1> USE DEF ReaperInv, ReaperPart, ScanSteps, ScanFits, WarnedSoFar, IdleSinceWarned
<1>0. /\ UNCHANGED <<vars, stopEvent, aged, quiet>>
  BY DEF ScanLists, ScanReadsMetric, ScanNotifies, ScanGetsAnswer, ScanEnds, ScanFails
<1>7. [p \in Pods |-> NoRow] \in [Pods -> Row]
  <2>1. NoRow \in Row
    BY DEF Row, NoRow, OptCall, OptUid
  <2> QED
    BY <2>1
<1>1. CASE ScanLists
  <2>1. Candidates \subseteq Pods
    BY DEF Candidates
  <2>2. registry \in [Pods -> Row]
    BY DEF PodPart, TypeOK
  <2>3. ReaperPart'
    BY <1>0, <1>1, <2>1, <2>2, PodsUntouched DEF ScanLists, NoScan
  <2> QED
    BY <1>0, <2>3, PodsUntouched
<1>2. CASE ScanReadsMetric
  <2>1. PICK p \in scan.todo :
          /\ scan.at = "next"
          /\ scan' = [scan EXCEPT !.at = Verdict(scan.rows[p]), !.pod = p, !.todo = @ \ {p}]
    BY <1>2 DEF ScanReadsMetric
  <2>2. /\ Verdict(scan.rows[p]) \in {"invoke", "mark", "clear", "next"}
        /\ Verdict(scan.rows[p]) = "invoke" => scan.rows[p].idleSince
    BY DEF Verdict
  <2>3. ReaperPart'
    BY <1>0, <1>2, <2>1, <2>2, PodsUntouched DEF ScanReadsMetric
  <2> QED
    BY <1>0, <2>3, PodsUntouched
<1>3. CASE ScanNotifies
  BY <1>0, <1>3, PodsUntouched DEF ScanNotifies, MoveScan
<1>4. CASE ScanGetsAnswer
  BY <1>0, <1>4, PodsUntouched DEF ScanGetsAnswer
<1>5. CASE ScanEnds
  BY <1>0, <1>5, <1>7, PodsUntouched DEF ScanEnds, NoScan
<1>6. CASE ScanFails
  BY <1>0, <1>6, <1>7, PodsUntouched, ReaperAssumption DEF ScanFails, NoScan
<1> QED
  BY <1>1, <1>2, <1>3, <1>4, <1>5, <1>6

(* The loop of a scan, when it writes a row or takes a pod down.           *)
LEMMA ScanActsKeep ==
  ASSUME ReaperInv,
         ScanClears \/ ScanMarks \/ \E c \in ReaperCalls : ScanInvokesDown(c)
  PROVE  ReaperInv'
<1> USE DEF ReaperInv, ReaperPart, ScanSteps, ScanFits, WarnedSoFar, IdleSinceWarned,
        MoveScan
<1>1. ASSUME NEW value \in BOOLEAN, SetIdle(scan.pod, value), scan.pod \in Pods
      PROVE  /\ PodPart' /\ ReapersOnlyKeep'
             /\ Overlap = "none" => UsersAlone' /\ SerialInv'
             /\ registry' = [registry EXCEPT ![scan.pod].idleSince = value]
             /\ \A p \in Pods : registry'[p].idleSince =
                  IF p = scan.pod THEN value ELSE registry[p].idleSince
  <2>1. /\ PodPart' /\ (SerialInv => SerialInv')
        /\ registry' = [registry EXCEPT ![scan.pod].idleSince = value]
        /\ UNCHANGED <<apTags, tasks, accessPointId, held, pc, req>>
    BY <1>1, SetIdleKeeps DEF SetIdle, efs, locals
  <2>2. ReapersOnlyKeep' /\ (UsersAlone => UsersAlone')
    BY <2>1 DEF ReapersOnlyKeep, UsersAlone, Active
  <2>3. \A p \in Pods : registry'[p].idleSince =
          IF p = scan.pod THEN value ELSE registry[p].idleSince
    BY <2>1 DEF PodPart, TypeOK, Row
  <2> QED
    BY <2>1, <2>2, <2>3
<1>2. CASE ScanClears
  BY <1>1, <1>2 DEF ScanClears
<1>3. CASE ScanMarks
  BY <1>1, <1>3 DEF ScanMarks
<1>4. ASSUME NEW c \in ReaperCalls, ScanInvokesDown(c) PROVE ReaperInv'
  BY <1>4, InvokeDownKeeps DEF ScanInvokesDown
<1> QED
  BY <1>2, <1>3, <1>4

(* The events, time and traffic.                                           *)
LEMMA EventsKeep ==
  ASSUME ReaperInv, NEW t \in Call,
         \/ EventStep(t) \/ EventFails(t) \/ GoesQuiet(t) \/ RequestArrives(t)
         \/ \E p \in Pods : Ages(p)
  PROVE  ReaperInv'
<1> USE DEF ReaperInv, ReaperPart, ScanFits, WarnedSoFar, IdleSinceWarned
<1>1. CASE EventLists(t) \/ EventFails(t)
  BY <1>1, PodsUntouched, ReaperAssumption DEF EventLists, EventFails, NamingRows
<1>2. CASE GoesQuiet(t) \/ RequestArrives(t)
  BY <1>2, PodsUntouched DEF GoesQuiet, RequestArrives
<1>3. ASSUME NEW p \in Pods, Ages(p) PROVE ReaperInv'
  BY <1>3, PodsUntouched DEF Ages, PodPart, TypeOK, Row, OptCall
<1>4. ASSUME NEW c \in ReaperCalls, EventInvokesDown(t, c) PROVE ReaperInv'
  BY <1>4, InvokeDownKeeps DEF EventInvokesDown
<1> QED
  BY <1>1, <1>2, <1>3, <1>4 DEF EventStep

LEMMA ReaperInvNext == ReaperInv /\ [ReaperNext]_allVars => ReaperInv'
<1> SUFFICES ASSUME ReaperInv, [ReaperNext]_allVars PROVE ReaperInv'
  OBVIOUS
<1>1. ASSUME NEW c \in Call, Recycle(c) PROVE ReaperInv'
  BY <1>1, RecycleKeepsInv DEF Recycle
<1>2. CASE UNCHANGED allVars
  <2>1. UNCHANGED vars /\ UNCHANGED <<scan, stopEvent, aged, quiet, warned, throws>>
    BY <1>2 DEF allVars, reaper
  <2> QED
    BY <2>1, PodsUntouched
    DEF ReaperInv, ReaperPart, ScanFits, WarnedSoFar, IdleSinceWarned
<1>3. ASSUME NEW p \in Pods, Ages(p) PROVE ReaperInv'
  <2>1. \E t \in Call : TRUE
    BY <1>3, ConstantsAssumption DEF Ages, ReaperInv, PodPart, TypeOK, Row, OptCall
  <2> QED
    BY <1>3, <2>1, EventsKeep
<1> QED
  BY <1>1, <1>2, <1>3, PodManagerKeeps, EventsKeep, ScanReadsKeep, ScanActsKeep
  DEF ReaperNext, ScanStep

LEMMA ReaperInvHolds == ReaperSpec => []ReaperInv
BY ReaperInvInit, ReaperInvNext, PTL DEF ReaperSpec

-----------------------------------------------------------------------------
(* The theorems.                                                           *)

(* Every variable of the reaper and of the pod-manager it shares the       *)
(* registry with keeps its type, also after the upsert of setIdleSince.    *)
THEOREM ReaperTypeCorrect == ReaperSpec => []ReaperTypeOK
<1>1. ReaperInv => ReaperTypeOK
  BY DEF ReaperInv, PodPart, ReaperPart, ReaperTypeOK
<1> QED
  BY <1>1, ReaperInvHolds, PTL

(* However scans, events and users interleave, and whatever fails: while   *)
(* none of its calls has thrown, the reaper stops a pod as idle only after *)
(* a warning, with no request seen by a scan since (runIdleScan).          *)
THEOREM NoPodIsReapedUnwarned == ReaperSpec => []ReapedPodWasWarned
<1>1. ReaperInv => ReapedPodWasWarned
  BY DEF ReaperInv, ReaperPart, WarnedSoFar, ReapedPodWasWarned
<1> QED
  BY <1>1, ReaperInvHolds, PTL

(* While the users' invocations on one pod do not overlap - the reaper's   *)
(* overlap them all - a workspace handed to a user is deleted only by a    *)
(* user's pod-down that was told to release it.                            *)
THEOREM ReaperLosesNoWorkspace ==
  ASSUME Overlap = "none" PROVE ReaperSpec => WorkspaceSurvivesReaper
<1>1. ReaperInv /\ [ReaperNext]_allVars =>
        [\A a \in accessPoints :
           Adopted(a) /\ ~UserReleased(a) => a \in accessPoints']_allVars
  <2> SUFFICES ASSUME ReaperInv, ReaperNext, NEW a \in accessPoints,
                      Adopted(a), ~UserReleased(a), a \notin accessPoints'
               PROVE  FALSE
    BY DEF allVars, vars, aws, efs
  <2>1. PICK c \in Call : Rest(c)
    BY DEF ReaperNext, PodManager, UserStarts, UserInvokes, Recycle, EventStep,
        EventLists,
       EventInvokesDown, EventFails, GoesQuiet, RequestArrives, Ages, ScanStep, ScanLists,
       ScanReadsMetric, ScanClears, ScanMarks, ScanNotifies, ScanInvokesDown,
           ScanGetsAnswer,
       ScanEnds, ScanFails, InvokeDown, InvokeDownWith, SetIdle, Rest, vars, aws, efs
  <2>2. Act(c)
    BY <2>1 DEF Rest, Act
  <2>3. PICK d \in Call : pc[d] = "ok" /\ accessPointId[d] = a
    BY DEF Adopted, At
  <2>4. stale[c] = {}
    BY DEF ReaperInv, SerialInv, NoDuplicates
  <2>5. CASE pc[c] = "undoAp" /\ a = c
    BY <2>3, <2>5
    DEF ReaperInv, PodPart, SerialInv, MakerHasLeft, Active, Steps, UndoSteps, TypeOK
  <2>6. CASE pc[c] = "downAp" /\ a = entry[c].ap
    <3>1. ~req[c].keep /\ c \notin ReaperCalls
      BY <2>6 DEF ReaperInv, PodPart, KindsFit, ReapersOnlyKeep
    <3> QED
      BY <2>6, <3>1 DEF UserReleased, At
  <2> QED
    BY <2>2, <2>4, <2>5, <2>6, WorkspaceMoves DEF ReaperInv, PodPart
<1> QED
  BY <1>1, ReaperInvHolds, PTL DEF ReaperSpec, WorkspaceSurvivesReaper

(* The reaper breaks neither of the bindings the pod-manager keeps: what a *)
(* task mounts was made for its pod and, with the central auth host on,    *)
(* for its owner, also when pods are taken down behind their users' back.  *)
THEOREM ReaperKeepsBindings ==
  ReaperSpec => []WorkspaceIsThePods /\ []WorkspaceOwnerBinding
<1>1. ReaperInv => WorkspaceIsThePods /\ WorkspaceOwnerBinding
  BY DEF ReaperInv, PodPart, TypeOK, WorkspaceInv, WorkspaceMatches, BuildersOwnTheirs,
     OwnerMatches, RowsMatch, WorkspaceIsThePods, WorkspaceOwnerBinding
<1> QED
  BY <1>1, ReaperInvHolds, PTL

-----------------------------------------------------------------------------
(* What more the pod-manager promises by itself, beside the reaper.        *)

(* As far as the pod-manager sees, a step is one of its own, the beginning *)
(* of an invocation, the end of one of the reaper's, the reaper's write to *)
(* a row, or none.                                                         *)
Begins(c, event) ==
  /\ At(c, "idle") /\ req' = [req EXCEPT ![c] = event]
  /\ UNCHANGED <<aws, locals>>
  /\ \/ event.action = "up" /\ Goto(c, "get")
     \/ event.action = "down" /\ Goto(c, "downGet")

LEMMA ReaperSteps ==
  ASSUME ReaperInv, [ReaperNext]_allVars
  PROVE  \/ \E c \in Call : Act(c)
         \/ \E c \in Call, event \in Event : Begins(c, event)
         \/ \E c \in ReaperCalls : Recycle(c)
         \/ \E p \in Pods, value \in BOOLEAN : SetIdle(p, value)
         \/ UNCHANGED vars
<1> USE ReaperAssumption
<1>1. ASSUME NEW c \in Call, UserStarts(c) PROVE \E event \in Event : Begins(c, event)
  <2>1. PICK event \in Event, first \in {"get", "downGet"} :
          /\ UserInvokes(c, event, first)
          /\ event.action = IF first = "get" THEN "up" ELSE "down"
    BY <1>1, UserStartsOne
  <2>2. Begins(c, event)
    BY <1>1, <2>1 DEF UserStarts, UserInvokes, Begins
  <2> QED
    BY <2>2
<1>2. ASSUME NEW c, NEW p \in Pods, InvokeDown(c, p)
      PROVE  c \in Call /\ \E event \in Event : Begins(c, event)
  BY <1>2, InvokeDownIsBegin DEF Begins
<1>3. ASSUME NEW c \in Call, PodManager(c)
      PROVE  Act(c) \/ \E event \in Event : Begins(c, event)
  BY <1>1, <1>3 DEF PodManager, Act
<1>4. ASSUME NEW t \in Call, EventStep(t)
      PROVE  UNCHANGED vars \/ \E c \in Call, event \in Event : Begins(c, event)
  BY <1>2, <1>4 DEF EventStep, EventLists, EventInvokesDown
<1>5. ASSUME ScanStep
      PROVE  \/ UNCHANGED vars
             \/ \E p \in Pods, value \in BOOLEAN : SetIdle(p, value)
             \/ \E c \in Call, event \in Event : Begins(c, event)
  <2>1. scan.at \in {"clear", "mark", "invoke"} => scan.pod \in Pods
    BY DEF ReaperInv, ReaperPart, ScanFits
  <2>2. CASE ScanClears \/ ScanMarks
    BY <2>1, <2>2 DEF ScanClears, ScanMarks
  <2>3. ASSUME NEW c \in ReaperCalls, ScanInvokesDown(c)
        PROVE  \E d \in Call, event \in Event : Begins(d, event)
    BY <1>2, <2>1, <2>3 DEF ScanInvokesDown
  <2> QED
    BY <1>5, <2>2, <2>3
    DEF ScanStep, ScanLists, ScanReadsMetric, ScanNotifies, ScanGetsAnswer, ScanEnds
<1>6. CASE UNCHANGED allVars
  BY <1>6 DEF allVars
<1> QED
  BY <1>3, <1>4, <1>5, <1>6
  DEF ReaperNext, Recycle, EventFails, GoesQuiet, RequestArrives, Ages, ScanFails

(* While the users' invocations on one pod do not overlap, a pod has at    *)
(* most one workspace, whatever the reaper takes down beside them.         *)
THEOREM ReaperKeepsOneWorkspace ==
  ASSUME Overlap = "none" PROVE ReaperSpec => []OneWorkspacePerPod
<1>1. ReaperInv => OneWorkspacePerPod
  BY OneIsAtMostOne DEF ReaperInv
<1> QED
  BY <1>1, ReaperInvHolds, PTL

(* The same of the rollback: an invocation begins with nothing of its own, *)
(* and those of the reaper never have any.                                 *)
LEMMA RollbackBeside ==
  ASSUME "delete" \notin Faults, ReaperInv, RollbackInv, [ReaperNext]_allVars
  PROVE  RollbackInv'
<1> USE DEF ReaperInv, PodPart
<1>1. ASSUME NEW c \in Call, Act(c) PROVE RollbackInv'
  BY <1>1, RollbackNext, NextIsAct
<1>2. ASSUME NEW c \in Call, At(c, "idle") \/ c \in ReaperCalls,
             pc' = [pc EXCEPT ![c] = pc'[c]], pc'[c] \in {"idle", "get", "downGet"},
             pc'[c] = "downGet" => req'[c].action = "down",
             \A d \in Call : d # c => req'[d] = req[d],
             UNCHANGED <<held, rules, accessPoints, tasks>>
      PROVE  RollbackInv'
  <2>1. held[c] = {}
    BY <1>2 DEF At, RollbackInv, HeldIsMade, Early, ReapersOnlyKeep
  <2>2. /\ HeldIsMade' /\ UndoneSoFar' /\ DownsAreDowns'
    BY <1>2, <2>1
    DEF TypeOK, RollbackInv, HeldIsMade, UndoneSoFar, DownsAreDowns, LiveTask, Early,
        DownSteps
  <2>3. FailedUpLeavesNothing'
    BY <1>2 DEF TypeOK, RollbackInv, FailedUpLeavesNothing, LiveTask
  <2> QED
    BY <2>2, <2>3 DEF RollbackInv
<1>3. ASSUME NEW c \in Call, NEW event \in Event, Begins(c, event) PROVE RollbackInv'
  BY <1>2, <1>3 DEF Begins, Goto, TypeOK, aws, efs, elb, locals
<1>4. ASSUME NEW c \in ReaperCalls, Recycle(c) PROVE RollbackInv'
  <2>1. c \in Call
    BY ReaperAssumption
  <2> QED
    BY <1>2, <1>4, <2>1 DEF Recycle, Goto, TypeOK, aws, efs, elb
<1>5. ASSUME NEW p \in Pods, NEW value \in BOOLEAN, SetIdle(p, value) PROVE RollbackInv'
  BY <1>5 DEF SetIdle, efs, elb, locals, RollbackInv, HeldIsMade, UndoneSoFar,
     DownsAreDowns, FailedUpLeavesNothing, LiveTask
<1>6. CASE UNCHANGED vars
  BY <1>6, RollbackNext
<1> QED
  BY <1>1, <1>3, <1>4, <1>5, <1>6, ReaperSteps

(* While teardown calls succeed, a pod-up that failed leaves nothing of    *)
(* its own, also when the reaper takes its pod down meanwhile.             *)
THEOREM ReaperLeavesRollbacksComplete ==
  ASSUME "delete" \notin Faults PROVE ReaperSpec => []FailedUpLeavesNothing
<1>1. ReaperInit => RollbackInv
  BY RollbackInit DEF ReaperInit
<1>2. RollbackInv => FailedUpLeavesNothing
  BY DEF RollbackInv
<1>3. ReaperInv /\ RollbackInv /\ [ReaperNext]_allVars => RollbackInv'
  BY RollbackBeside
<1> QED
  BY <1>1, <1>2, <1>3, ReaperInvHolds, PTL DEF ReaperSpec

(* Rows and what pod-downs have read of them name what a pod-up of the pod *)
(* made, also where the reaper's upsert has made a row of its own.         *)
RowsFit == \A p \in Pods : Names(registry[p], p)
SideInv == TagInv /\ RowsFit /\ EntriesFit

LEMMA NamesStay ==
  ASSUME TypeOK, WorkspaceInv, NEW c \in Call, Act(c), NEW row, NEW p, Names(row, p)
  PROVE  Names(row, p)'
<1>1. CASE row.task = None /\ row.rule = None /\ row.ap = None /\ row.tg = None
  BY <1>1 DEF Names
<1>2. ASSUME NEW t \in Call, IsUp(t), pc[t] \notin UpSteps \cup {"idle"}
      PROVE  /\ accessPointId'[t] = accessPointId[t] /\ req'[t] = req[t] /\ IsUp(t)'
             /\ targetGroupArn'[t] = targetGroupArn[t] /\ pc'[t] \notin UpSteps \cup {"idle"}
  <2>1. req'[t] = req[t] /\ pc'[t] # "idle"
    BY <1>2, EventStays
  <2>2. CASE t # c
    BY <1>2, <2>1, <2>2, Frame DEF Same, IsUp
  <2>3. CASE t = c
    <3>1. accessPointId'[c] = accessPointId[c] /\ targetGroupArn'[c] = targetGroupArn[c]
      BY <1>2, <2>3, WorkspaceMoves, OwnServices DEF UpSteps
    <3>2. pc'[c] \notin UpSteps
      BY <1>2, <2>3, OwnMoves DEF Goes, UpSteps, UndoSteps, DownSteps, Steps
    <3> QED
      BY <1>2, <2>1, <2>3, <3>1, <3>2 DEF IsUp
  <2> QED
    BY <2>2, <2>3
<1> QED
  BY <1>1, <1>2 DEF Names

LEMMA ActKeepsSides ==
  ASSUME ReaperInv, SideInv, NEW c \in Call, Act(c) PROVE SideInv'
<1> USE DEF ReaperInv, PodPart, SideInv
<1>1. TagInv'
  BY TagNext
<1>2. RowsFit'
  <2> SUFFICES ASSUME NEW p \in Pods PROVE Names(registry[p], p)'
    BY DEF RowsFit
  <2>1. CASE registry'[p] = registry[p]
    BY <2>1, NamesStay DEF RowsFit, Names
  <2>2. CASE registry'[p] = NoRow
    BY <2>2 DEF NoRow, Names
  <2>3. CASE registry'[p] # registry[p] /\ registry'[p] # NoRow
    <3>1. /\ pc[c] = "put" /\ req[c].pod = p /\ registry'[p] = RowOf(c)
          /\ pc'[c] \in {"ok", "undoTask"} /\ UNCHANGED <<req, locals>>
      BY <2>3, RowMoves DEF TypeOK
    <3>2. IsUp(c)' /\ accessPointId'[c] = RowOf(c).ap /\ req'[c].pod = p
          /\ targetGroupArn'[c] = RowOf(c).tg
      BY <3>1 DEF KindsFit, UpSteps, IsUp, RowOf, locals
    <3> QED
      BY <3>1, <3>2 DEF Names, RowOf, Own, UpSteps
  <2> QED
    BY <2>1, <2>2, <2>3
<1>3. EntriesFit'
  <2> SUFFICES ASSUME NEW d \in Call, pc'[d] \in DownSteps \ {"downGet"}
               PROVE  Names(entry[d], req[d].pod)'
    BY DEF EntriesFit
  <2>1. pc[d] \in DownSteps
    BY Frame, OwnMoves DEF Same, Goes, DownSteps, Steps
  <2>2. req'[d] = req[d] /\ req[d].pod \in Pods
    BY <2>1, EventStays DEF DownSteps, TypeOK, KindsFit, Event
  <2>3. CASE entry'[d] = entry[d] /\ pc[d] # "downGet"
    <3>1. PICK row, p : row = entry[d] /\ p = req[d].pod /\ Names(row, p)
      BY <2>1, <2>3 DEF EntriesFit
    <3>2. Names(row, p)'
      BY <3>1, NamesStay
    <3> QED
      BY <2>2, <2>3, <3>1, <3>2 DEF Names
  <2>4. CASE entry'[d] = registry[req[d].pod]
    BY <2>2, <2>4, NamesStay DEF RowsFit, Names
  <2>5. pc[d] = "downGet" => d = c /\ pc'[d] = "downTask"
    BY Frame, OwnMoves DEF Same, Goes, DownSteps
  <2> QED
    BY <2>3, <2>4, <2>5, Frame, RowMoves DEF Same
<1> QED
  BY <1>1, <1>2, <1>3

LEMMA SidesBeside ==
  ASSUME ReaperInv, SideInv, [ReaperNext]_allVars PROVE SideInv'
<1> USE ReaperAssumption DEF ReaperInv, PodPart, SideInv, TagInv
(* Nothing has been named after an invocation that begins, nor after one   *)
(* of the reaper's.                                                        *)
<1>1. ASSUME NEW c \in Call, apTags[c] = NoTags, stale[c] = {}, pc[c] = "idle" \/ ~IsUp(c),
             pc'[c] \in {"idle", "get", "downGet"},
             \A d \in Call : d # c => /\ pc'[d] = pc[d] /\ req'[d] = req[d]
                                      /\ entry'[d] = entry[d],
             UNCHANGED <<registry, accessPoints, apTags, accessPointId, stale,
                         targetGroupArn>>
      PROVE  SideInv'
  <2>1. TagsFit'
    BY <1>1 DEF TagsFit, IsUp, NoTags
  <2>2. Tagged' /\ StaleFit'
    BY <1>1 DEF Tagged, StaleFit, IsUp
  <2>3. ASSUME NEW row, NEW p, Names(row, p) PROVE Names(row, p)'
    BY <1>1, <2>3 DEF Names, IsUp
  <2>4. RowsFit'
    BY <1>1, <2>3 DEF RowsFit, Names
  <2>5. EntriesFit'
    <3> SUFFICES ASSUME NEW d \in Call, pc'[d] \in DownSteps \ {"downGet"}
                 PROVE  Names(entry[d], req[d].pod)'
      BY DEF EntriesFit
    <3>1. d # c
      BY <1>1 DEF DownSteps
    <3>2. PICK row, p : row = entry[d] /\ p = req[d].pod /\ Names(row, p)
      BY <1>1, <3>1 DEF EntriesFit
    <3>3. Names(row, p)'
      BY <2>3, <3>2
    <3> QED
      BY <1>1, <3>1, <3>2, <3>3 DEF Names
  <2> QED
    BY <2>1, <2>2, <2>4, <2>5
<1>2. ASSUME NEW c \in Call, NEW event \in Event, Begins(c, event) PROVE SideInv'
  <2>1. pc[c] = "idle" /\ apTags[c] = NoTags /\ stale[c] = {}
    BY <1>2 DEF Begins, At, WorkspaceInv, NothingMadeYet, Early, StaleFit
  <2> QED
    BY <1>1, <1>2, <2>1 DEF Begins, Goto, TypeOK, aws, efs, locals
<1>3. ASSUME NEW c \in ReaperCalls, Recycle(c) PROVE SideInv'
  <2>1. c \in Call /\ apTags[c] = NoTags /\ ~IsUp(c)
    BY <1>3 DEF ReapersOnlyKeep, Recycle, Answered, Answers, IsUp
  <2>2. stale[c] = {}
    BY <2>1 DEF StaleFit
  <2> QED
    BY <1>1, <1>3, <2>1, <2>2 DEF Recycle, Goto, TypeOK, aws, efs
<1>4. ASSUME NEW p \in Pods, NEW value \in BOOLEAN, SetIdle(p, value) PROVE SideInv'
  <2>1. /\ UNCHANGED <<accessPoints, apTags, pc, req, accessPointId, stale,
                      targetGroupArn, entry>>
        /\ registry' = [registry EXCEPT ![p].idleSince = value]
    BY <1>4 DEF SetIdle, efs, locals
  <2>2. TagInv' /\ EntriesFit'
    BY <2>1 DEF TagsFit, Tagged, StaleFit, EntriesFit, Names, IsUp
  <2>3. ASSUME NEW q \in Pods
        PROVE  /\ registry'[q].task = registry[q].task /\ registry'[q].ap = registry[q].ap
               /\ registry'[q].rule = registry[q].rule /\ registry'[q].tg = registry[q].tg
    BY <2>1 DEF TypeOK, Row
  <2>4. RowsFit'
    BY <2>1, <2>3 DEF RowsFit, Names, IsUp
  <2> QED
    BY <2>2, <2>4
<1>5. CASE UNCHANGED vars
  BY <1>5, StutterKeeps
  DEF TagsFit, Tagged, StaleFit, RowsFit, EntriesFit, Names, IsUp
<1> QED
  BY <1>2, <1>3, <1>4, <1>5, ActKeepsSides, ReaperSteps

(* Whatever users and the reaper do at once and whatever fails, every      *)
(* pod-up and every pod-down, the reaper's too, changes the row, the       *)
(* tasks, the rules and the access points of its own pod only, however old *)
(* the row is that the scan or the event took the pod's name from.         *)
THEOREM ReaperKeepsToItsPods ==
  ReaperSpec => [][\A c \in Call : Step(c) => KeepsToItsPod(c)]_allVars
<1>1. ReaperInit => SideInv
  BY TagInit DEF ReaperInit, Init, SideInv, RowsFit, EntriesFit, Names, NoRow, DownSteps
<1>2. ReaperInv /\ SideInv /\ [ReaperNext]_allVars => SideInv'
  BY SidesBeside
<1>3. ReaperInv /\ SideInv /\ [ReaperNext]_allVars =>
        [\A c \in Call : Step(c) => KeepsToItsPod(c)]_allVars
  BY StepsKeepToTheirPod DEF ReaperInv, PodPart, SideInv
<1> QED
  BY <1>1, <1>2, <1>3, ReaperInvHolds, PTL DEF ReaperSpec

(* The reaper's invocations have no part in the routes.                    *)
NoGroup(c) ==
  /\ targetGroupArn[c] = None /\ rules[c] = None
  /\ c \notin targetGroups /\ targets[c] = {}
  /\ \A d \in Call : targetGroupArn[d] # c /\ c \notin targets[d]
RouteSide == MadeInOrder /\ RouteInv /\ \A c \in ReaperCalls : NoGroup(c)

LEMMA ReapersHaveNoGroup ==
  ASSUME ReaperInv, RouteSide, NEW c \in Call, Act(c), NEW r \in ReaperCalls
  PROVE  NoGroup(r)'
<1> USE ReaperAssumption DEF ReaperInv, PodPart, RouteSide
<1>1. NoGroup(r) /\ r \in Call
  OBVIOUS
<1>2. c = r => pc[c] \notin UpSteps
  BY DEF ReapersOnlyKeep, KindsFit, IsUp, UpSteps
<1>3. rules'[r] = None
  BY <1>1, <1>2, ServiceFrame DEF NoGroup
<1>4. targetGroupArn'[r] = None
  BY <1>1, <1>2, Frame, OwnServices DEF NoGroup, Same, UpSteps
<1>5. r \notin targetGroups'
  BY <1>1, <1>2, GroupMoves DEF NoGroup, UpSteps
<1>6. ASSUME NEW d \in Call PROVE targetGroupArn'[d] # r
  <2>1. d # c => targetGroupArn'[d] = targetGroupArn[d]
    BY Frame DEF Same
  <2>2. GroupsNamed(TgName[req[c].pod]) \subseteq targetGroups
    BY DEF GroupsNamed
  <2> QED
    BY <1>1, <1>2, <2>1, <2>2, GroupMoves DEF NoGroup, UpSteps
<1>7. targets'[r] = {}
  BY <1>1, TargetMoves DEF NoGroup, TypeOK
<1>8. ASSUME NEW d \in Call PROVE r \notin targets'[d]
  BY <1>1, TargetMoves, ConstantsAssumption DEF NoGroup, TypeOK
<1> QED
  BY <1>1, <1>3, <1>4, <1>5, <1>6, <1>7, <1>8 DEF NoGroup

LEMMA RoutesBeside ==
  ASSUME TgNamesDiffer, ReaperInv, RouteSide, [ReaperNext]_allVars
  PROVE  RouteSide'
<1> USE ReaperAssumption DEF ReaperInv, PodPart, RouteSide, RouteInv
<1>1. ASSUME NEW c \in Call, Act(c) PROVE RouteSide'
  BY <1>1, MadeInOrderNext, GroupsFitNext, TargetsFitNext, ReapersHaveNoGroup
<1>2. ASSUME NEW c \in Call,
             targetGroupArn[c] = None, rules[c] = None, tasks[c] = "none",
             \A g \in targetGroups : g # c,
             \A d \in Call : targetGroupArn[d] # c /\ c \notin targets[d],
             targets[c] = {}, held[c] = {},
             \A d \in Call : d # c => pc'[d] = pc[d] /\ req'[d] = req[d],
             UNCHANGED <<targetGroups, targets, rules, tasks, targetGroupArn, held>>
      PROVE  RouteSide'
  <2>1. MadeInOrder'
    BY <1>2 DEF MadeInOrder, LiveTask
  <2>2. GroupsFit'
    BY <1>2, ConstantsAssumption DEF GroupsFit, TypeOK, OptCall
  <2>3. TargetsFit'
    BY <1>2 DEF TargetsFit, TypeOK
  <2>4. \A r \in ReaperCalls : NoGroup(r)'
    BY <1>2 DEF NoGroup
  <2> QED
    BY <2>1, <2>2, <2>3, <2>4
<1>3. ASSUME NEW c \in Call, NEW event \in Event, Begins(c, event) PROVE RouteSide'
  <2>1. pc[c] = "idle" /\ targetGroupArn[c] = None /\ rules[c] = None /\ tasks[c] = "none"
    BY <1>3 DEF Begins, At, MadeInOrder, BeforeRule, Early
  <2>2. /\ \A g \in targetGroups : g # c
        /\ \A d \in Call : targetGroupArn[d] # c /\ c \notin targets[d]
        /\ targets[c] = {}
    BY <2>1, ConstantsAssumption DEF GroupsFit, TargetsFit, TypeOK
  <2>3. /\ \A d \in Call : d # c => pc'[d] = pc[d] /\ req'[d] = req[d]
        /\ UNCHANGED <<targetGroups, targets, rules, tasks, targetGroupArn, held>>
        /\ pc'[c] \in {"get", "downGet"}
    BY <1>3 DEF Begins, Goto, TypeOK, aws, efs, elb, locals
  <2>4. MadeInOrder'
    BY <2>1, <2>3 DEF MadeInOrder, LiveTask, BeforeRule, Early
  <2>5. GroupsFit'
    BY <2>1, <2>2, <2>3, ConstantsAssumption DEF GroupsFit, TypeOK, OptCall
  <2>6. TargetsFit'
    BY <2>2, <2>3 DEF TargetsFit, TypeOK
  <2>7. \A r \in ReaperCalls : NoGroup(r)'
    BY <2>3 DEF NoGroup
  <2> QED
    BY <2>4, <2>5, <2>6, <2>7
<1>4. ASSUME NEW c \in ReaperCalls, Recycle(c) PROVE RouteSide'
  <2>1. c \in Call /\ NoGroup(c) /\ tasks[c] = "none" /\ held[c] = {}
    BY DEF ReapersOnlyKeep
  <2>2. /\ \A d \in Call : d # c => pc'[d] = pc[d] /\ req'[d] = req[d]
        /\ UNCHANGED <<targetGroups, targets, rules, tasks, targetGroupArn, held>>
    BY <1>4, <2>1 DEF Recycle, Goto, TypeOK, aws, elb
  <2> QED
    BY <1>2, <2>1, <2>2 DEF NoGroup
<1>5. ASSUME NEW p \in Pods, NEW value \in BOOLEAN, SetIdle(p, value) PROVE RouteSide'
  BY <1>5 DEF SetIdle, elb, locals, MadeInOrder, LiveTask, GroupsFit, TargetsFit, NoGroup
<1>6. CASE UNCHANGED vars
  BY <1>6, StutterKeeps DEF MadeInOrder, LiveTask, GroupsFit, TargetsFit, NoGroup
<1> QED
  BY <1>1, <1>3, <1>4, <1>5, <1>6, ReaperSteps

(* Where no two pods share a target group's name, a listener rule leads to *)
(* its own pod, and no pod-up and no pod-down touches the group of another *)
(* pod, whatever the reaper takes down beside the users.                   *)
THEOREM ReaperLeavesRulesHome ==
  ASSUME TgNamesDiffer
  PROVE  ReaperSpec => /\ []RulesLeadHome
                       /\ [][\A c \in Call : Step(c) => GroupsKept(c)]_allVars
<1>1. ReaperInit => SideInv /\ RouteSide
  <2> SUFFICES ASSUME ReaperInit PROVE SideInv /\ RouteSide
    OBVIOUS
  <2>1. SideInv
    BY TagInit DEF ReaperInit, Init, SideInv, RowsFit, EntriesFit, Names, NoRow, DownSteps
  <2>2. RouteSide
    <3>1. MadeInOrder
      BY StepInvInit DEF ReaperInit, StepInv
    <3>2. GroupsFit /\ TargetsFit
      BY DEF ReaperInit, Init, GroupsFit, TargetsFit
    <3>3. \A c \in ReaperCalls : NoGroup(c)
      BY ReaperAssumption, ConstantsAssumption DEF ReaperInit, Init, NoGroup
    <3> QED
      BY <3>1, <3>2, <3>3 DEF RouteSide, RouteInv
  <2> QED
    BY <2>1, <2>2
<1>2. ReaperInv /\ SideInv /\ RouteSide /\ [ReaperNext]_allVars => SideInv' /\ RouteSide'
  BY SidesBeside, RoutesBeside
<1>3. ReaperInv /\ RouteSide => RulesLeadHome
  BY GroupsLeadHome DEF ReaperInv, PodPart, RouteSide
<1>4. ReaperInv /\ SideInv /\ RouteSide /\ [ReaperNext]_allVars =>
        [\A c \in Call : Step(c) => GroupsKept(c)]_allVars
  BY StepsKeepTheirGroups DEF ReaperInv, PodPart, SideInv, RouteSide
<1> QED
  BY <1>1, <1>2, <1>3, <1>4, ReaperInvHolds, PTL DEF ReaperSpec

=============================================================================
