--------------------------- MODULE PodRefinement ----------------------------
(***************************************************************************)
(* PodLifecycle implements PodStates: a pod's state is derived from the    *)
(* registry row, the status of the row's task, the access point tagged     *)
(* with the pod's name and the invocation in flight.  No status is stored. *)
(***************************************************************************)
EXTENDS PodLifecycle

(* A pod-up has its workspace and neither answered nor rolled it back.     *)
Constructing(c) ==
  pc[c] \in {"taskDef", "tg", "rule", "run", "wait", "target", "put"} \cup UndoSteps
(* A pod-down has read the row and not answered.                           *)
Dismantling(c) == pc[c] \in DownSteps \ {"downGet"}

On(p) == {c \in Call : pc[c] # "idle" /\ req[c].pod = p}

Stopping(p)  == \E c \in On(p) : Dismantling(c) /\ req[c].keep
Releasing(p) == \E c \in On(p) : Dismantling(c) /\ ~req[c].keep
Creating(p)  == \E c \in On(p) : Constructing(c) /\ "ap" \in held[c]
Resuming(p)  == \E c \in On(p) : Constructing(c) /\ "ap" \notin held[c]

PhaseOf(p) ==
  CASE Stopping(p)  -> "stopping"
    [] Releasing(p) -> "releasing"
    [] Creating(p)  -> "creating"
    [] Resuming(p)  -> "resuming"
    [] OTHER -> IF ~Registered(p) THEN "down"
                ELSE IF LiveTask(registry[p].task) THEN "running"
                ELSE "orphaned"

WorkspaceOf(p) ==
  IF Workspaces(p) = {} THEN None ELSE CHOOSE a \in Workspaces(p) : TRUE

States == INSTANCE PodStates WITH
  WorkspaceIds <- Call,
  phase        <- [p \in Pods |-> PhaseOf(p)],
  workspace    <- [p \in Pods |-> WorkspaceOf(p)],
  used         <- {a \in Call : apTags[a] # NoTags}

(* Whatever call of podUp or podDown fails and whenever tasks stop, every  *)
(* AWS call either moves its pod along the state machine or leaves it in   *)
(* its state: a rollback ends where the pod-up began, a workspace goes     *)
(* only by a rollback of its own creation or by a pod-down asked to        *)
(* release it, and no AWS call for one pod changes the state of another.   *)
ImplementsPodStates == States!Spec
=============================================================================
