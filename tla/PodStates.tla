----------------------------- MODULE PodStates ------------------------------
(***************************************************************************)
(* What the pod-manager promises of a pod, without the AWS calls it takes: *)
(* the states of docs/diagrams/pod-lifecycle/pod-state-machine.md as the   *)
(* `up` and `down` handlers go through them.  "down" is the diagram's "no  *)
(* pod" or, with a workspace, "workspace retained"; "creating" and         *)
(* "resuming" are its "starting"; "stopping" and "releasing" its           *)
(* "stopping".  The states of the idle reaper are not in it.               *)
(*                                                                         *)
(* The promise is for invocations on one pod that do not overlap, while    *)
(* teardown calls succeed and no invocation is killed.                     *)
(***************************************************************************)
CONSTANTS Pods, WorkspaceIds, None

VARIABLES
  phase,      \* the state of each pod
  workspace,  \* the workspace each pod has, or None
  used        \* the workspaces ever created: none comes back

vars == <<phase, workspace, used>>

Init ==
  /\ phase = [p \in Pods |-> "down"]
  /\ workspace = [p \in Pods |-> None]
  /\ used = {}

Enter(p, state) == phase' = [phase EXCEPT ![p] = state]

(* A pod-up makes a workspace only for a pod that has none ...             *)
Create(p) ==
  /\ phase[p] = "down" /\ workspace[p] = None
  /\ \E w \in WorkspaceIds \ used :
       /\ workspace' = [workspace EXCEPT ![p] = w]
       /\ used' = used \cup {w}
  /\ Enter(p, "creating")

(* ... and otherwise works with the one it has.                            *)
Resume(p) ==
  /\ phase[p] = "down" /\ workspace[p] # None
  /\ Enter(p, "resuming")
  /\ UNCHANGED <<workspace, used>>

(* The registry row is written; the task may have stopped already.         *)
Serve(p) ==
  /\ phase[p] \in {"creating", "resuming"}
  /\ Enter(p, "running") \/ Enter(p, "orphaned")
  /\ UNCHANGED <<workspace, used>>

(* A rollback ends where the pod-up began: no workspace, or the old one.   *)
UndoCreate(p) ==
  /\ phase[p] = "creating"
  /\ Enter(p, "down")
  /\ workspace' = [workspace EXCEPT ![p] = None]
  /\ UNCHANGED used

UndoResume(p) ==
  /\ phase[p] = "resuming"
  /\ Enter(p, "down")
  /\ UNCHANGED <<workspace, used>>

TaskDies(p) ==
  /\ phase[p] = "running"
  /\ Enter(p, "orphaned")
  /\ UNCHANGED <<workspace, used>>

(* A pod-down, with keepWorkspace and without.                             *)
Stop(p) ==
  /\ phase[p] \in {"running", "orphaned"}
  /\ Enter(p, "stopping") \/ Enter(p, "releasing")
  /\ UNCHANGED <<workspace, used>>

(* A pod-down that fails half-way has stopped the task, kept the row and   *)
(* not touched the workspace, so another pod-down can finish.              *)
Abort(p) ==
  /\ phase[p] \in {"stopping", "releasing"} /\ workspace[p] # None
  /\ Enter(p, "orphaned")
  /\ UNCHANGED <<workspace, used>>

Release(p) ==
  /\ phase[p] = "releasing"
  /\ workspace' = [workspace EXCEPT ![p] = None]
  /\ UNCHANGED <<phase, used>>

Finish(p) ==
  /\ phase[p] = "stopping" \/ (phase[p] = "releasing" /\ workspace[p] = None)
  /\ Enter(p, "down")
  /\ UNCHANGED <<workspace, used>>

Next ==
  \E p \in Pods :
    \/ Create(p) \/ Resume(p) \/ Serve(p) \/ UndoCreate(p) \/ UndoResume(p)
    \/ TaskDies(p) \/ Stop(p) \/ Abort(p) \/ Release(p) \/ Finish(p)

Spec == Init /\ [][Next]_vars
=============================================================================
