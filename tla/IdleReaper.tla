----------------------------- MODULE IdleReaper -----------------------------
(***************************************************************************)
(* The idle-reaper Lambda (infra/lambda/idle-reaper/handler.ts) composed   *)
(* with the pod-manager it invokes and the registry it shares with it.     *)
(*                                                                         *)
(* EventBridge starts a scan every five minutes and Lambda ends it after   *)
(* two, so scans never overlap each other; they overlap pod-ups, pod-downs *)
(* and the handlers of ECS "task STOPPED" events, of which there may be    *)
(* one for every task.  One action is one awaited AWS call.                *)
(*                                                                         *)
(* The reaper's pod-downs are PodLifecycle invocations of their own,       *)
(* ReaperCalls.  A pod-down creates nothing, so its name can serve again   *)
(* once it has answered: the reaper may invoke `down` any number of times. *)
(***************************************************************************)
EXTENDS PodLifecycle

CONSTANTS
  ReaperCalls,  \* the invocations the reaper makes; users make the others
  NeverIdle,    \* the pods brought up with --idle 0
  MaxThrows     \* bound on the reaper's AWS calls that throw or time out

ASSUME ReaperAssumption ==
  ReaperCalls \subseteq Call /\ NeverIdle \subseteq Pods
    /\ MaxThrows \in Nat

VARIABLES
  scan,       \* the scan in progress: where it is and its local variables
  stopEvent,  \* the STOPPED event of each task: not handled, its pod, handled
  aged,       \* the tasks whose row is older than its idle window
  quiet,      \* the target groups with a window of RequestCount 0
  warned,     \* history: pod -> a warning was sent and no scan saw a request
  throws      \* history: how many of the reaper's calls have thrown

reaper  == <<scan, stopEvent, aged, quiet, warned, throws>>
allVars == <<vars, reaper>>

ScanSteps == {"off", "next", "clear", "mark", "notify", "invoke", "answer"}
NoScan == [at |-> "off", rows |-> [p \in Pods |-> NoRow], todo |-> {},
           pod |-> None, call |-> None]

ReaperTypeOK ==
  /\ TypeOK
  /\ scan \in [at : ScanSteps, rows : [Pods -> Row], todo : SUBSET Pods,
               pod : Pods \cup {None}, call : ReaperCalls \cup {None}]
  /\ stopEvent \in [Call -> {"none", "handled"} \cup Pods]
  /\ aged \subseteq Call /\ quiet \subseteq Call
  /\ warned \in [Pods -> BOOLEAN] /\ throws \in 0 .. MaxThrows

ReaperInit ==
  /\ Init
  /\ scan = NoScan
  /\ stopEvent = [t \in Call |-> "none"]
  /\ aged = {} /\ quiet = {}
  /\ warned = [p \in Pods |-> FALSE] /\ throws = 0

-----------------------------------------------------------------------------
(* invokeDown: the payload is the pod's name and keepWorkspace.            *)

DownEvent(p) == [action |-> "down", pod |-> p, mode |-> None, owner |-> None,
                 keep |-> TRUE]

(* Mutant: the reaper releases the workspace.                              *)
DownEventReleasing(p) == [DownEvent(p) EXCEPT !.keep = FALSE]

InvokeDownWith(c, event) ==
  /\ c \in ReaperCalls /\ At(c, "idle")
  /\ req' = [req EXCEPT ![c] = event]
  /\ Goto(c, "downGet")
  /\ UNCHANGED <<aws, locals>>
InvokeDownReleasing(c, p) == InvokeDownWith(c, DownEventReleasing(p))
InvokeDown(c, p) == InvokeDownWith(c, DownEvent(p))

Answered(c) == pc[c] \in Answers \cup {"dead"}

(* The name of an answered pod-down of the reaper serves again.            *)
Recycle(c) ==
  /\ c \in ReaperCalls /\ Answered(c) /\ scan.call # c
  /\ Goto(c, "idle")
  /\ req' = [req EXCEPT ![c] = NoEvent]
  /\ entry' = [entry EXCEPT ![c] = NoRow]
  /\ UNCHANGED <<aws, uid, accessPointId, stale, targetGroupArn, held, reaper>>

-----------------------------------------------------------------------------
(* runIdleScan.                                                            *)

MoveScan(step) == scan' = [scan EXCEPT !.at = step]

(* The filters of the loop: browser pods with a target group, idleMinutes  *)
(* not 0, and older than their idle window.                                *)
Candidates ==
  {p \in Pods \ NeverIdle :
     /\ registry[p].mode = "browser" /\ registry[p].tg # None
     /\ registry[p].task \in aged}

(* listPods; nowMs is read next, so the ages are those of this moment.     *)
ScanLists ==
  /\ scan.at = "off"
  /\ scan' = [NoScan EXCEPT !.at = "next", !.rows = registry, !.todo = Candidates]
  /\ UNCHANGED <<vars, stopEvent, aged, quiet, warned, throws>>

(* Mutant: the first idle detection already stops the pod.                 *)
VerdictOnePhase(row) ==
  IF row.tg \in quiet THEN "invoke"
  ELSE IF row.idleSince THEN "clear" ELSE "next"

(* Mutant: the metric is queried without the load balancer's dimension, so *)
(* it has no data points.                                                  *)
VerdictNoDatapoints(row) == IF row.idleSince THEN "clear" ELSE "next"

(* The two phases, decided on the row as it was listed.                    *)
Verdict(row) ==
  CASE row.tg \in quiet /\ row.idleSince    -> "invoke"
    [] row.tg \in quiet /\ ~row.idleSince   -> "mark"
    [] row.tg \notin quiet /\ row.idleSince -> "clear"
    [] OTHER                                -> "next"

(* browserIdleSince: no data points count as active.                       *)
ScanReadsMetric ==
  \E p \in scan.todo :
    /\ scan.at = "next"
    /\ scan' = [scan EXCEPT !.at = Verdict(scan.rows[p]), !.pod = p,
                            !.todo = @ \ {p}]
    /\ UNCHANGED <<vars, stopEvent, aged, quiet, warned, throws>>

SetIdle(p, value) ==
  /\ registry' = [registry EXCEPT ![p].idleSince = value]
  /\ UNCHANGED <<efs, elb, tasks, pc, req, locals>>

(* clearIdleSince: REMOVE, which does nothing to a row that is gone.       *)
ScanClears ==
  /\ scan.at = "clear"
  /\ SetIdle(scan.pod, FALSE)
  /\ MoveScan("next")
  /\ warned' = [warned EXCEPT ![scan.pod] = FALSE]
  /\ UNCHANGED <<stopEvent, aged, quiet, throws>>

(* setIdleSince: SET, which creates the row when it is gone.               *)
ScanMarks ==
  /\ scan.at = "mark"
  /\ SetIdle(scan.pod, TRUE)
  /\ MoveScan("notify")
  /\ UNCHANGED <<stopEvent, aged, quiet, warned, throws>>

ScanNotifies ==
  /\ scan.at = "notify"
  /\ MoveScan("next")
  /\ warned' = [warned EXCEPT ![scan.pod] = TRUE]
  /\ UNCHANGED <<vars, stopEvent, aged, quiet, throws>>

ScanInvokesDown(c) ==
  /\ scan.at = "invoke"
  /\ InvokeDown(c, scan.pod)
  /\ scan' = [scan EXCEPT !.at = "answer", !.call = c]
  /\ UNCHANGED <<stopEvent, aged, quiet, warned, throws>>

(* RequestResponse: the scan waits for the answer and does not look at it. *)
ScanGetsAnswer ==
  /\ scan.at = "answer" /\ Answered(scan.call)
  /\ scan' = [scan EXCEPT !.at = "next", !.call = None]
  /\ UNCHANGED <<vars, stopEvent, aged, quiet, warned, throws>>

ScanEnds ==
  /\ scan.at = "next" /\ scan.todo = {}
  /\ scan' = NoScan
  /\ UNCHANGED <<vars, stopEvent, aged, quiet, warned, throws>>

(* A call throws, or the Lambda times out: the handler logs it and the     *)
(* rest of the scan does not happen.                                       *)
ScanFails ==
  /\ throws < MaxThrows /\ scan.at # "off"
  /\ scan' = NoScan /\ throws' = throws + 1
  /\ UNCHANGED <<vars, stopEvent, aged, quiet, warned>>

ScanStep ==
  \/ ScanLists \/ ScanReadsMetric \/ ScanClears \/ ScanMarks \/ ScanNotifies
  \/ (\E c \in ReaperCalls : ScanInvokesDown(c)) \/ ScanGetsAnswer \/ ScanEnds

-----------------------------------------------------------------------------
(* handleTaskStateChange.                                                  *)

(* Mutant: the name is taken from the row before the row was looked at.    *)
NamingRowsUnchecked(t) ==
  LET rows == {p \in Pods : registry[p].task = t} IN IF rows = {} THEN {None} ELSE rows
NamingRows(t) == {p \in Pods : registry[p].task = t}

(* The STOPPED event of t, and listPods: the row that names the task.      *)
EventLists(t) ==
  /\ tasks[t] = "stopped" /\ stopEvent[t] = "none"
  /\ \/ \E p \in NamingRows(t) : stopEvent' = [stopEvent EXCEPT ![t] = p]
     \/ NamingRows(t) = {} /\ stopEvent' = [stopEvent EXCEPT ![t] = "handled"]
  /\ UNCHANGED <<vars, scan, aged, quiet, warned, throws>>

(* listPods or the invocation throws: the event is not delivered again.    *)
EventFails(t) ==
  /\ throws < MaxThrows /\ tasks[t] = "stopped" /\ stopEvent[t] # "handled"
  /\ stopEvent' = [stopEvent EXCEPT ![t] = "handled"] /\ throws' = throws + 1
  /\ UNCHANGED <<vars, scan, aged, quiet, warned>>

EventInvokesDown(t, c) ==
  /\ stopEvent[t] \in Pods
  /\ InvokeDown(c, stopEvent[t])
  /\ stopEvent' = [stopEvent EXCEPT ![t] = "handled"]
  /\ UNCHANGED <<scan, aged, quiet, warned, throws>>

EventStep(t) == EventLists(t) \/ \E c \in ReaperCalls : EventInvokesDown(t, c)

-----------------------------------------------------------------------------
(* Time and traffic.  ELB counts the requests it forwards to a target.     *)

Ages(p) ==
  /\ registry[p].task # None
  /\ aged' = aged \cup {registry[p].task}
  /\ UNCHANGED <<vars, scan, stopEvent, quiet, warned, throws>>

GoesQuiet(g) ==
  /\ g \in targetGroups /\ targets[g] # {}
  /\ quiet' = quiet \cup {g}
  /\ UNCHANGED <<vars, scan, stopEvent, aged, warned, throws>>

RequestArrives(g) ==
  /\ g \in quiet /\ Forwarded(g) /\ \E t \in targets[g] : LiveTask(t)
  /\ quiet' = quiet \ {g}
  /\ UNCHANGED <<vars, scan, stopEvent, aged, warned, throws>>

-----------------------------------------------------------------------------

(* A new invocation of a user.  Overlap speaks of what users do: they do   *)
(* not know of the reaper's pod-downs, and overlap them.                   *)
UserInvokes(c, event, first) ==
  /\ \A d \in Call \ ReaperCalls : Active(d) /\ req[d].pod = event.pod =>
       MayOverlap(req[d].action, event.action)
  /\ req' = [req EXCEPT ![c] = event]
  /\ Goto(c, first)
  /\ UNCHANGED <<aws, locals>>
UserStarts(c) ==
  /\ c \in Call \ ReaperCalls /\ At(c, "idle")
  /\ \E p \in Pods :
       \/ \E m \in Modes, o \in Owners \cup {None} :
            UserInvokes(c, [action |-> "up", pod |-> p, mode |-> m, owner |-> o,
                            keep |-> TRUE], "get")
       \/ \E keep \in BOOLEAN :
            UserInvokes(c, [DownEvent(p) EXCEPT !.keep = keep], "downGet")

PodManager(c) ==
  /\ \/ UserStarts(c) \/ Step(c) \/ UpFails(c) \/ DownFails(c)
     \/ LambdaDies(c) \/ TaskStarts(c) \/ TaskStops(c)
  /\ UNCHANGED reaper

ReaperNext ==
  \/ \E c \in Call :
       \/ PodManager(c) \/ Recycle(c) \/ EventStep(c) \/ EventFails(c)
       \/ GoesQuiet(c) \/ RequestArrives(c)
  \/ \E p \in Pods : Ages(p)
  \/ ScanStep \/ ScanFails

ReaperSpec == ReaperInit /\ [][ReaperNext]_allVars

(* Some invocation that can go on does, EventBridge starts the scans and   *)
(* delivers the events, and time passes: a row gets old, and a target      *)
(* group no task serves any more stays without requests for a whole        *)
(* window.  Users need do nothing.                                         *)
ReaperFairSpec ==
  /\ ReaperSpec
  /\ WF_allVars(\E c \in Call : Step(c) /\ UNCHANGED reaper)
  /\ WF_allVars(ScanStep)
  /\ WF_allVars(\E c \in ReaperCalls : Recycle(c))
  /\ SF_allVars(\E t \in Call : EventStep(t))
  /\ WF_allVars(\E g \in Call : GoesQuiet(g) /\ ~\E t \in targets[g] : LiveTask(t))
  /\ WF_allVars(\E p \in Pods : Ages(p))

-----------------------------------------------------------------------------
(* What holds however the reaper and the users overlap.                    *)

(* The reaper stops a pod as idle only after a warning that names it was   *)
(* published and with no request seen by a scan since (the two phases), as *)
(* long as none of its calls has thrown: it sets idleSince before it       *)
(* publishes, so after a failed publish the next scan stops the pod.       *)
ReapedPodWasWarned ==
  throws = 0 /\ scan.at \in {"invoke", "answer"} => warned[scan.pod]

(* A workspace a pod-up has handed to its user goes away only when a user  *)
(* asks for it: no scan and no STOPPED event ever deletes an access point. *)
UserReleased(a) ==
  \E c \in Call \ ReaperCalls :
    At(c, "downAp") /\ ~req[c].keep /\ entry[c].ap = a
WorkspaceSurvivesReaper ==
  [][\A a \in accessPoints :
       Adopted(a) /\ ~UserReleased(a) => a \in accessPoints']_allVars

(* A registered browser pod that serves nobody does not stay: its task has *)
(* stopped, and the event cleans it up, or a scan when the event came      *)
(* before the row; or it was without requests for its whole idle window,   *)
(* and a scan stops it unless a request comes first.  This leaves out the  *)
(* pod whose task podUp got no address for: ELB reports no RequestCount    *)
(* for a group without targets, a scan takes no data points for activity,  *)
(* and only the STOPPED event can still end such a pod.                    *)
ServesNobody(p, t) ==
  /\ registry[p].task = t /\ registry[p].mode = "browser"
  /\ "address" \in held[t]
  /\ tasks[t] = "stopped" \/ (t \in aged /\ registry[p].tg \in quiet)
UselessPodIsReaped ==
  \A p \in Pods \ NeverIdle, t \in Call \ ReaperCalls :
    ServesNobody(p, t) ~>
      registry[p].task # t \/ (LiveTask(t) /\ registry[p].tg \notin quiet)

-----------------------------------------------------------------------------
(* What the documents say, and the code does not do.                       *)

(* "if a pod's task stops for any reason [...] invoke pod-manager down to  *)
(* clean up" (handler.ts): a registered pod whose task stopped is cleaned. *)
StoppedPodIsCleaned ==
  \A p \in Pods, t \in Call :
    registry[p].task = t /\ tasks[t] = "stopped" ~> registry[p].task # t
=============================================================================
