----------------------------- MODULE TunnelPod ------------------------------
(***************************************************************************)
(* Tunnel pods and the tunnels of one account: the tunnel cap warning of   *)
(* pod-up (actions.ts), the container's entrypoint from login to SIGTERM   *)
(* (runtime/vscode-tunnel/entrypoint.sh), and the log poller that hands    *)
(* the device code to the user (scripts/tunnel-poll-logs.ts).  `code` and  *)
(* ECS are external.  Every task is a pod-up of its own; time is counted   *)
(* in seconds from the SIGTERM of a container.                             *)
(***************************************************************************)
EXTENDS FiniteSets, Naturals

CONSTANTS
  Tasks, PodOf,  \* the tasks that are ever started, and their pods
  Cap,           \* tunnels per account
  MaxUps,        \* bound on the pod-ups at one time
  Grace,         \* stopTimeout: seconds from SIGTERM to SIGKILL
  Loop,          \* seconds that on_term waits for the CLI
  Limit,         \* seconds that `code tunnel unregister` may take
  TermAt,        \* in which phases a SIGTERM may arrive
  Faults,        \* "scan": registryScan fails, "die": containers crash,
                 \* "unregister": `code tunnel unregister` fails
  None

VARIABLES
  up,      \* the step of each task's pod-up and pod-down
  warned,  \* the tasks whose pod-up answered with the cap warning
  box,     \* the container of each task
  slots,   \* the tasks whose tunnel is registered with the account
  prompts, \* the log streams that hold a device code
  poll     \* the poller of each task's pod-up: "off", "on", or what it printed

vars == <<up, warned, box, slots, prompts, poll>>

Phases  == {"off", "login", "fork", "wait", "stopping", "unregister", "leaving",
            "exited", "died", "killed"}
Ended   == {"exited", "died", "killed"}
UpSteps == {"none", "counted", "started", "row", "stopping", "down", "failed"}

TypeOK ==
  /\ up \in [Tasks -> UpSteps] /\ warned \subseteq Tasks
  /\ box \in [Tasks -> [phase : Phases, cli : BOOLEAN, term : BOOLEAN,
                        sec : 0 .. Grace, left : 0 .. Loop + Limit]]
  /\ \A t \in Tasks :
       /\ (box[t].phase = "off") = (up[t] \in {"none", "counted"})
       /\ box[t].phase \in Ended => ~box[t].cli
       /\ box[t].phase \in {"stopping", "unregister", "leaving"} => box[t].term
       /\ up[t] \in {"stopping", "down"} => box[t].term \/ box[t].phase \in Ended
  /\ slots \subseteq Tasks /\ Cardinality(slots) <= Cap
  /\ prompts \subseteq Tasks
  /\ poll \in [Tasks -> {"off", "on", None} \cup Tasks]

Init ==
  /\ up = [t \in Tasks |-> "none"] /\ warned = {}
  /\ box = [t \in Tasks |-> [phase |-> "off", cli |-> FALSE, term |-> FALSE,
                             sec |-> 0, left |-> 0]]
  /\ slots = {} /\ prompts = {} /\ poll = [t \in Tasks |-> "off"]

-----------------------------------------------------------------------------
(* pod-up and pod-down, as far as the warning and the container see them.  *)

GoesOn(t, step, next) == up[t] = step /\ up' = [up EXCEPT ![t] = next]
InFlight == {t \in Tasks : up[t] \in {"counted", "started"}}
Rows     == {t \in Tasks : up[t] \in {"row", "stopping"}}

(* Mutant: the warning comes with the pod after the next.                  *)
CapExceeded == Cardinality(Rows) > Cap
CapReached  == Cardinality(Rows) >= Cap

(* tunnelCapWarning: the registry's rows, before the task has one.         *)
UpCounts(t) ==
  /\ Cardinality(InFlight) < MaxUps
  /\ GoesOn(t, "none", "counted")
  /\ \/ warned' = IF CapReached THEN warned \cup {t} ELSE warned
     \/ "scan" \in Faults /\ UNCHANGED warned
  /\ UNCHANGED <<box, slots, prompts, poll>>

UpRunsTask(t) ==
  /\ GoesOn(t, "counted", "started")
  /\ box' = [box EXCEPT ![t].phase = "login"]
  /\ UNCHANGED <<warned, slots, prompts, poll>>

(* waitForTaskRunning and registryPut; then pod-up.yml starts the poller.  *)
(* A task that stopped before is rolled back.                              *)
UpEnds(t) ==
  /\ IF box[t].phase \in Ended THEN GoesOn(t, "started", "failed") /\ UNCHANGED poll
     ELSE GoesOn(t, "started", "row") /\ poll' = [poll EXCEPT ![t] = "on"]
  /\ UNCHANGED <<warned, box, slots, prompts>>

(* Mutants: the tunnel is unregistered at once; the wait has no bound.     *)
UnregistersAtOnce(b) ==
  IF b.phase \in {"wait", "fork"}
  THEN [b EXCEPT !.term = TRUE, !.phase = "unregister", !.left = Limit]
  ELSE [b EXCEPT !.term = TRUE]
WaitsForCli(b) ==
  IF b.phase = "wait"
  THEN [b EXCEPT !.term = TRUE, !.phase = "stopping", !.left = Loop + Limit]
  ELSE [b EXCEPT !.term = TRUE]

(* on_term: the CLI is told to end, or killed after Loop seconds, and the  *)
(* tunnel is unregistered after that.  Between `code tunnel &` and         *)
(* `child=$!` there is nobody to end.  During the login bash has no trap   *)
(* and, as PID 1, drops the signal.                                        *)
OnTerm(b) ==
  CASE b.phase = "wait" -> [b EXCEPT !.term = TRUE, !.phase = "stopping", !.left = Loop]
    [] b.phase = "fork" -> [b EXCEPT !.term = TRUE, !.phase = "unregister", !.left = Limit]
    [] OTHER            -> [b EXCEPT !.term = TRUE]

(* podDown: stopTask, which makes ECS send SIGTERM, and registryDelete.    *)
DownStopsTask(t) ==
  /\ box[t].phase \in TermAt \cup Ended
  /\ GoesOn(t, "row", "stopping")
  /\ box' = IF box[t].phase \in Ended THEN box ELSE [box EXCEPT ![t] = OnTerm(@)]
  /\ UNCHANGED <<warned, slots, prompts, poll>>
DownDeletesRow(t) ==
  /\ GoesOn(t, "stopping", "down")
  /\ UNCHANGED <<warned, box, slots, prompts, poll>>

-----------------------------------------------------------------------------
(* The container.                                                          *)

Box(t, phase, b) == box[t].phase = phase /\ box' = [box EXCEPT ![t] = b]
Container(t) == UNCHANGED <<up, warned, poll>>

(* The login prints the device code and ends when the user entered it.     *)
PrintsPrompt(t) ==
  /\ box[t].phase = "login" /\ t \notin prompts
  /\ prompts' = prompts \cup {t}
  /\ UNCHANGED <<box, slots>> /\ Container(t)

LogsIn(t) ==
  /\ t \in prompts
  /\ Box(t, "login", [box[t] EXCEPT !.phase = "fork", !.cli = TRUE])
  /\ UNCHANGED <<slots, prompts>> /\ Container(t)

SetsChild(t) ==
  /\ Box(t, "fork", [box[t] EXCEPT !.phase = "wait"])
  /\ UNCHANGED <<slots, prompts>> /\ Container(t)

StopsCli(t) ==
  /\ Box(t, "stopping", [box[t] EXCEPT !.phase = "unregister", !.cli = FALSE, !.left = Limit])
  /\ UNCHANGED <<slots, prompts>> /\ Container(t)

(* Best effort: cut off by `timeout`, or failed, it is only logged.        *)
Unregisters(t) ==
  /\ Box(t, "unregister", [box[t] EXCEPT !.phase = "leaving"])
  /\ slots' \in IF "unregister" \in Faults THEN {slots, slots \ {t}} ELSE {slots \ {t}}
  /\ UNCHANGED prompts /\ Container(t)

Exits(t) ==
  /\ Box(t, "leaving", [box[t] EXCEPT !.phase = "exited", !.cli = FALSE, !.left = 0])
  /\ UNCHANGED <<slots, prompts>> /\ Container(t)

(* The CLI registers its tunnel, and does so again when it is gone.  At    *)
(* the cap it deletes an unused one.                                       *)
Unused == {u \in slots : ~box[u].cli}
Registers(t) ==
  /\ box[t].cli /\ t \notin slots
  /\ IF Cardinality(slots) < Cap THEN slots' = slots \cup {t}
     ELSE \E u \in Unused : slots' = (slots \ {u}) \cup {t}
  /\ UNCHANGED <<box, prompts>> /\ Container(t)

(* A crash, or the CLI ends by itself and its exit code is passed on.      *)
Dies(t) ==
  /\ "die" \in Faults /\ box[t].phase \notin Ended \cup {"off"}
  /\ box' = [box EXCEPT ![t].phase = "died", ![t].cli = FALSE]
  /\ UNCHANGED <<slots, prompts>> /\ Container(t)

Timed == {"stopping", "unregister"}
Tick(t) ==
  /\ box[t].term /\ box[t].phase \notin Ended /\ box[t].sec < Grace
  /\ box[t].phase \in Timed => box[t].left > 0
  /\ box[t].phase \notin {"fork", "leaving"}
  /\ box' = [box EXCEPT ![t].sec = @ + 1,
                        ![t].left = IF box[t].phase \in Timed THEN @ - 1 ELSE @]
  /\ UNCHANGED <<slots, prompts>> /\ Container(t)

EcsKills(t) ==
  /\ box[t].term /\ box[t].sec = Grace /\ box[t].phase \notin Ended
  /\ box' = [box EXCEPT ![t].phase = "killed", ![t].cli = FALSE]
  /\ UNCHANGED <<slots, prompts>> /\ Container(t)

-----------------------------------------------------------------------------
(* The poller filters the log group by one stream until the deadline.      *)

(* Mutant: every stream of the pod.                                        *)
PodStreams(t) == {u \in Tasks : PodOf[u] = PodOf[t]}
TunnelLogStreamName(t) == {t}

PollFinds(t) ==
  /\ poll[t] = "on"
  /\ \E u \in TunnelLogStreamName(t) \cap prompts : poll' = [poll EXCEPT ![t] = u]
  /\ UNCHANGED <<up, warned, box, slots, prompts>>
PollTimesOut(t) ==
  /\ poll[t] = "on"
  /\ poll' = [poll EXCEPT ![t] = None]
  /\ UNCHANGED <<up, warned, box, slots, prompts>>

PodManager(t) ==
  UpCounts(t) \/ UpRunsTask(t) \/ UpEnds(t) \/ DownStopsTask(t) \/ DownDeletesRow(t)
Entrypoint(t) ==
  PrintsPrompt(t) \/ LogsIn(t) \/ SetsChild(t) \/ StopsCli(t) \/ Unregisters(t) \/ Exits(t)
Platform(t) == Registers(t) \/ Dies(t) \/ Tick(t) \/ EcsKills(t)
Next == \E t \in Tasks :
  PodManager(t) \/ Entrypoint(t) \/ Platform(t) \/ PollFinds(t) \/ PollTimesOut(t)
Spec == Init /\ [][Next]_vars

-----------------------------------------------------------------------------

(* "pod-down frees the slot": a container that was told to end, and ended, *)
(* leaves no tunnel, unless its unregister failed or it crashed meanwhile. *)
PodDownFreesSlot ==
  \A t \in Tasks :
    box[t].term /\ box[t].phase \in {"exited", "killed"} => t \notin slots

(* "To fit the container's 30 s stopTimeout": ECS never has to kill it.    *)
StopsBeforeKill == \A t \in Tasks : box[t].phase # "killed"

(* However pod-ups overlap, the tunnel pods that were started without a    *)
(* warning exceed the cap by at most the other pod-ups of that time.       *)
UnwarnedFitTheCap ==
  Cardinality({t \in Tasks : up[t] \in {"started", "row"} /\ t \notin warned})
    <= Cap + MaxUps - 1

(* The code that a pod-up shows is the one its own task printed: entering  *)
(* another's would sign the account in somewhere else.                     *)
CodeIsTheTasks == \A t \in Tasks : poll[t] \in {"off", "on", None, t}
=============================================================================
