-------------------------- MODULE TunnelPodProofs ---------------------------
(* Theorems about TunnelPod, for any tasks, cap, timing and faults.        *)
EXTENDS TunnelPod, FiniteSetTheorems, TLAPS

Numbers == {Cap, MaxUps, Grace, Loop, Limit} \subseteq Nat

Boxes == [phase : Phases, cli : BOOLEAN, term : BOOLEAN,
          sec : 0 .. Grace, left : 0 .. Loop + Limit]
Consistent(t) ==
  /\ (box[t].phase = "off") = (up[t] \in {"none", "counted"})
  /\ box[t].phase \in Ended => ~box[t].cli
  /\ box[t].phase \in {"stopping", "unregister", "leaving"} => box[t].term
  /\ up[t] \in {"stopping", "down"} => box[t].term \/ box[t].phase \in Ended
  /\ box[t].phase = "off" => ~box[t].term
TunnelInv == TypeOK /\ IsFiniteSet(slots) /\ \A t \in Tasks : Consistent(t)

-----------------------------------------------------------------------------
(* What a step does to the task it is of, and to the others.               *)

TaskStep(t) ==
  PodManager(t) \/ Entrypoint(t) \/ Platform(t) \/ PollFinds(t) \/ PollTimesOut(t)

(* The container of one task changes, from a phase to the next.            *)
Becomes(t, b) ==
  \/ b = box[t]
  \/ UpRunsTask(t) /\ b = [box[t] EXCEPT !.phase = "login"]
  \/ /\ DownStopsTask(t) /\ box[t].phase \notin Ended
     /\ b = OnTerm(box[t])
  \/ LogsIn(t) /\ b = [box[t] EXCEPT !.phase = "fork", !.cli = TRUE]
  \/ SetsChild(t) /\ b = [box[t] EXCEPT !.phase = "wait"]
  \/ StopsCli(t) /\ b = [box[t] EXCEPT !.phase = "unregister", !.cli = FALSE, !.left = Limit]
  \/ Unregisters(t) /\ b = [box[t] EXCEPT !.phase = "leaving"]
  \/ Exits(t) /\ b = [box[t] EXCEPT !.phase = "exited", !.cli = FALSE, !.left = 0]
  \/ Dies(t) /\ b = [box[t] EXCEPT !.phase = "died", !.cli = FALSE]
  \/ Tick(t) /\ b = [box[t] EXCEPT !.sec = @ + 1,
                                   !.left = IF box[t].phase \in Timed THEN @ - 1 ELSE @]
  \/ EcsKills(t) /\ b = [box[t] EXCEPT !.phase = "killed", !.cli = FALSE]

LEMMA BoxChanges ==
  ASSUME Numbers, TypeOK, NEW t \in Tasks, TaskStep(t)
  PROVE  \E b \in Boxes : Becomes(t, b) /\ box' = [box EXCEPT ![t] = b]
<1>1. box \in [Tasks -> Boxes] /\ box[t] \in Boxes
  BY DEF TypeOK, Boxes
<1> DEFINE Span == 0 .. Loop + Limit
<1>0. /\ Loop \in Span /\ Limit \in Span /\ 0 \in Span
      /\ Boxes = [phase : Phases, cli : BOOLEAN, term : BOOLEAN, sec : 0 .. Grace, left : Span]
  BY DEF Numbers, Boxes
<1> HIDE DEF Span
<1>2. CASE UNCHANGED box
  BY <1>1, <1>2 DEF Becomes
<1>3. CASE UpRunsTask(t)
  <2>1. PICK b \in Boxes : b = [box[t] EXCEPT !.phase = "login"]
    BY <1>1 DEF Boxes, Phases
  <2>2. box' = [box EXCEPT ![t] = b]
    BY <1>1, <1>3, <2>1 DEF UpRunsTask
  <2> QED
    BY <1>3, <2>1, <2>2 DEF Becomes
<1>4. CASE LogsIn(t)
  <2>1. PICK b \in Boxes : b = [box[t] EXCEPT !.phase = "fork", !.cli = TRUE]
    BY <1>1 DEF Boxes, Phases
  <2>2. box' = [box EXCEPT ![t] = b]
    BY <1>1, <1>4, <2>1 DEF LogsIn, Box
  <2> QED
    BY <1>4, <2>1, <2>2 DEF Becomes
<1>5. CASE SetsChild(t)
  <2>1. PICK b \in Boxes : b = [box[t] EXCEPT !.phase = "wait"]
    BY <1>1 DEF Boxes, Phases
  <2>2. box' = [box EXCEPT ![t] = b]
    BY <1>1, <1>5, <2>1 DEF SetsChild, Box
  <2> QED
    BY <1>5, <2>1, <2>2 DEF Becomes
<1>6. CASE StopsCli(t)
  <2>1. PICK b \in Boxes : b = [box[t] EXCEPT !.phase = "unregister", !.cli = FALSE, !.left = Limit]
    BY <1>0, <1>1 DEF Phases
  <2>2. box' = [box EXCEPT ![t] = b]
    BY <1>1, <1>6, <2>1 DEF StopsCli, Box
  <2> QED
    BY <1>6, <2>1, <2>2 DEF Becomes
<1>7. CASE Unregisters(t)
  <2>1. PICK b \in Boxes : b = [box[t] EXCEPT !.phase = "leaving"]
    BY <1>1 DEF Boxes, Phases
  <2>2. box' = [box EXCEPT ![t] = b]
    BY <1>1, <1>7, <2>1 DEF Unregisters, Box
  <2> QED
    BY <1>7, <2>1, <2>2 DEF Becomes
<1>8. CASE Exits(t)
  <2>1. PICK b \in Boxes : b = [box[t] EXCEPT !.phase = "exited", !.cli = FALSE, !.left = 0]
    BY <1>0, <1>1 DEF Phases
  <2>2. box' = [box EXCEPT ![t] = b]
    BY <1>1, <1>8, <2>1 DEF Exits, Box
  <2> QED
    BY <1>8, <2>1, <2>2 DEF Becomes
<1>9. CASE Dies(t)
  <2>1. PICK b \in Boxes : b = [box[t] EXCEPT !.phase = "died", !.cli = FALSE]
    BY <1>1 DEF Boxes, Phases
  <2>2. box' = [box EXCEPT ![t] = b]
    BY <1>1, <1>9, <2>1 DEF Dies
  <2> QED
    BY <1>9, <2>1, <2>2 DEF Becomes
<1>10. CASE EcsKills(t)
  <2>1. PICK b \in Boxes : b = [box[t] EXCEPT !.phase = "killed", !.cli = FALSE]
    BY <1>1 DEF Boxes, Phases
  <2>2. box' = [box EXCEPT ![t] = b]
    BY <1>1, <1>10, <2>1 DEF EcsKills
  <2> QED
    BY <1>10, <2>1, <2>2 DEF Becomes
<1>11. CASE Tick(t)
  <2>1. box[t].sec + 1 \in 0 .. Grace
    BY <1>1, <1>11 DEF Tick, Boxes, Numbers
  <2>2. PICK l \in 0 .. Loop + Limit :
          l = IF box[t].phase \in Timed THEN box[t].left - 1 ELSE box[t].left
    BY <1>1, <1>11 DEF Tick, Boxes, Numbers
  <2>3. PICK b \in Boxes : b = [box[t] EXCEPT !.sec = @ + 1, !.left = l]
    BY <1>1, <2>1 DEF Boxes
  <2>4. box' = [box EXCEPT ![t] = b]
    BY <1>1, <1>11, <2>2, <2>3 DEF Tick
  <2> QED
    BY <1>11, <2>2, <2>3, <2>4 DEF Becomes
<1>12. CASE DownStopsTask(t)
  <2>1. OnTerm(box[t]) \in Boxes
    BY <1>0, <1>1 DEF OnTerm, Phases
  <2>2. PICK b \in Boxes : b = OnTerm(box[t])
    BY <2>1
  <2>3. box' = box \/ (box[t].phase \notin Ended /\ box' = [box EXCEPT ![t] = b])
    BY <1>1, <1>12, <2>2 DEF DownStopsTask
  <2> QED
    BY <1>2, <1>12, <2>2, <2>3 DEF Becomes
<1> QED
  BY <1>2, <1>3, <1>4, <1>5, <1>6, <1>7, <1>8, <1>9, <1>10, <1>11, <1>12
  DEF TaskStep, PodManager, Entrypoint, Platform, PollFinds, PollTimesOut, UpCounts, UpEnds,
      DownDeletesRow, PrintsPrompt, Registers

LEMMA UpMoves ==
  ASSUME TypeOK, NEW t \in Tasks, TaskStep(t)
  PROVE  \E s \in UpSteps : up' = [up EXCEPT ![t] = s]
<1>1. up \in [Tasks -> UpSteps]
  BY DEF TypeOK
<1>2. CASE UNCHANGED up
  <2>1. up' = [up EXCEPT ![t] = up[t]] /\ up[t] \in UpSteps
    BY <1>1, <1>2
  <2> QED
    BY <2>1
<1>3. ASSUME NEW step \in UpSteps, NEW next \in UpSteps, GoesOn(t, step, next)
      PROVE  \E s \in UpSteps : up' = [up EXCEPT ![t] = s]
  BY <1>3 DEF GoesOn
<1> QED
  BY <1>2, <1>3
  DEF UpSteps, TaskStep, PodManager, Entrypoint, Platform, PollFinds, PollTimesOut, UpCounts,
      UpRunsTask, UpEnds, DownStopsTask, DownDeletesRow, PrintsPrompt, LogsIn, SetsChild,
      StopsCli, Unregisters, Exits, Registers, Dies, Tick, EcsKills, Container

(* The slots of the account: a step registers one tunnel at most, and at   *)
(* the cap only in place of another.                                       *)
LEMMA SlotsFit ==
  ASSUME Numbers, TypeOK, IsFiniteSet(slots), NEW t \in Tasks, TaskStep(t)
  PROVE  slots' \subseteq Tasks /\ IsFiniteSet(slots') /\ Cardinality(slots') <= Cap
<1>1. slots \subseteq Tasks /\ Cardinality(slots) \in Nat /\ Cardinality(slots) <= Cap
  BY FS_CardinalityType DEF TypeOK
<1>2. CASE UNCHANGED slots
  BY <1>1, <1>2
<1>3. CASE Unregisters(t)
  <2>1. slots' \subseteq slots
    BY <1>3 DEF Unregisters
  <2> QED
    BY <1>1, <2>1, FS_Subset, FS_CardinalityType DEF Numbers
<1>4. CASE Registers(t)
  <2>1. CASE slots' = slots \cup {t} /\ Cardinality(slots) < Cap
    <3>1. IsFiniteSet(slots') /\ Cardinality(slots') = Cardinality(slots) + 1
      BY <1>4, <2>1, FS_AddElement DEF Registers
    <3> QED
      BY <1>1, <2>1, <3>1 DEF Numbers
  <2>2. ASSUME NEW u \in slots, slots' = (slots \ {u}) \cup {t}
        PROVE  IsFiniteSet(slots') /\ Cardinality(slots') = Cardinality(slots)
    <3>1. IsFiniteSet(slots \ {u}) /\ Cardinality(slots \ {u}) = Cardinality(slots) - 1
      BY FS_RemoveElement
    <3>2. t \notin slots \ {u}
      BY <1>4 DEF Registers
    <3>3. /\ IsFiniteSet((slots \ {u}) \cup {t})
          /\ Cardinality((slots \ {u}) \cup {t}) = Cardinality(slots) - 1 + 1
      BY <3>1, <3>2, FS_AddElement
    <3> QED
      BY <1>1, <2>2, <3>3
  <2> QED
    BY <1>1, <1>4, <2>1, <2>2 DEF Registers, Unused
<1> QED
  BY <1>2, <1>3, <1>4
  DEF TaskStep, PodManager, Entrypoint, Platform, PollFinds, PollTimesOut, UpCounts,
      UpRunsTask, UpEnds, DownStopsTask, DownDeletesRow, PrintsPrompt, LogsIn, SetsChild,
      StopsCli, Exits, Dies, Tick, EcsKills

LEMMA KeepsConsistent ==
  ASSUME Numbers, TunnelInv, NEW t \in Tasks, TaskStep(t), NEW u \in Tasks
  PROVE  Consistent(u)'
<1>1. PICK b \in Boxes : Becomes(t, b) /\ box' = [box EXCEPT ![t] = b]
  BY BoxChanges DEF TunnelInv
<1>2. PICK s \in UpSteps : up' = [up EXCEPT ![t] = s]
  BY UpMoves DEF TunnelInv
<1>3. up \in [Tasks -> UpSteps] /\ box \in [Tasks -> Boxes] /\ Consistent(u)
  BY DEF TunnelInv, TypeOK, Boxes
<1>4. CASE u # t
  <2>1. up'[u] = up[u] /\ box'[u] = box[u]
    BY <1>1, <1>2, <1>3, <1>4
  <2> QED
    BY <1>3, <2>1 DEF Consistent
<1>5. CASE u = t
  <2>1. up'[t] = s /\ box'[t] = b /\ box[t] \in Boxes
    BY <1>1, <1>2, <1>3
  <2> DEFINE Fine == /\ (b.phase = "off") = (s \in {"none", "counted"})
                     /\ b.phase \in Ended => ~b.cli
                     /\ b.phase \in {"stopping", "unregister", "leaving"} => b.term
                     /\ s \in {"stopping", "down"} => b.term \/ b.phase \in Ended
                     /\ b.phase = "off" => ~b.term
  <2>2. SUFFICES Fine
    BY <1>5, <2>1 DEF Consistent
  <2>3. CASE UpRunsTask(t) /\ b = [box[t] EXCEPT !.phase = "login"]
    BY <1>3, <1>5, <2>1, <2>3 DEF UpRunsTask, GoesOn, Consistent, Boxes, Ended
  <2>4. CASE /\ DownStopsTask(t) /\ box[t].phase \notin Ended /\ b = OnTerm(box[t])
    BY <1>3, <1>5, <2>1, <2>4 DEF DownStopsTask, GoesOn, OnTerm, Consistent, Boxes, Ended
  <2>5. CASE UNCHANGED up /\ b.phase # "off" /\ box[t].phase # "off"
             /\ (b.phase \in Ended => ~b.cli)
             /\ (b.phase \in {"stopping", "unregister", "leaving"} => b.term)
             /\ (box[t].term => b.term) /\ (box[t].phase \in Ended => b.phase \in Ended)
    BY <1>3, <1>5, <2>1, <2>5 DEF Consistent
  <2>6. CASE b = box[t]
    <3>1. CASE s = up[t]
      BY <1>3, <1>5, <2>6, <3>1 DEF Consistent
    <3>2. CASE UpCounts(t) \/ UpEnds(t) \/ DownDeletesRow(t)
      BY <1>2, <1>3, <1>5, <2>1, <2>6, <3>2
      DEF UpCounts, UpEnds, DownDeletesRow, GoesOn, Consistent
    <3>3. CASE UpRunsTask(t)
      BY <1>1, <1>3, <1>5, <2>1, <2>6, <3>3 DEF UpRunsTask, GoesOn, Consistent, Boxes
    <3>4. CASE DownStopsTask(t)
      <4>1. box[t].term \/ box[t].phase \in Ended
        BY <1>3, <2>1, <2>6, <3>4 DEF DownStopsTask, OnTerm, Boxes
      <4> QED
        BY <1>3, <1>5, <2>1, <2>6, <3>4, <4>1 DEF DownStopsTask, GoesOn, Consistent
    <3> QED
      BY <1>2, <1>3, <2>1, <3>1, <3>2, <3>3, <3>4
      DEF TaskStep, PodManager, Entrypoint, Platform, PollFinds, PollTimesOut, PrintsPrompt,
          LogsIn, SetsChild, StopsCli, Unregisters, Exits, Registers, Dies, Tick, EcsKills,
          Container
  <2>7. CASE LogsIn(t) /\ b = [box[t] EXCEPT !.phase = "fork", !.cli = TRUE]
    BY <1>3, <2>1, <2>5, <2>7 DEF LogsIn, Box, Container, Boxes, Ended
  <2>8. CASE SetsChild(t) /\ b = [box[t] EXCEPT !.phase = "wait"]
    BY <1>3, <2>1, <2>5, <2>8 DEF SetsChild, Box, Container, Boxes, Ended
  <2>9. CASE /\ StopsCli(t)
             /\ b = [box[t] EXCEPT !.phase = "unregister", !.cli = FALSE, !.left = Limit]
    BY <1>3, <1>5, <2>1, <2>5, <2>9 DEF StopsCli, Box, Container, Boxes, Ended, Consistent
  <2>10. CASE Unregisters(t) /\ b = [box[t] EXCEPT !.phase = "leaving"]
    BY <1>3, <1>5, <2>1, <2>5, <2>10 DEF Unregisters, Box, Container, Boxes, Ended, Consistent
  <2>11. CASE Exits(t) /\ b = [box[t] EXCEPT !.phase = "exited", !.cli = FALSE, !.left = 0]
    BY <1>3, <2>1, <2>5, <2>11 DEF Exits, Box, Container, Boxes, Ended
  <2>12. CASE Dies(t) /\ b = [box[t] EXCEPT !.phase = "died", !.cli = FALSE]
    BY <1>3, <2>1, <2>5, <2>12 DEF Dies, Container, Boxes, Ended
  <2>13. CASE EcsKills(t) /\ b = [box[t] EXCEPT !.phase = "killed", !.cli = FALSE]
    BY <1>3, <1>5, <2>1, <2>5, <2>13 DEF EcsKills, Container, Boxes, Ended, Consistent
  <2>14. CASE /\ Tick(t)
              /\ b = [box[t] EXCEPT !.sec = @ + 1,
                                    !.left = IF box[t].phase \in Timed THEN @ - 1 ELSE @]
    <3>1. b.phase = box[t].phase /\ b.cli = box[t].cli /\ b.term = box[t].term
      BY <2>1, <2>14 DEF Boxes
    <3>2. UNCHANGED up /\ box[t].term /\ box[t].phase \notin Ended
      BY <2>14 DEF Tick, Container
    <3> QED
      BY <1>2, <1>3, <1>5, <2>1, <3>1, <3>2 DEF Consistent
  <2> QED
    BY <1>1, <2>3, <2>4, <2>6, <2>7, <2>8, <2>9, <2>10, <2>11, <2>12, <2>13, <2>14 DEF Becomes
<1> QED
  BY <1>4, <1>5

LEMMA TunnelInit == ASSUME Numbers, Init PROVE TunnelInv
<1>1. 0 \in 0 .. Grace /\ 0 \in 0 .. Loop + Limit
  BY DEF Numbers
<1>2. box \in [Tasks -> Boxes] /\ up \in [Tasks -> UpSteps]
  BY <1>1 DEF Init, Boxes, Phases, UpSteps
<1>3. \A t \in Tasks : Consistent(t)
  BY DEF Init, Consistent, Ended
<1>4. IsFiniteSet(slots) /\ Cardinality(slots) <= Cap /\ slots \subseteq Tasks
  BY FS_EmptySet DEF Init, Numbers
<1>5. warned \subseteq Tasks /\ prompts \subseteq Tasks
      /\ poll \in [Tasks -> {"off", "on", None} \cup Tasks]
  BY DEF Init
<1> QED
  BY <1>2, <1>3, <1>4, <1>5 DEF TunnelInv, TypeOK, Boxes, Consistent

LEMMA TunnelStep == ASSUME Numbers, TunnelInv, [Next]_vars PROVE TunnelInv'
<1>1. CASE UNCHANGED vars
  BY <1>1 DEF vars, TunnelInv, TypeOK, Consistent
<1>2. ASSUME NEW t \in Tasks, TaskStep(t)
      PROVE  TunnelInv'
  <2>1. PICK b \in Boxes : box' = [box EXCEPT ![t] = b]
    BY <1>2, BoxChanges DEF TunnelInv
  <2>2. PICK s \in UpSteps : up' = [up EXCEPT ![t] = s]
    BY <1>2, UpMoves DEF TunnelInv
  <2>3. box' \in [Tasks -> Boxes] /\ up' \in [Tasks -> UpSteps]
    BY <2>1, <2>2 DEF TunnelInv, TypeOK, Boxes
  <2>4. \A u \in Tasks : Consistent(u)'
    BY <1>2, KeepsConsistent
  <2>5. slots' \subseteq Tasks /\ IsFiniteSet(slots') /\ Cardinality(slots') <= Cap
    BY <1>2, SlotsFit DEF TunnelInv
  <2>6. warned' \subseteq Tasks /\ prompts' \subseteq Tasks
    BY <1>2
    DEF TunnelInv, TypeOK, TaskStep, PodManager, Entrypoint, Platform, PollFinds, PollTimesOut,
        UpCounts, UpRunsTask, UpEnds, DownStopsTask, DownDeletesRow, PrintsPrompt, LogsIn,
        SetsChild, StopsCli, Unregisters, Exits, Registers, Dies, Tick, EcsKills, Container
  <2>7. poll' \in [Tasks -> {"off", "on", None} \cup Tasks]
    BY <1>2
    DEF TunnelInv, TypeOK, TaskStep, PodManager, Entrypoint, Platform, PollFinds, PollTimesOut,
        UpCounts, UpRunsTask, UpEnds, DownStopsTask, DownDeletesRow, PrintsPrompt, LogsIn,
        SetsChild, StopsCli, Unregisters, Exits, Registers, Dies, Tick, EcsKills, Container
  <2> QED
    BY <2>3, <2>4, <2>5, <2>6, <2>7 DEF TunnelInv, TypeOK, Boxes, Consistent
<1> QED
  BY <1>1, <1>2 DEF Next, TaskStep

(* Whatever the cap, the timing and the faults, every pod-up step, every   *)
(* container and every poller stays of its type, a container runs only     *)
(* when its pod-up started it, and the account never holds more tunnels    *)
(* than its cap.                                                           *)
THEOREM TunnelTypeCorrect ==
  ASSUME Numbers
  PROVE  Spec => []TypeOK
<1>1. Init => TunnelInv
  BY TunnelInit
<1>2. TunnelInv /\ [Next]_vars => TunnelInv'
  BY TunnelStep
<1>3. TunnelInv => TypeOK
  BY DEF TunnelInv
<1> QED
  BY <1>1, <1>2, <1>3, PTL DEF Spec

-----------------------------------------------------------------------------

(* tunnel-poll-logs.ts filters by the log stream of the task its pod-up    *)
(* started: whatever else runs, with whatever pod name, it prints the code *)
(* of that task or none.  Nothing is assumed of the constants.             *)
THEOREM TheUsersOwnCode == Spec => []CodeIsTheTasks
<1> DEFINE Inv == (\E S : poll \in [Tasks -> S]) /\ CodeIsTheTasks
<1>1. ASSUME Init
      PROVE  Inv
  <2>1. poll \in [Tasks -> {"off"}]
    BY <1>1 DEF Init
  <2> QED
    BY <2>1 DEF CodeIsTheTasks
<1>2. ASSUME Inv, [Next]_vars
      PROVE  Inv'
  <2>1. PICK S : poll \in [Tasks -> S]
    BY <1>2
  <2>2. CASE UNCHANGED poll
    BY <1>2, <2>2 DEF CodeIsTheTasks
  <2>3. ASSUME NEW t \in Tasks, NEW p \in {"on", None, t}, poll' = [poll EXCEPT ![t] = p]
        PROVE  Inv'
    <3>1. poll' \in [Tasks -> S \cup {p}]
      BY <2>1, <2>3
    <3>2. CodeIsTheTasks'
      BY <1>2, <2>1, <2>3 DEF CodeIsTheTasks
    <3> QED
      BY <3>1, <3>2
  <2>4. ASSUME NEW t \in Tasks, TaskStep(t)
        PROVE  UNCHANGED poll \/ \E p \in {"on", None, t} : poll' = [poll EXCEPT ![t] = p]
    BY <2>4
    DEF TaskStep, PodManager, Entrypoint, Platform, PollFinds, PollTimesOut, UpCounts,
        UpRunsTask, UpEnds, DownStopsTask, DownDeletesRow, PrintsPrompt, LogsIn, SetsChild,
        StopsCli, Unregisters, Exits, Registers, Dies, Tick, EcsKills, Container,
        TunnelLogStreamName
  <2> QED
    BY <1>2, <2>2, <2>3, <2>4 DEF Next, TaskStep, vars
<1>3. Inv => CodeIsTheTasks
  OBVIOUS
<1> QED
  BY <1>1, <1>2, <1>3, PTL DEF Spec

-----------------------------------------------------------------------------

(* The seconds since the SIGTERM and the ones the current wait may still   *)
(* take, together, stay within what on_term allows itself.                 *)
InTime(t) ==
  /\ box[t].term => box[t].phase \in {"stopping", "unregister", "leaving"} \cup Ended
  /\ ~box[t].term => box[t].sec = 0
  /\ box[t].phase = "stopping" => box[t].sec + box[t].left <= Loop
  /\ box[t].phase = "unregister" => box[t].sec + box[t].left <= Loop + Limit
  /\ box[t].phase = "leaving" => box[t].sec <= Loop + Limit
  /\ box[t].phase # "killed"

LEMMA StaysInTime ==
  ASSUME Numbers, TermAt \subseteq {"fork", "wait"}, Loop + Limit < Grace, TunnelInv,
         NEW t \in Tasks, TaskStep(t), NEW u \in Tasks, InTime(u)
  PROVE  InTime(u)'
<1>1. PICK b \in Boxes : Becomes(t, b) /\ box' = [box EXCEPT ![t] = b]
  BY BoxChanges DEF TunnelInv
<1>2. box \in [Tasks -> Boxes] /\ Consistent(u)
  BY DEF TunnelInv, TypeOK, Boxes
<1>3. CASE u # t
  <2>1. box'[u] = box[u]
    BY <1>1, <1>2, <1>3
  <2> QED
    BY <2>1 DEF InTime
<1>4. CASE u = t
  <2>1. PICK o \in Boxes : o = box[t]
    BY <1>2
  <2> DEFINE Fine(c) ==
        /\ c.term => c.phase \in {"stopping", "unregister", "leaving"} \cup Ended
        /\ ~c.term => c.sec = 0
        /\ c.phase = "stopping" => c.sec + c.left <= Loop
        /\ c.phase = "unregister" => c.sec + c.left <= Loop + Limit
        /\ c.phase = "leaving" => c.sec <= Loop + Limit
        /\ c.phase # "killed"
  <2>2. Fine(o) /\ box'[t] = b
    BY <1>1, <1>2, <1>4, <2>1 DEF InTime
  <2>3. SUFFICES Fine(b)
    BY <1>4, <2>2 DEF InTime
  <2>4. /\ o.sec \in Nat /\ o.left \in Nat /\ Loop \in Nat /\ Limit \in Nat /\ Grace \in Nat
        /\ o.term \in BOOLEAN /\ (o.phase = "off" => ~o.term)
        /\ (o.phase \in {"stopping", "unregister", "leaving"} => o.term)
    BY <1>2, <1>4, <2>1 DEF Boxes, Numbers, Consistent
  <2>5. CASE b = o
    BY <2>2, <2>5
  <2>6. CASE UpRunsTask(t) /\ b = [o EXCEPT !.phase = "login"]
    <3>1. o.phase = "off"
      BY <1>2, <1>4, <2>1, <2>6 DEF UpRunsTask, GoesOn, Consistent
    <3> QED
      BY <2>1, <2>2, <2>4, <2>6, <3>1 DEF Boxes, Ended
  <2>7. CASE DownStopsTask(t) /\ o.phase \notin Ended /\ b = OnTerm(o)
    <3>1. o.phase \in {"fork", "wait"} /\ ~o.term
      BY <2>1, <2>2, <2>4, <2>7 DEF DownStopsTask, Ended
    <3> QED
      BY <2>1, <2>2, <2>4, <2>7, <3>1 DEF OnTerm, Boxes, Ended
  <2>8. CASE LogsIn(t) /\ b = [o EXCEPT !.phase = "fork", !.cli = TRUE]
    BY <2>1, <2>2, <2>4, <2>8 DEF LogsIn, Box, Boxes, Ended
  <2>9. CASE SetsChild(t) /\ b = [o EXCEPT !.phase = "wait"]
    BY <2>1, <2>2, <2>4, <2>9 DEF SetsChild, Box, Boxes, Ended
  <2>10. CASE StopsCli(t) /\ b = [o EXCEPT !.phase = "unregister", !.cli = FALSE, !.left = Limit]
    BY <2>1, <2>2, <2>4, <2>10 DEF StopsCli, Box, Boxes
  <2>11. CASE Unregisters(t) /\ b = [o EXCEPT !.phase = "leaving"]
    BY <2>1, <2>2, <2>4, <2>11 DEF Unregisters, Box, Boxes
  <2>12. CASE Exits(t) /\ b = [o EXCEPT !.phase = "exited", !.cli = FALSE, !.left = 0]
    BY <2>1, <2>2, <2>4, <2>12 DEF Exits, Box, Boxes, Ended
  <2>13. CASE Dies(t) /\ b = [o EXCEPT !.phase = "died", !.cli = FALSE]
    BY <2>1, <2>2, <2>4, <2>13 DEF Boxes, Ended
  <2>14. CASE EcsKills(t)
    <3>1. o.term /\ o.sec = Grace /\ o.phase \notin Ended
      BY <2>1, <2>14 DEF EcsKills
    <3> QED
      BY <2>2, <2>4, <3>1
  <2>15. CASE /\ Tick(t)
              /\ b = [o EXCEPT !.sec = @ + 1,
                               !.left = IF o.phase \in Timed THEN @ - 1 ELSE @]
    <3>1. o.term /\ o.phase \in Timed
      BY <2>1, <2>2, <2>15 DEF Tick, Timed
    <3>2. b.phase = o.phase /\ b.term /\ b.sec = o.sec + 1 /\ b.left = o.left - 1
      BY <2>1, <2>15, <3>1 DEF Boxes
    <3> QED
      BY <2>2, <2>4, <3>1, <3>2 DEF Timed
  <2> QED
    BY <1>1, <2>1, <2>5, <2>6, <2>7, <2>8, <2>9, <2>10, <2>11, <2>12, <2>13, <2>14, <2>15
    DEF Becomes
<1> QED
  BY <1>3, <1>4

(* entrypoint.sh's on_term ends before ECS's SIGKILL when the CLI's wait   *)
(* and the limit on its unregister together are shorter than stopTimeout   *)
(* (5 s + 22 s < 30 s), whatever else happens, for a SIGTERM that comes    *)
(* once the login is over: before that bash, as PID 1, drops it.           *)
THEOREM OnTermBeatsTheKill ==
  ASSUME Numbers, TermAt \subseteq {"fork", "wait"}, Loop + Limit < Grace
  PROVE  Spec => []StopsBeforeKill
<1> DEFINE Inv == TunnelInv /\ \A t \in Tasks : InTime(t)
<1>1. Init => Inv
  BY TunnelInit DEF Init, InTime
<1>2. ASSUME Inv, [Next]_vars
      PROVE  Inv'
  <2>1. TunnelInv'
    BY <1>2, TunnelStep
  <2>2. CASE UNCHANGED vars
    BY <1>2, <2>1, <2>2 DEF vars, InTime
  <2>3. ASSUME NEW t \in Tasks, TaskStep(t)
        PROVE  Inv'
    BY <1>2, <2>1, <2>3, StaysInTime
  <2> QED
    BY <1>2, <2>2, <2>3 DEF Next, TaskStep
<1>3. Inv => StopsBeforeKill
  BY DEF StopsBeforeKill, InTime
<1> QED
  BY <1>1, <1>2, <1>3, PTL DEF Spec

-----------------------------------------------------------------------------

(* From on_term's unregister on, no CLI is left that could register the    *)
(* tunnel again, and after it the tunnel is gone.                          *)
LeavesNoTunnel(t) ==
  /\ box[t].phase \in {"unregister", "leaving", "exited"} => ~box[t].cli
  /\ box[t].phase \in {"leaving", "exited"} => t \notin slots

LEMMA StaysFreed ==
  ASSUME Numbers, TermAt \subseteq {"wait"}, "unregister" \notin Faults, TunnelInv,
         NEW t \in Tasks, TaskStep(t), NEW u \in Tasks, LeavesNoTunnel(u)
  PROVE  LeavesNoTunnel(u)'
<1>1. PICK b \in Boxes : Becomes(t, b) /\ box' = [box EXCEPT ![t] = b]
  BY BoxChanges DEF TunnelInv
<1>2. box \in [Tasks -> Boxes] /\ Consistent(u)
  BY DEF TunnelInv, TypeOK, Boxes
<1>3. u \in slots' => u \in slots \/ (u = t /\ Registers(t))
  BY DEF TaskStep, PodManager, Entrypoint, Platform, PollFinds, PollTimesOut, UpCounts,
         UpRunsTask, UpEnds, DownStopsTask, DownDeletesRow, PrintsPrompt, LogsIn, SetsChild,
         StopsCli, Unregisters, Exits, Registers, Dies, Tick, EcsKills
<1>4. CASE u # t
  <2>1. box'[u] = box[u]
    BY <1>1, <1>2, <1>4
  <2> QED
    BY <1>3, <1>4, <2>1 DEF LeavesNoTunnel
<1>5. CASE u = t
  <2>1. PICK o \in Boxes : o = box[t]
    BY <1>2
  <2>2. box'[t] = b
    BY <1>1, <1>2
  <2>3. CASE Registers(t)
    <3>1. box'[t] = box[t] /\ box[t].cli
      BY <2>3 DEF Registers
    <3> QED
      BY <1>5, <3>1 DEF LeavesNoTunnel
  <2>4. CASE /\ ~Registers(t)
             /\ b.phase \in {"unregister", "leaving", "exited"} => b.phase = o.phase /\ b.cli = o.cli
    BY <1>3, <1>5, <2>1, <2>2, <2>4 DEF LeavesNoTunnel
  <2>5. CASE StopsCli(t) /\ b = [o EXCEPT !.phase = "unregister", !.cli = FALSE, !.left = Limit]
    BY <1>5, <2>1, <2>2, <2>5 DEF LeavesNoTunnel, Boxes
  <2>6. CASE Unregisters(t) /\ b = [o EXCEPT !.phase = "leaving"]
    <3>1. o.phase = "unregister" /\ slots' = slots \ {t}
      BY <2>1, <2>6 DEF Unregisters, Box
    <3> QED
      BY <1>5, <2>1, <2>2, <2>6, <3>1 DEF LeavesNoTunnel, Boxes
  <2>7. CASE Exits(t) /\ b = [o EXCEPT !.phase = "exited", !.cli = FALSE, !.left = 0]
    BY <1>5, <2>1, <2>2, <2>7 DEF Exits, Box, LeavesNoTunnel, Boxes
  <2>8. CASE DownStopsTask(t) /\ o.phase \notin Ended /\ b = OnTerm(o)
    <3>1. b.phase = "stopping"
      BY <2>1, <2>8 DEF DownStopsTask, OnTerm, Boxes
    <3> QED
      BY <1>5, <2>2, <3>1 DEF LeavesNoTunnel
  <2>9. CASE \/ UpRunsTask(t) /\ b = [o EXCEPT !.phase = "login"]
             \/ LogsIn(t) /\ b = [o EXCEPT !.phase = "fork", !.cli = TRUE]
             \/ SetsChild(t) /\ b = [o EXCEPT !.phase = "wait"]
             \/ Dies(t) /\ b = [o EXCEPT !.phase = "died", !.cli = FALSE]
             \/ EcsKills(t) /\ b = [o EXCEPT !.phase = "killed", !.cli = FALSE]
    <3>1. b.phase \in {"login", "fork", "wait", "died", "killed"}
      BY <2>1, <2>9 DEF Boxes
    <3> QED
      BY <1>5, <2>2, <3>1 DEF LeavesNoTunnel
  <2>10. CASE b = o \/ (/\ Tick(t)
                        /\ b = [o EXCEPT !.sec = @ + 1,
                                         !.left = IF o.phase \in Timed THEN @ - 1 ELSE @])
    <3>1. b.phase = o.phase /\ b.cli = o.cli
      BY <2>1, <2>10 DEF Boxes
    <3> QED
      BY <2>3, <2>4, <3>1
  <2> QED
    BY <1>1, <2>1, <2>5, <2>6, <2>7, <2>8, <2>9, <2>10 DEF Becomes
<1> QED
  BY <1>4, <1>5

(* pod-down frees the slot, for every cap and every other container of the *)
(* account: a container that got its SIGTERM while it waits for the CLI,   *)
(* and ended other than by a crash, leaves no tunnel, when its unregister  *)
(* succeeds and on_term fits the stopTimeout.                              *)
THEOREM DownFreesTheSlot ==
  ASSUME Numbers, TermAt \subseteq {"wait"}, Loop + Limit < Grace, "unregister" \notin Faults
  PROVE  Spec => []PodDownFreesSlot
<1> DEFINE Inv == TunnelInv /\ \A t \in Tasks : InTime(t) /\ LeavesNoTunnel(t)
<1>1. Init => Inv
  BY TunnelInit DEF Init, InTime, LeavesNoTunnel
<1>2. ASSUME Inv, [Next]_vars
      PROVE  Inv'
  <2>1. TunnelInv'
    BY <1>2, TunnelStep
  <2>2. CASE UNCHANGED vars
    BY <1>2, <2>1, <2>2 DEF vars, InTime, LeavesNoTunnel
  <2>3. ASSUME NEW t \in Tasks, TaskStep(t)
        PROVE  Inv'
    BY <1>2, <2>1, <2>3, StaysInTime, StaysFreed
  <2> QED
    BY <1>2, <2>2, <2>3 DEF Next, TaskStep
<1>3. Inv => PodDownFreesSlot
  BY DEF PodDownFreesSlot, InTime, LeavesNoTunnel
<1> QED
  BY <1>1, <1>2, <1>3, PTL DEF Spec

-----------------------------------------------------------------------------

Begun == {t \in Tasks : up[t] # "none"}
Unwarned == {t \in Tasks : up[t] \in {"counted", "started", "row"} /\ t \notin warned}
CapInv ==
  /\ \E S : up \in [Tasks -> S]
  /\ IsFiniteSet(Begun) /\ Cardinality(Unwarned) <= Cap + MaxUps - 1

(* Only tunnelCapWarning adds an unwarned task, and it is one more than    *)
(* the rows it counted and the pod-ups of that moment.                     *)
LEMMA OneMoreUnwarned ==
  ASSUME Cap \in Nat, MaxUps \in Nat \ {0}, "scan" \notin Faults, IsFiniteSet(Begun),
         NEW S, up \in [Tasks -> S], NEW t \in Tasks, UpCounts(t), t \notin warned'
  PROVE  Cardinality(Unwarned') <= Cap + MaxUps - 1
<1>1. /\ up[t] = "none" /\ up' = [up EXCEPT ![t] = "counted"]
      /\ Cardinality(InFlight) < MaxUps
  BY DEF UpCounts, GoesOn
<1>2. Cardinality(Rows) < Cap /\ warned' = warned
  <2>1. InFlight \subseteq Begun /\ Rows \subseteq Begun
    BY DEF InFlight, Rows, Begun
  <2>2. Cardinality(Rows) \in Nat
    BY <2>1, FS_Subset, FS_CardinalityType
  <2> QED
    BY <2>2 DEF UpCounts, CapReached
<1> DEFINE A == InFlight \cup Rows
<1>3. /\ IsFiniteSet(InFlight) /\ Cardinality(InFlight) \in Nat
      /\ IsFiniteSet(Rows) /\ Cardinality(Rows) \in Nat
  <2>1. InFlight \subseteq Begun /\ Rows \subseteq Begun
    BY DEF InFlight, Rows, Begun
  <2> QED
    BY <2>1, FS_Subset, FS_CardinalityType
<1>4. /\ IsFiniteSet(A) /\ Cardinality(A) \in Nat
      /\ Cardinality(A) <= Cardinality(InFlight) + Cardinality(Rows)
  <2>1. IsFiniteSet(InFlight \cap Rows) /\ Cardinality(InFlight \cap Rows) \in Nat
    BY <1>3, FS_Subset, FS_CardinalityType
  <2>2. /\ IsFiniteSet(A)
        /\ Cardinality(A)
             = Cardinality(InFlight) + Cardinality(Rows) - Cardinality(InFlight \cap Rows)
    BY <1>3, FS_Union
  <2>3. Cardinality(A) \in Nat
    BY <2>2, FS_CardinalityType
  <2> QED
    BY <1>3, <2>1, <2>2, <2>3
<1>5. t \notin A
  BY <1>1 DEF InFlight, Rows
<1>6. IsFiniteSet(A \cup {t}) /\ Cardinality(A \cup {t}) = Cardinality(A) + 1
  BY <1>4, <1>5, FS_AddElement
<1>7. Unwarned' \subseteq A \cup {t}
  BY <1>1 DEF Unwarned, InFlight, Rows
<1>8. Cardinality(Unwarned') <= Cardinality(A \cup {t}) /\ Cardinality(Unwarned') \in Nat
  BY <1>6, <1>7, FS_Subset, FS_CardinalityType
<1> HIDE DEF A
<1> QED
  BY <1>1, <1>2, <1>3, <1>4, <1>6, <1>8

(* tunnelCapWarning counts the rows of the registry before its own task    *)
(* has one.  However many pod-ups overlap, the tunnel pods that run        *)
(* without a warning exceed the cap by at most the other pod-ups of that   *)
(* time, as long as the scan does not fail (then it warns of nothing).     *)
THEOREM OverrunIsTheOverlap ==
  ASSUME Cap \in Nat, MaxUps \in Nat \ {0}, "scan" \notin Faults
  PROVE  Spec => []UnwarnedFitTheCap
<1>1. ASSUME Init
      PROVE  CapInv
  <2>1. up \in [Tasks -> {"none"}] /\ Begun = {} /\ Unwarned = {}
    BY <1>1 DEF Init, Begun, Unwarned
  <2>2. IsFiniteSet(Begun) /\ Cardinality(Unwarned) = 0
    BY <2>1, FS_EmptySet
  <2>3. \E S : up \in [Tasks -> S]
    BY <2>1
  <2>4. Cardinality(Unwarned) <= Cap + MaxUps - 1
    BY <2>2
  <2> QED
    BY <2>2, <2>3, <2>4 DEF CapInv
<1>2. ASSUME CapInv, [Next]_vars
      PROVE  CapInv'
  <2>1. PICK S : up \in [Tasks -> S]
    BY <1>2 DEF CapInv
  <2>2. IsFiniteSet(Unwarned) /\ Cardinality(Unwarned) \in Nat
    <3>1. Unwarned \subseteq Begun
      BY DEF Unwarned, Begun
    <3> QED
      BY <1>2, <3>1, FS_Subset, FS_CardinalityType DEF CapInv
  <2>3. CASE UNCHANGED <<up, warned>>
    BY <1>2, <2>3 DEF CapInv, Begun, Unwarned
  <2>4. ASSUME NEW t \in Tasks, NEW step, NEW next, GoesOn(t, step, next)
        PROVE  (\E R : up' \in [Tasks -> R]) /\ IsFiniteSet(Begun')
    <3>1. up' \in [Tasks -> S \cup {next}]
      BY <2>1, <2>4 DEF GoesOn
    <3>2. Begun' \subseteq Begun \cup {t}
      BY <2>1, <2>4 DEF GoesOn, Begun
    <3>3. IsFiniteSet(Begun \cup {t})
      BY <1>2, FS_AddElement DEF CapInv
    <3> QED
      BY <3>1, <3>2, <3>3, FS_Subset
  <2>5. ASSUME NEW t \in Tasks, UpCounts(t)
        PROVE  CapInv'
    <3>1. (\E R : up' \in [Tasks -> R]) /\ IsFiniteSet(Begun')
      BY <2>4, <2>5 DEF UpCounts
    <3>2. CASE t \in warned'
      <4>1. Unwarned' \subseteq Unwarned
        BY <2>1, <2>5, <3>2 DEF UpCounts, GoesOn, Unwarned
      <4>2. Cardinality(Unwarned') <= Cardinality(Unwarned) /\ Cardinality(Unwarned') \in Nat
        BY <2>2, <4>1, FS_Subset, FS_CardinalityType
      <4> QED
        BY <1>2, <2>2, <3>1, <4>2 DEF CapInv
    <3>3. CASE t \notin warned'
      BY <1>2, <2>1, <2>5, <3>1, <3>3, OneMoreUnwarned DEF CapInv
    <3> QED
      BY <3>2, <3>3
  <2>6. ASSUME NEW t \in Tasks, UNCHANGED warned,
               \/ GoesOn(t, "counted", "started") \/ GoesOn(t, "started", "failed")
               \/ GoesOn(t, "started", "row") \/ GoesOn(t, "row", "stopping")
               \/ GoesOn(t, "stopping", "down")
        PROVE  CapInv'
    <3>1. (\E R : up' \in [Tasks -> R]) /\ IsFiniteSet(Begun')
      BY <2>4, <2>6
    <3>2. Unwarned' \subseteq Unwarned
      BY <2>1, <2>6 DEF GoesOn, Unwarned
    <3>3. Cardinality(Unwarned') <= Cardinality(Unwarned) /\ Cardinality(Unwarned') \in Nat
      BY <2>2, <3>2, FS_Subset, FS_CardinalityType
    <3> QED
      BY <1>2, <2>2, <3>1, <3>3 DEF CapInv
  <2>7. ASSUME NEW t \in Tasks, TaskStep(t), ~UpCounts(t)
        PROVE  CapInv'
    BY <2>3, <2>6, <2>7
    DEF TaskStep, PodManager, Entrypoint, Platform, PollFinds, PollTimesOut, UpRunsTask, UpEnds,
        DownStopsTask, DownDeletesRow, PrintsPrompt, LogsIn, SetsChild, StopsCli, Unregisters,
        Exits, Registers, Dies, Tick, EcsKills, Container
  <2> QED
    BY <1>2, <2>3, <2>5, <2>7 DEF Next, TaskStep, vars
<1>3. ASSUME CapInv
      PROVE  UnwarnedFitTheCap
  <2> DEFINE Over == {t \in Tasks : up[t] \in {"started", "row"} /\ t \notin warned}
  <2>1. Over \subseteq Unwarned /\ Unwarned \subseteq Begun
    BY DEF Unwarned, Begun
  <2>2. IsFiniteSet(Unwarned) /\ Cardinality(Unwarned) \in Nat
    BY <1>3, <2>1, FS_Subset, FS_CardinalityType DEF CapInv
  <2>3. Cardinality(Over) <= Cardinality(Unwarned) /\ Cardinality(Over) \in Nat
    BY <2>1, <2>2, FS_Subset, FS_CardinalityType
  <2>4. Cardinality(Over) <= Cap + MaxUps - 1
    BY <1>3, <2>2, <2>3 DEF CapInv
  <2> QED
    BY <2>4 DEF UnwarnedFitTheCap
<1> QED
  BY <1>1, <1>2, <1>3, PTL DEF Spec
=============================================================================
