-------------------------- MODULE PodRoutesProofs ---------------------------
(* Theorems about PodRoutes, for any pods, addresses, hashes and limits.   *)
EXTENDS PodRoutes, FiniteSetTheorems, WellFoundedInduction, TLAPS

(* No two pods share a target group: their names differ in the first 28    *)
(* characters.                                                             *)
GroupsDiffer == \A p, q \in Pods : Cut[p] = Cut[q] => p = q

(* Every address that podUp registers is deregistered.                     *)
Clean(set) == set \cap {"put", "deregister", "address"} = {}
(* No rule and no target group is left behind.                             *)
Tidy(set)  == set \cap {"rule", "group"} = {}

-----------------------------------------------------------------------------
(* The inductive invariant: what holds for each pod, and for the listener. *)

RoutesType ==
  /\ RoutesTypeOK
  /\ priority \in [Pods -> Base .. Base + Span - 1]
  /\ refused \in [Pods -> SUBSET (1 .. MaxPriority)]
  /\ rule \in [Pods -> ElbRule \cup {None}]

(* createListenerRule's tries, from the first one.                         *)
Start(p)  == Hash[p] % Span
Try(p, j) == ((Start(p) + (Base + 1) * j) % Span) + Base
TriesOf(p) ==
  /\ step[p] \in {"rule", "gaveUp"} =>
       /\ IsFiniteSet(refused[p]) /\ Cardinality(refused[p]) = attempt[p]
       /\ priority[p] = Try(p, attempt[p])
       /\ \A q \in refused[p] : \E j \in 0 .. attempt[p] - 1 : q = Try(p, j)
  /\ step[p] = "rule" => attempt[p] < Attempts
  /\ step[p] = "gaveUp" => attempt[p] = Attempts

RuleOf(p) ==
  /\ step[p] \in {"run", "target", "put", "up"} => rule[p] \in rules
  /\ rule[p] # None => rule[p].host = p /\ step[p] \notin {"down", "rule", "gaveUp"}
  /\ Tidy(faults) => \A r \in rules : r.host = p =>
       r = rule[p] /\ step[p] \notin {"deregister", "ungroup", "half"}
TaskOf(p) ==
  /\ step[p] \in {"target", "put", "up"} => addr[p] \in Ips
  /\ p \in live => step[p] \in {"target", "put", "up", "stop"} /\ addr[p] \in Ips
RowOf(p) ==
  /\ p \in rows => step[p] \in {"up", "stop", "unrule", "deregister", "ungroup", "half"}
  /\ step[p] \in {"up", "deregister", "half"} => p \in rows
TargetsOf(p) ==
  GroupsDiffer /\ (Clean(faults) \/ Tidy(faults)) =>
    /\ step[p] \in {"down", "rule", "gaveUp", "run", "target"} => targets[Cut[p]] = {}
    /\ step[p] = "target" => p \in told
    /\ step[p] \in {"put", "up"} => targets[Cut[p]] = IF p \in told THEN {addr[p]} ELSE {}
    /\ targets[Cut[p]] \subseteq {addr[p]}
    /\ Clean(faults) /\ (step[p] = "ungroup" \/ (step[p] \in {"stop", "unrule"} /\ p \notin rows)) =>
         targets[Cut[p]] = {}
PodRoute(p) == TriesOf(p) /\ RuleOf(p) /\ TaskOf(p) /\ RowOf(p) /\ TargetsOf(p)

RulesForward == \A r \in rules : r.group = Cut[r.host]
AddressesDiffer == \A p, q \in live : addr[p] = addr[q] => p = q

RoutesInv ==
  RoutesType /\ (\A p \in Pods : PodRoute(p)) /\ RulesForward /\ AddressesDiffer

-----------------------------------------------------------------------------
(* Facts about priorities.                                                 *)

(* Of those in use, one is the lowest.                                     *)
LEMMA LowestExists ==
  ASSUME NEW T, T \subseteq Nat, T # {} PROVE \E x \in T : \A y \in T : x <= y
<1>1. PICK R : IsWellFoundedOn(R, Nat) /\ \A m, n \in Nat : m < n => <<m, n>> \in R
  <2>1. \A m, n \in Nat : m < n => <<m, n>> \in OpToRel(<, Nat)
    BY Zenon DEF OpToRel
  <2> QED
    BY <2>1, NatLessThanWellFounded, Zenon
<1>2. \E x \in T : \A y \in T : ~(<<y, x>> \in R)
  <2>1. IsWellFoundedOn(R, Nat)
    BY <1>1
  <2> QED
    BY <2>1, WFMin
<1>3. PICK x \in T : \A y \in T : ~(<<y, x>> \in R)
  BY <1>2
<1>4. ASSUME NEW y \in T PROVE x <= y
  <2>1. x \in Nat /\ y \in Nat
    OBVIOUS
  <2>2. ~(y < x)
    BY <1>1, <1>3, <2>1, Zenon
  <2> QED
    BY <2>1, <2>2
<1> QED
  BY <1>4

LEMMA StartFits ==
  ASSUME NEW p \in Pods PROVE Start(p) \in Nat /\ Start(p) < Span
<1>1. Hash[p] \in Nat
  BY RoutesAssumption
<1> QED
  BY <1>1 DEF Span, Start

LEMMA Wraps ==
  ASSUME NEW x \in Nat, x < 49000, NEW j \in Nat, j <= 5
  PROVE  /\ x + 1001 * j < 49000 => (x + 1001 * j) % 49000 = x + 1001 * j
         /\ 49000 <= x + 1001 * j => (x + 1001 * j) % 49000 = x + 1001 * j - 49000
OBVIOUS

LEMMA TryIs ==
  ASSUME NEW p \in Pods, NEW j \in Nat, j <= Attempts
  PROVE  LET x == Start(p) + 1001 * j IN
         Try(p, j) = IF x < Span THEN x + Base ELSE x - Span + Base
BY StartFits, Wraps DEF Try, Span, Base, Attempts

LEMMA TryFits ==
  ASSUME NEW p \in Pods, NEW j \in Nat, j <= Attempts
  PROVE  Try(p, j) \in Nat /\ Base <= Try(p, j) /\ Try(p, j) < Base + Span
BY StartFits, TryIs DEF Span, Base, Attempts

LEMMA FirstTry ==
  ASSUME NEW p \in Pods PROVE Try(p, 0) = PriorityForPod(p)
<1>1. Try(p, 0) = Start(p) + Base
  BY StartFits, TryIs DEF Span, Base, Attempts
<1> QED
  BY <1>1 DEF PriorityForPod, Start

(* The first five tries differ, also where the range wraps around.         *)
LEMMA TriesDiffer ==
  ASSUME NEW p \in Pods, NEW i \in Nat, NEW j \in Nat, j <= Attempts, i < j
  PROVE  Try(p, j) # Try(p, i)
BY StartFits, TryIs DEF Span, Base, Attempts

LEMMA NextTry ==
  ASSUME NEW p \in Pods, NEW j \in Nat, j < Attempts
  PROVE  NextPriority(Try(p, j)) = Try(p, j + 1)
<1> DEFINE x == Start(p) + 1001 * j
<1>1. PICK y \in Nat : y < 49000 /\ y = IF x < 49000 THEN x ELSE x - 49000
  BY StartFits DEF Span, Attempts
<1>2. Try(p, j) = y + 1000
  BY <1>1, TryIs DEF Span, Base, Attempts
<1>3. (y + 1001) % 49000 = IF y + 1001 < 49000 THEN y + 1001 ELSE y + 1001 - 49000
  BY <1>1
<1>4. NextPriority(Try(p, j)) = ((y + 1001) % 49000) + 1000
  BY <1>2 DEF NextPriority, Base, Span
<1>5. Try(p, j + 1) = ((y + 1001) % 49000) + 1000
  BY <1>1, <1>3, StartFits, TryIs DEF Span, Base, Attempts
<1> QED
  BY <1>4, <1>5

LEMMA LimitsFit ==
  /\ {Base, Span, MaxPriority} \subseteq Nat
  /\ 1 <= Base /\ Base + Span - 1 <= MaxPriority
BY DEF Base, Span, MaxPriority

-----------------------------------------------------------------------------
LEMMA RoutesInvInit == ASSUME RoutesInit PROVE RoutesInv
<1>1. priority \in [Pods -> Base .. Base + Span - 1]
  BY FirstTry, TryFits, LimitsFit DEF RoutesInit, Attempts
<1>2. RoutesType
  BY <1>1 DEF RoutesInit, RoutesType, RoutesTypeOK, Attempts, Steps
<1>3. \A p \in Pods : PodRoute(p)
  BY DEF RoutesInit, PodRoute, TriesOf, RuleOf, TaskOf, RowOf, TargetsOf
<1> QED
  BY <1>2, <1>3 DEF RoutesInit, RoutesInv, RulesForward, AddressesDiffer

-----------------------------------------------------------------------------
(* A step for one pod leaves the others alone.                             *)

RulesOf(p) ==
  /\ \A r \in rules : r \notin rules' => r = rule[p]
  /\ \A r \in rules' : r \notin rules => r.host = p
SameFor(q) ==
  /\ step'[q] = step[q] /\ priority'[q] = priority[q] /\ refused'[q] = refused[q]
  /\ attempt'[q] = attempt[q] /\ rule'[q] = rule[q] /\ addr'[q] = addr[q]
  /\ (q \in rows' <=> q \in rows) /\ (q \in live' <=> q \in live)
  /\ (q \in told' <=> q \in told)
  /\ GroupsDiffer => targets'[Cut[q]] = targets[Cut[q]]

LEMMA StepIsOfOnePod ==
  ASSUME RoutesInv, NEW p \in Pods, PodStep(p)
  PROVE  RulesOf(p) /\ \A q \in Pods \ {p} : SameFor(q)
<1> SUFFICES ASSUME NEW q \in Pods \ {p} PROVE RulesOf(p) /\ SameFor(q)
  BY DEF PodStep, UpCreatesGroup, UpRetriesRule, UpCreatesRule, UpRunsTask,
         UpRegistersTarget, UpPutsRow, DownStarts, StopsTask, DeletesRule,
         DeregistersTarget, DeletesGroup, TaskEnds, RulesOf
<1>1. /\ GroupsDiffer => Cut[q] # Cut[p]
      /\ step \in [Pods -> Steps]
      /\ targets \in [{Cut[c] : c \in Pods} -> SUBSET Ips]
      /\ priority \in [Pods -> Base .. Base + Span - 1]
      /\ refused \in [Pods -> SUBSET (1 .. MaxPriority)]
      /\ attempt \in [Pods -> 0 .. Attempts] /\ rule \in [Pods -> ElbRule \cup {None}]
      /\ addr \in [Pods -> Ips \cup {None}]
  BY DEF GroupsDiffer, RoutesInv, RoutesType, RoutesTypeOK
<1>2. CASE UpCreatesGroup(p) \/ UpRetriesRule(p)
  BY <1>1, <1>2 DEF UpCreatesGroup, UpRetriesRule, Goto, RulesOf, SameFor
<1>3. CASE UpCreatesRule(p)
  BY <1>1, <1>3 DEF UpCreatesRule, Goto, locals, RulesOf, SameFor
<1>4. CASE UpRunsTask(p) \/ UpRegistersTarget(p) \/ UpPutsRow(p)
  BY <1>1, <1>4
  DEF UpRunsTask, UpRegistersTarget, UpPutsRow, Goto, locals, GroupName, RulesOf, SameFor
<1>5. CASE DownStarts(p) \/ StopsTask(p) \/ DeletesRule(p)
  BY <1>1, <1>5 DEF DownStarts, StopsTask, DeletesRule, Goto, locals, RulesOf, SameFor
<1>6. CASE DeregistersTarget(p) \/ DeletesGroup(p) \/ TaskEnds(p)
  BY <1>1, <1>6
  DEF DeregistersTarget, DeletesGroup, TaskEnds, Goto, locals, GroupName, RulesOf, SameFor
<1> QED
  BY <1>2, <1>3, <1>4, <1>5, <1>6 DEF PodStep

LEMMA OthersKeepTheirRoute ==
  ASSUME RoutesInv, NEW p \in Pods, PodStep(p), faults' = faults, NEW q \in Pods, q # p
  PROVE  PodRoute(q)'
<1>1. PodRoute(q) /\ SameFor(q) /\ RulesOf(p)
  BY StepIsOfOnePod DEF RoutesInv
<1>2. rule[q] \in rules /\ step[q] \in {"run", "target", "put", "up"} => rule[q] \in rules'
  <2>1. PodRoute(p) /\ rules \subseteq ElbRule
    BY DEF RoutesInv, RoutesType, RoutesTypeOK
  <2> QED
    BY <1>1, <2>1, RoutesAssumption DEF PodRoute, RuleOf, RulesOf
<1>3. TriesOf(q)'
  BY <1>1 DEF PodRoute, TriesOf, SameFor, Try, Start
<1>4. RuleOf(q)'
  BY <1>1, <1>2 DEF PodRoute, RuleOf, SameFor, RulesOf, Tidy
<1>5. TaskOf(q)' /\ RowOf(q)'
  BY <1>1 DEF PodRoute, TaskOf, RowOf, SameFor
<1>6. TargetsOf(q)'
  BY <1>1 DEF PodRoute, TargetsOf, SameFor, Clean, Tidy
<1> QED
  BY <1>3, <1>4, <1>5, <1>6 DEF PodRoute

-----------------------------------------------------------------------------
(* The types, and what all pods share.                                     *)

LEMMA CreatedRule ==
  ASSUME RoutesInv, NEW p \in Pods,
         NEW r, r = [priority |-> priority[p], host |-> p, group |-> GroupName(p)]
  PROVE  r \in ElbRule
<1>1. priority[p] \in 1 .. MaxPriority
  BY LimitsFit DEF RoutesInv, RoutesType
<1> QED
  BY <1>1 DEF ElbRule, GroupName

LEMMA TypesKept ==
  ASSUME RoutesInv, NEW p \in Pods, PodStep(p), faults' = faults PROVE RoutesType'
<1>1. /\ step \in [Pods -> Steps] /\ rows \subseteq Pods
      /\ priority \in [Pods -> Base .. Base + Span - 1]
      /\ refused \in [Pods -> SUBSET (1 .. MaxPriority)]
      /\ attempt \in [Pods -> 0 .. Attempts] /\ rule \in [Pods -> ElbRule \cup {None}]
      /\ \A r \in rules : r \in ElbRule /\ r.group \in groups
      /\ \A q, r \in rules : q.priority = r.priority => q = r
      /\ targets \in [{Cut[c] : c \in Pods} -> SUBSET Ips]
      /\ live \subseteq Pods /\ addr \in [Pods -> Ips \cup {None}] /\ told \subseteq Pods
      /\ faults' \in FaultSets
  BY DEF RoutesInv, RoutesType, RoutesTypeOK
<1>2. PodRoute(p)
  BY DEF RoutesInv
<1>3. CASE UpCreatesGroup(p)
  <2>1. PriorityForPod(p) \in Base .. Base + Span - 1
    BY FirstTry, TryFits, LimitsFit DEF Attempts
  <2> QED
    BY <1>1, <1>3, <2>1 DEF UpCreatesGroup, Goto, Steps, RoutesType, RoutesTypeOK, Attempts
<1>4. CASE UpRetriesRule(p)
  <2>1. attempt[p] \in Nat /\ attempt[p] + 1 <= Attempts /\ priority[p] = Try(p, attempt[p])
    BY <1>1, <1>2, <1>4 DEF PodRoute, TriesOf, UpRetriesRule, At, Attempts
  <2>2. NextPriority(priority[p]) \in Base .. Base + Span - 1
    BY <2>1, NextTry, TryFits, LimitsFit DEF Attempts
  <2>3. priority[p] \in 1 .. MaxPriority
    BY <1>1, LimitsFit
  <2>4. attempt[p] + 1 \in 0 .. Attempts
    BY <2>1 DEF Attempts
  <2>5. priority' \in [Pods -> Base .. Base + Span - 1]
    BY <1>1, <1>4, <2>2 DEF UpRetriesRule
  <2>6. refused' \in [Pods -> SUBSET (1 .. MaxPriority)]
    BY <1>1, <1>4, <2>3 DEF UpRetriesRule
  <2>7. attempt' \in [Pods -> 0 .. Attempts] /\ step' \in [Pods -> Steps]
    BY <1>1, <1>4, <2>4 DEF UpRetriesRule, Goto, Steps
  <2> QED
    BY <1>1, <1>4, <2>5, <2>6, <2>7 DEF UpRetriesRule, RoutesType, RoutesTypeOK
<1>5. CASE UpCreatesRule(p)
  <2>1. PICK r : r = [priority |-> priority[p], host |-> p, group |-> GroupName(p)]
    OBVIOUS
  <2>2. r \in ElbRule /\ r.group = GroupName(p) /\ \A q \in rules : q.priority # r.priority
    BY <1>5, <2>1, CreatedRule DEF UpCreatesRule, InUse
  <2>3. /\ \/ /\ GroupName(p) \in groups
              /\ rules' = rules \cup {r} /\ rule' = [rule EXCEPT ![p] = r] /\ Goto(p, "run")
           \/ Goto(p, "stop") /\ UNCHANGED <<rules, rule>>
        /\ UNCHANGED <<rows, priority, refused, attempt, groups, targets, live, addr, told>>
    BY <1>5, <2>1 DEF UpCreatesRule, locals
  <2> QED
    BY <1>1, <2>2, <2>3 DEF Goto, Steps, RoutesType, RoutesTypeOK
<1>6. CASE UpRunsTask(p)
  BY <1>1, <1>6 DEF UpRunsTask, locals, Goto, Steps, RoutesType, RoutesTypeOK
<1>7. CASE UpRegistersTarget(p)
  <2>1. addr[p] \in Ips
    BY <1>2, <1>7 DEF PodRoute, TaskOf, UpRegistersTarget, At
  <2> QED
    BY <1>1, <1>7, <2>1
    DEF UpRegistersTarget, locals, Goto, Steps, RoutesType, RoutesTypeOK, GroupName
<1>8. CASE UpPutsRow(p) \/ DownStarts(p) \/ StopsTask(p) \/ TaskEnds(p)
  BY <1>1, <1>8
  DEF UpPutsRow, DownStarts, StopsTask, TaskEnds, locals, Goto, Steps, RoutesType, RoutesTypeOK
<1>9. CASE DeletesRule(p)
  BY <1>1, <1>9 DEF DeletesRule, locals, Goto, Steps, RoutesType, RoutesTypeOK
<1>10. CASE DeregistersTarget(p)
  BY <1>1, <1>10 DEF DeregistersTarget, locals, Goto, Steps, RoutesType, RoutesTypeOK, GroupName
<1>11. CASE DeletesGroup(p)
  BY <1>1, <1>11 DEF DeletesGroup, locals, Goto, Steps, RoutesType, RoutesTypeOK, GroupName
<1> QED
  BY <1>3, <1>4, <1>5, <1>6, <1>7, <1>8, <1>9, <1>10, <1>11 DEF PodStep

LEMMA RulesForwardKept ==
  ASSUME RoutesInv, NEW p \in Pods, PodStep(p) PROVE RulesForward'
<1>1. rules' \subseteq rules \/ UpCreatesRule(p)
  BY DEF PodStep, UpCreatesGroup, UpRetriesRule, UpRunsTask, UpRegistersTarget, UpPutsRow,
         DownStarts, StopsTask, DeletesRule, DeregistersTarget, DeletesGroup, TaskEnds
<1>2. \A r \in rules' : r \in rules
        \/ r = [priority |-> priority[p], host |-> p, group |-> GroupName(p)]
  BY <1>1 DEF UpCreatesRule
<1> QED
  BY <1>2 DEF RoutesInv, RulesForward, GroupName

LEMMA AddressesStayDifferent ==
  ASSUME RoutesInv, NEW p \in Pods, PodStep(p) PROVE AddressesDiffer'
<1>1. /\ addr \in [Pods -> Ips \cup {None}] /\ live \subseteq Pods
      /\ AddressesDiffer /\ PodRoute(p)
  BY DEF RoutesInv, RoutesType, RoutesTypeOK
<1>2. CASE UpRunsTask(p)
  BY <1>1, <1>2 DEF UpRunsTask, AddressesDiffer
<1>3. CASE DeletesGroup(p)
  <2>1. p \notin live
    BY <1>1, <1>3 DEF PodRoute, TaskOf, DeletesGroup, At
  <2> QED
    BY <1>1, <1>3, <2>1 DEF DeletesGroup, AddressesDiffer
<1>4. CASE ~UpRunsTask(p) /\ ~DeletesGroup(p)
  <2>1. live' \subseteq live /\ addr' = addr
    BY <1>4 DEF PodStep, UpCreatesGroup, UpRetriesRule, UpCreatesRule, UpRegistersTarget,
       UpPutsRow, DownStarts, StopsTask, DeletesRule, DeregistersTarget, TaskEnds
  <2> QED
    BY <1>1, <2>1 DEF AddressesDiffer
<1> QED
  BY <1>2, <1>3, <1>4

-----------------------------------------------------------------------------
(* The pod's own route.                                                    *)

(* At most five priorities are tried, all of them different.               *)
LEMMA TriesKept ==
  ASSUME RoutesInv, NEW p \in Pods, PodStep(p) PROVE TriesOf(p)'
<1>1. /\ step \in [Pods -> Steps] /\ priority \in [Pods -> Base .. Base + Span - 1]
      /\ refused \in [Pods -> SUBSET (1 .. MaxPriority)]
      /\ attempt \in [Pods -> 0 .. Attempts] /\ PodRoute(p)
  BY DEF RoutesInv, RoutesType, RoutesTypeOK
<1>2. CASE UpCreatesGroup(p)
  BY <1>1, <1>2, FirstTry, FS_EmptySet
  DEF UpCreatesGroup, Goto, TriesOf, Attempts, Try, Start
<1>3. CASE UpRetriesRule(p)
  <2>1. /\ attempt[p] \in Nat /\ attempt[p] < Attempts /\ priority[p] = Try(p, attempt[p])
        /\ IsFiniteSet(refused[p]) /\ Cardinality(refused[p]) = attempt[p]
        /\ \A q \in refused[p] : \E j \in 0 .. attempt[p] - 1 : q = Try(p, j)
    BY <1>1, <1>3 DEF PodRoute, TriesOf, UpRetriesRule, At, Attempts
  <2>2. priority[p] \notin refused[p]
    <3> SUFFICES ASSUME priority[p] \in refused[p] PROVE FALSE
      OBVIOUS
    <3>1. PICK j \in 0 .. attempt[p] - 1 : priority[p] = Try(p, j)
      BY <2>1
    <3>2. PICK a \in Nat : a = attempt[p]
      BY <2>1
    <3>3. j \in Nat /\ j < a /\ a <= Attempts
      BY <2>1, <3>2 DEF Attempts
    <3>4. Try(p, a) # Try(p, j)
      BY <3>3, TriesDiffer
    <3> QED
      BY <2>1, <3>1, <3>2, <3>4
  <2>3. /\ refused'[p] = refused[p] \cup {priority[p]} /\ attempt'[p] = attempt[p] + 1
        /\ priority'[p] = Try(p, attempt'[p])
        /\ step'[p] = IF attempt[p] + 1 < Attempts THEN "rule" ELSE "gaveUp"
    BY <1>1, <1>3, <2>1, NextTry DEF UpRetriesRule, Goto
  <2>4. IsFiniteSet(refused'[p]) /\ Cardinality(refused'[p]) = attempt'[p]
    BY <2>1, <2>2, <2>3, FS_AddElement
  <2>5. \A q \in refused'[p] : \E j \in 0 .. attempt'[p] - 1 : q = Try(p, j)
    BY <2>1, <2>3
  <2>6. \A j : Try(p, j)' = Try(p, j)
    BY DEF Try, Start
  <2> QED
    BY <2>1, <2>3, <2>4, <2>5 DEF TriesOf, Attempts, Try, Start
<1>4. CASE TaskEnds(p)
  BY <1>1, <1>4 DEF PodRoute, TaskEnds, locals, TriesOf, Try, Start
<1>5. CASE ~UpCreatesGroup(p) /\ ~UpRetriesRule(p) /\ ~TaskEnds(p)
  <2>1. step'[p] \notin {"rule", "gaveUp"}
    BY <1>1, <1>5
    DEF PodStep, UpCreatesRule, UpRunsTask, UpRegistersTarget, UpPutsRow, DownStarts,
        StopsTask, DeletesRule, DeregistersTarget, DeletesGroup, Goto
  <2> QED
    BY <2>1 DEF TriesOf
<1> QED
  BY <1>2, <1>3, <1>4, <1>5

LEMMA RuleKept ==
  ASSUME RoutesInv, NEW p \in Pods, PodStep(p), faults' = faults PROVE RuleOf(p)'
<1>1. /\ step \in [Pods -> Steps] /\ rule \in [Pods -> ElbRule \cup {None}]
      /\ rules \subseteq ElbRule /\ None \notin ElbRule /\ RuleOf(p)
  BY RoutesAssumption DEF RoutesInv, RoutesType, RoutesTypeOK, PodRoute
<1>2. CASE UpCreatesGroup(p) \/ UpRetriesRule(p)
  BY <1>1, <1>2 DEF UpCreatesGroup, UpRetriesRule, At, Goto, RuleOf, Tidy
<1>3. CASE UpCreatesRule(p)
  <2>1. PICK r : r = [priority |-> priority[p], host |-> p, group |-> GroupName(p)]
    OBVIOUS
  <2>2. r \in ElbRule /\ r.host = p
    BY <2>1, CreatedRule
  <2>3. \/ rules' = rules \cup {r} /\ rule' = [rule EXCEPT ![p] = r] /\ Goto(p, "run")
        \/ Goto(p, "stop") /\ UNCHANGED <<rules, rule>>
    BY <1>3, <2>1 DEF UpCreatesRule
  <2>4. rule[p] = None /\ (Tidy(faults) => \A q \in rules : q.host # p)
    BY <1>1, <1>3 DEF UpCreatesRule, At, RuleOf
  <2> QED
    BY <1>1, <2>2, <2>3, <2>4 DEF Goto, RuleOf, Tidy
<1>4. CASE UpRunsTask(p) \/ UpRegistersTarget(p) \/ UpPutsRow(p) \/ DownStarts(p)
  BY <1>1, <1>4
  DEF UpRunsTask, UpRegistersTarget, UpPutsRow, DownStarts, At, Goto, RuleOf, Tidy
<1>5. CASE StopsTask(p) \/ DeregistersTarget(p) \/ DeletesGroup(p) \/ TaskEnds(p)
  BY <1>1, <1>5 DEF StopsTask, DeregistersTarget, DeletesGroup, TaskEnds, At, Goto, RuleOf, Tidy
<1>6. CASE DeletesRule(p)
  BY <1>1, <1>6 DEF DeletesRule, At, Goto, RuleOf, Tidy
<1> QED
  BY <1>2, <1>3, <1>4, <1>5, <1>6 DEF PodStep

LEMMA TaskAndRowKept ==
  ASSUME RoutesInv, NEW p \in Pods, PodStep(p) PROVE TaskOf(p)' /\ RowOf(p)'
<1>1. /\ step \in [Pods -> Steps] /\ addr \in [Pods -> Ips \cup {None}]
      /\ TaskOf(p) /\ RowOf(p)
  BY DEF RoutesInv, RoutesType, RoutesTypeOK, PodRoute
<1>2. CASE UpCreatesGroup(p) \/ UpRetriesRule(p) \/ UpCreatesRule(p)
  BY <1>1, <1>2 DEF UpCreatesGroup, UpRetriesRule, UpCreatesRule, At, Goto, TaskOf, RowOf
<1>3. CASE UpRunsTask(p) \/ UpRegistersTarget(p) \/ UpPutsRow(p)
  BY <1>1, <1>3 DEF UpRunsTask, UpRegistersTarget, UpPutsRow, At, Goto, TaskOf, RowOf
<1>4. CASE DownStarts(p) \/ StopsTask(p) \/ DeletesRule(p)
  BY <1>1, <1>4 DEF DownStarts, StopsTask, DeletesRule, At, Goto, TaskOf, RowOf
<1>5. CASE DeregistersTarget(p) \/ DeletesGroup(p) \/ TaskEnds(p)
  BY <1>1, <1>5 DEF DeregistersTarget, DeletesGroup, TaskEnds, At, Goto, TaskOf, RowOf
<1> QED
  BY <1>2, <1>3, <1>4, <1>5 DEF PodStep

(* Either the address is deregistered with the task, or the target group   *)
(* goes because no rule forwards to it.                                    *)
LEMMA TargetsKept ==
  ASSUME RoutesInv, NEW p \in Pods, PodStep(p), faults' = faults PROVE TargetsOf(p)'
<1>1. /\ step \in [Pods -> Steps] /\ addr \in [Pods -> Ips \cup {None}]
      /\ targets \in [{Cut[c] : c \in Pods} -> SUBSET Ips]
      /\ RuleOf(p) /\ TaskOf(p) /\ RowOf(p) /\ TargetsOf(p)
  BY DEF RoutesInv, RoutesType, RoutesTypeOK, PodRoute
<1>2. CASE UpCreatesGroup(p) \/ UpRetriesRule(p) \/ UpCreatesRule(p)
  BY <1>1, <1>2
  DEF UpCreatesGroup, UpRetriesRule, UpCreatesRule, At, Goto, RowOf, TargetsOf, Clean,
      Tidy
<1>3. CASE UpRunsTask(p)
  BY <1>1, <1>3 DEF UpRunsTask, At, Goto, RowOf, TargetsOf, Clean, Tidy
<1>4. CASE UpRegistersTarget(p)
  <2>1. \/ /\ step' = [step EXCEPT ![p] = "put"]
           /\ targets' = [targets EXCEPT ![GroupName(p)] = @ \cup {addr[p]}]
        \/ step' = [step EXCEPT ![p] = "stop"] /\ UNCHANGED targets
    BY <1>4 DEF UpRegistersTarget, Goto
  <2>2. \/ step'[p] = "put" /\ targets' = [targets EXCEPT ![Cut[p]] = @ \cup {addr[p]}]
        \/ step'[p] = "stop" /\ targets' = targets
    BY <1>1, <2>1 DEF GroupName
  <2>3. UNCHANGED <<addr, told>>
    BY <1>4 DEF UpRegistersTarget
  <2> QED
    <3>1. /\ step[p] = "target" /\ p \notin rows /\ rows' = rows /\ faults' = faults
          /\ addr[p] \in Ips /\ addr'[p] = addr[p]
      BY <1>1, <1>4, <2>3 DEF UpRegistersTarget, At, RowOf, TaskOf
    <3>2. CASE GroupsDiffer /\ (Clean(faults) \/ Tidy(faults))
      <4>1. targets[Cut[p]] = {} /\ p \in told /\ p \in told'
        BY <1>1, <2>3, <3>1, <3>2 DEF TargetsOf
      <4>2. CASE step'[p] = "put"
        <5>1. targets'[Cut[p]] = {addr[p]}
          BY <1>1, <2>2, <4>1, <4>2
        <5> QED
          BY <3>1, <4>1, <4>2, <5>1 DEF TargetsOf
      <4>3. CASE step'[p] = "stop" /\ targets' = targets
        BY <3>1, <4>1, <4>3 DEF TargetsOf
      <4> QED
        BY <2>2, <4>2, <4>3
    <3> QED
      BY <3>1, <3>2 DEF TargetsOf, Clean, Tidy
<1>5. CASE UpPutsRow(p) \/ DownStarts(p)
  BY <1>1, <1>5 DEF UpPutsRow, DownStarts, At, Goto, RowOf, TargetsOf, Clean, Tidy
<1>6. CASE StopsTask(p) \/ DeletesRule(p)
  BY <1>1, <1>6 DEF StopsTask, DeletesRule, At, Goto, RowOf, TargetsOf, Clean, Tidy
<1>7. CASE DeregistersTarget(p)
  <2>1. UNCHANGED <<addr, told>> /\ step'[p] \in {"ungroup", "half"}
    BY <1>1, <1>7 DEF DeregistersTarget, Goto
  <2>2. \/ targets' = targets
        \/ targets' = [targets EXCEPT ![Cut[p]] = @ \ {addr[p]}] /\ step'[p] = "ungroup"
    BY <1>1, <1>7 DEF DeregistersTarget, GroupName, Goto
  <2>3. Clean(faults) /\ step'[p] = "ungroup" =>
          targets' = [targets EXCEPT ![Cut[p]] = @ \ {addr[p]}]
    BY <1>1, <1>7 DEF DeregistersTarget, GroupName, Goto, Clean
  <2> QED
    BY <1>1, <1>7, <2>1, <2>2, <2>3 DEF DeregistersTarget, At, RowOf, TargetsOf, Clean, Tidy
<1>9. CASE TaskEnds(p)
  BY <1>1, <1>9 DEF TaskEnds, TargetsOf, Clean, Tidy
<1>8. CASE DeletesGroup(p)
  <2>1. step'[p] \in {"down", "half"} /\ (step'[p] = "half" => addr' = addr)
    BY <1>1, <1>8 DEF DeletesGroup, Goto
  <2>2. CASE GroupsDiffer /\ Clean(faults)
    BY <1>1, <1>8, <2>1, <2>2 DEF DeletesGroup, GroupName, At, TargetsOf, Clean, Tidy
  <2>3. CASE GroupsDiffer /\ Tidy(faults)
    <3>2. \A r \in rules : r.group = Cut[r.host] /\ r.host \in Pods /\ r.host # p
      BY <1>1, <1>8, <2>3 DEF DeletesGroup, At, RuleOf, RoutesInv, RulesForward, RoutesType, RoutesTypeOK, ElbRule
    <3>3. targets' = [targets EXCEPT ![Cut[p]] = {}]
      BY <1>8, <2>3, <3>2 DEF DeletesGroup, GroupName, GroupsDiffer, Tidy
    <3> QED
      BY <1>1, <2>1, <3>3 DEF TargetsOf, Clean, Tidy
  <2> QED
    BY <2>2, <2>3 DEF TargetsOf, Clean, Tidy
<1> QED
  BY <1>2, <1>3, <1>4, <1>5, <1>6, <1>7, <1>8, <1>9 DEF PodStep

-----------------------------------------------------------------------------
LEMMA RoutesInvNext ==
  ASSUME RoutesInv, [RoutesNext]_routeVars PROVE RoutesInv'
<1>1. ASSUME NEW p \in Pods, PodStep(p), faults' = faults PROVE RoutesInv'
  <2>1. PodRoute(p)'
    BY <1>1, TriesKept, RuleKept, TaskAndRowKept, TargetsKept DEF PodRoute
  <2>2. \A q \in Pods : q # p => PodRoute(q)'
    BY <1>1, OthersKeepTheirRoute
  <2> QED
    BY <1>1, <2>1, <2>2, TypesKept, RulesForwardKept, AddressesStayDifferent DEF RoutesInv
<1>2. CASE UNCHANGED routeVars
  <2> USE <1>2 DEF routeVars, locals
  <2>1. RoutesType' /\ RulesForward' /\ AddressesDiffer'
    BY DEF RoutesInv, RoutesType, RoutesTypeOK, RulesForward, AddressesDiffer
  <2>2. ASSUME NEW p \in Pods PROVE PodRoute(p)'
    <3>1. TriesOf(p)' /\ RuleOf(p)'
      BY DEF RoutesInv, PodRoute, TriesOf, RuleOf, Try, Start, Tidy
    <3>2. TaskOf(p)' /\ RowOf(p)' /\ TargetsOf(p)'
      BY DEF RoutesInv, PodRoute, TaskOf, RowOf, TargetsOf, Clean, Tidy
    <3> QED
      BY <3>1, <3>2 DEF PodRoute
  <2> QED
    BY <2>1, <2>2 DEF RoutesInv
<1> QED
  BY <1>1, <1>2 DEF RoutesNext, PodStep

LEMMA RoutesInvHolds == RoutesSpec => []RoutesInv
<1>1. RoutesInit => RoutesInv
  BY RoutesInvInit
<1>2. RoutesInv /\ [RoutesNext]_routeVars => RoutesInv'
  BY RoutesInvNext
<1> QED
  BY <1>1, <1>2, PTL DEF RoutesSpec

(* Of the rules of a host that is up, all lead to its target group, one    *)
(* decides, and the only address there is the pod's.                       *)
LEMMA ServesItself ==
  ASSUME GroupsDiffer, Clean(faults) \/ Tidy(faults), RoutesInv, NEW p \in Pods, At(p, "up")
  PROVE  Serves(p) = IF p \in told THEN {q \in live : addr[q] = addr[p]} ELSE {}
<1> DEFINE mine == {r \in rules : r.host = p}
           first == {r \in mine : \A q \in mine : r.priority <= q.priority}
           served == IF p \in told THEN {addr[p]} ELSE {}
<1>1. /\ rule[p] \in mine /\ targets[Cut[p]] = served
      /\ \A r \in mine : r.group = Cut[p] /\ r.priority \in Nat
  <2>1. PodRoute(p) /\ rules \subseteq ElbRule /\ RulesForward
    BY DEF RoutesInv, RoutesType, RoutesTypeOK
  <2>2. rule[p] \in rules /\ rule[p] # None
    BY <2>1, RoutesAssumption DEF At, PodRoute, RuleOf
  <2>3. rule[p].host = p /\ targets[Cut[p]] = served
    BY <2>1, <2>2 DEF At, PodRoute, RuleOf, TargetsOf
  <2>4. \A r \in ElbRule : r.priority \in Nat
    BY LimitsFit DEF ElbRule
  <2> QED
    BY <2>1, <2>2, <2>3, <2>4 DEF RulesForward
<1>2. first # {}
  <2> DEFINE T == {r.priority : r \in mine}
  <2>1. T \subseteq Nat /\ T # {}
    BY <1>1
  <2>2. PICK x \in T : \A y \in T : x <= y
    BY <2>1, LowestExists
  <2> QED
    BY <2>2
<1>3. \A r \in first : targets[r.group] = served
  BY <1>1
<1>4. Serves(p) = {q \in live : \E r \in first : addr[q] \in targets[r.group]}
  BY DEF Serves
<1> QED
  BY <1>2, <1>3, <1>4

(* The rules, target groups, targets and addresses keep their types: no    *)
(* two rules share a priority, and every rule forwards to a group that     *)
(* exists, whichever calls fail.                                           *)
THEOREM RoutesTypeCorrect == RoutesSpec => []RoutesTypeOK
<1>1. RoutesInv => RoutesTypeOK
  BY DEF RoutesInv, RoutesType
<1> QED
  BY <1>1, RoutesInvHolds, PTL

(* The host of a pod that is up leads to its own running task and to no    *)
(* other, or to nobody if podUp was given no address, and after its task   *)
(* has ended at most to the task that has got its address, for any pods    *)
(* with target groups of their own, as long as what leaves an address      *)
(* registered (a failing put, a failing deregister, an address that ECS    *)
(* does not give) happens in no deployment in which the calls that leave a *)
(* rule or a target group behind fail (podUp, podDown).                    *)
THEOREM EveryPodIsRouted ==
  ASSUME GroupsDiffer, \A set \in FaultSets : Clean(set) \/ Tidy(set)
  PROVE  RoutesSpec => []RoutedToOwnTask
<1>1. RoutesInv => RoutedToOwnTask
  <2> SUFFICES ASSUME RoutesInv, NEW p \in Pods, At(p, "up")
               PROVE  IF p \in live THEN Serves(p) = told \cap {p}
                      ELSE \A q \in Serves(p) : p \in told /\ addr[q] = addr[p]
    BY DEF RoutedToOwnTask
  <2>1. Serves(p) = IF p \in told THEN {q \in live : addr[q] = addr[p]} ELSE {}
    BY ServesItself DEF RoutesInv, RoutesType, RoutesTypeOK
  <2>2. p \in live => {q \in live : addr[q] = addr[p]} = {p}
    BY DEF RoutesInv, AddressesDiffer
  <2> QED
    BY <2>1, <2>2
<1> QED
  BY <1>1, RoutesInvHolds, PTL

(* createListenerRule gives up only after five different priorities were   *)
(* in use, whatever the pod's hash, also where the range wraps around.     *)
THEOREM FiveDifferentTries == RoutesSpec => []GivesUpAfterFive
<1>1. RoutesInv => GivesUpAfterFive
  BY DEF RoutesInv, PodRoute, TriesOf, GivesUpAfterFive, At
<1> QED
  BY <1>1, RoutesInvHolds, PTL
=============================================================================
