------------------------ MODULE PostBootstrapProofs ------------------------
(* Theorems about PostBootstrap, for any number of terminals, access keys  *)
(* and failures.                                                           *)
EXTENDS PostBootstrap, FiniteSetTheorems, TLAPS

-----------------------------------------------------------------------------
(* Why the order of the calls is safe: nothing is removed before the roles *)
(* are read back, so until then the Secrets hold parts of keys that exist; *)
(* and what a run has seen to be gone stays so, unless an init has begun   *)
(* since.                                                                  *)

Pointing == {"set variable", "read back"}
SecretsGone ==
  {"get user", "confirm", "list keys", "delete key", "detach", "delete user",
   "verify", "kept", "done"}
Removing == {"list secrets", "delete secret", "list secrets again"} \cup SecretsGone

RolesAtOnce  == params \in {{}, Roles}
InitIsSeen  == init # NoInit => beside = Runs
KeysKept ==
  variables # Roles =>
    /\ \A s \in SecretNames : secrets[s] \in keys \cup {NoKey}
    /\ init.step \in {"push id", "push secret"} => init.key \in keys
    /\ params = Roles => Present = SecretNames /\ user /\ policy
(* What a run that is about to do step has seen; alone: no init since.     *)
Justified(step, todo, alone) ==
  /\ step \in Pointing =>
       params = Roles /\ todo \subseteq Roles /\ Roles \ todo \subseteq variables
  /\ step \in Removing => params = Roles /\ variables = Roles
  /\ alone /\ step \in SecretsGone => Present = {}
  /\ alone /\ step = "done" => ~user
InOrder == \A r \in Runs : Justified(run[r].step, run[r].todo, r \notin beside)
BootInv ==
  /\ BootTypeOK /\ IsFiniteSet(keys)
  /\ RolesAtOnce /\ InitIsSeen /\ KeysKept /\ InOrder

InitType == [step : {"none", "attach", "create key", "push id", "push secret"},
             key : Keys \cup {NoKey}]

LEMMA BootInvInit == BootInit => BootInv
<1> SUFFICES ASSUME BootInit PROVE BootInv
  OBVIOUS
<1>1. IsFiniteSet(keys) /\ Cardinality(keys) = 0 /\ keys = {}
  BY FS_EmptySet DEF BootInit
<1>2. run \in [Runs -> [step : RunSteps, todo : SUBSET (Roles \cup SecretNames \cup Keys)]]
  BY DEF BootInit, NoRun, RunSteps
<1>3. init \in InitType
  BY DEF BootInit, NoInit, InitType
<1>4. \A r \in Runs : run[r].step = "none"
  BY DEF BootInit, NoRun
<1>5. BootTypeOK
  <2>1. secrets \in [SecretNames -> Keys \cup {NoKey}] /\ faults \in 0 .. MaxFaults
    BY BootAssumption DEF BootInit
  <2>2. Cardinality(keys) <= KeyLimit
    BY <1>1 DEF KeyLimit
  <2> QED
    BY <1>1, <1>2, <1>3, <1>4, <2>1, <2>2 DEF BootInit, BootTypeOK, InitType
<1> QED
  BY <1>1, <1>4, <1>5
  DEF BootInit, BootInv, RolesAtOnce, InitIsSeen, KeysKept, InOrder, Justified,
      Pointing, Removing, SecretsGone, Roles, NoInit

-----------------------------------------------------------------------------
(* maybeCreateBootstrapIam and the bootstrap workflow.                     *)

(* What it changes.                                                        *)
LEMMA InitMoves ==
  ASSUME BootTypeOK, MaybeCreateBootstrapIam
  PROVE  /\ UNCHANGED <<params, variables, run>>
         /\ beside' = Runs \/ (init # NoInit /\ beside' = beside)
         /\ init' \in InitType
         /\ secrets' \in [SecretNames -> Keys \cup {NoKey}]
         /\ faults' = faults \/ (faults < MaxFaults /\ faults' = faults + 1)
         /\ user' \in BOOLEAN /\ policy' \in BOOLEAN /\ (user => user')
         /\ policy' => policy \/ user
         /\ \/ keys' = keys /\ made' = made
            \/ /\ user /\ Cardinality(keys) < KeyLimit
               /\ \E k \in Keys \ made : keys' = keys \cup {k} /\ made' = made \cup {k}
<1>1. init \in InitType /\ NoInit \in InitType /\ NoInit.step = "none"
  BY DEF BootTypeOK, InitType, NoInit
<1>2. CASE InitCreatesUser
  <2>1. [step |-> "attach", key |-> NoKey] \in InitType
    BY DEF InitType
  <2> QED
    BY <1>2, <2>1 DEF InitCreatesUser, BootTypeOK
<1>3. CASE InitAttachesPolicy \/ InitDropsError
  <2>1. [init EXCEPT !.step = "create key"] \in InitType
    BY <1>1 DEF InitType
  <2>2. init # NoInit
    BY <1>1, <1>3 DEF InitAttachesPolicy, InitDropsError
  <2>3. /\ secrets \in [SecretNames -> Keys \cup {NoKey}]
        /\ user \in BOOLEAN /\ policy \in BOOLEAN
    BY DEF BootTypeOK
  <2>4. /\ user' \in BOOLEAN /\ policy' \in BOOLEAN /\ (user => user')
        /\ policy' => policy \/ user
    <3>1. user' = user /\ (policy' = user \/ policy' = policy)
      BY <1>3 DEF InitAttachesPolicy, InitDropsError, aws
    <3>2. user' \in BOOLEAN /\ policy' \in BOOLEAN
      BY <2>3, <3>1
    <3>3. user => user'
      BY <3>1, Zenon
    <3>4. policy' => policy \/ user
      BY <3>1, Zenon
    <3> QED
      BY <3>2, <3>3, <3>4
  <2>5. keys' = keys /\ made' = made
    BY <1>3 DEF InitAttachesPolicy, InitDropsError, aws
  <2>6. /\ UNCHANGED <<params, variables, run, secrets, beside>>
        /\ init' = [init EXCEPT !.step = "create key"]
        /\ faults' = faults \/ (faults < MaxFaults /\ faults' = faults + 1)
    BY <1>3 DEF InitAttachesPolicy, InitDropsError, aws
  <2> QED
    BY <2>1, <2>2, <2>3, <2>4, <2>5, <2>6
<1>4. CASE InitCreatesKey
  <2>1. \A k \in Keys : [step |-> "push id", key |-> k] \in InitType
    BY DEF InitType
  <2>2. init # NoInit
    BY <1>1, <1>4 DEF InitCreatesKey
  <2> QED
    BY <1>1, <1>4, <2>1, <2>2 DEF InitCreatesKey, BootTypeOK
<1>5. CASE InitPushesId \/ InitPushesSecret
  <2>1. [init EXCEPT !.step = "push secret"] \in InitType /\ init.key \in Keys \cup {NoKey}
    BY <1>1 DEF InitType
  <2>2. init # NoInit
    BY <1>1, <1>5 DEF InitPushesId, InitPushesSecret, InitPushes
  <2>3. \A n : [secrets EXCEPT ![n] = init.key] \in [SecretNames -> Keys \cup {NoKey}]
    BY <2>1 DEF BootTypeOK
  <2>4. user \in BOOLEAN /\ policy \in BOOLEAN
    BY DEF BootTypeOK
  <2>5. user' = user /\ policy' = policy /\ keys' = keys /\ made' = made
    BY <1>5 DEF InitPushesId, InitPushesSecret, InitPushes, aws
  <2>6. \/ secrets' = [secrets EXCEPT !["id"] = init.key]
           /\ init' = [init EXCEPT !.step = "push secret"]
        \/ secrets' = [secrets EXCEPT !["secret"] = init.key] /\ init' = NoInit
    BY <1>5 DEF InitPushesId, InitPushesSecret, InitPushes
  <2>7. UNCHANGED <<params, variables, run, beside, faults>>
    BY <1>5 DEF InitPushesId, InitPushesSecret, InitPushes, aws
  <2>8. init' \in InitType /\ secrets' \in [SecretNames -> Keys \cup {NoKey}]
    BY <1>1, <2>1, <2>3, <2>6
  <2>9. /\ user' \in BOOLEAN /\ policy' \in BOOLEAN /\ (user => user')
        /\ policy' => policy \/ user
    BY <2>4, <2>5, Zenon
  <2> QED
    BY <2>2, <2>5, <2>7, <2>8, <2>9
<1>6. CASE InitFails
  BY <1>1, <1>6 DEF InitFails, BootTypeOK, aws
<1> QED
  BY <1>2, <1>3, <1>4, <1>5, <1>6 DEF MaybeCreateBootstrapIam

LEMMA InitKeepsTypes ==
  ASSUME BootTypeOK, IsFiniteSet(keys), MaybeCreateBootstrapIam
  PROVE  BootTypeOK' /\ IsFiniteSet(keys')
<1>1. /\ IsFiniteSet(keys') /\ made' \subseteq Keys /\ keys' \subseteq made'
      /\ Cardinality(keys') <= KeyLimit /\ (keys' = keys \/ user)
  <2>1. CASE keys' = keys /\ made' = made
    BY <2>1 DEF BootTypeOK
  <2>2. CASE user /\ Cardinality(keys) < KeyLimit /\ \E k \in Keys \ made :
               keys' = keys \cup {k} /\ made' = made \cup {k}
    <3>1. PICK k \in Keys \ made : keys' = keys \cup {k} /\ made' = made \cup {k}
      BY <2>2
    <3>2. /\ IsFiniteSet(keys') /\ Cardinality(keys') = Cardinality(keys) + 1
          /\ Cardinality(keys) \in Nat
      BY <3>1, FS_AddElement, FS_CardinalityType DEF BootTypeOK
    <3>3. Cardinality(keys') <= KeyLimit
      BY <2>2, <3>2 DEF KeyLimit
    <3> QED
      BY <2>2, <3>1, <3>2, <3>3 DEF BootTypeOK
  <2> QED
    BY <2>1, <2>2, InitMoves
<1>2. faults' \in 0 .. MaxFaults
  <2>1. faults \in 0 .. MaxFaults
    BY DEF BootTypeOK
  <2>2. faults' = faults \/ (faults < MaxFaults /\ faults' = faults + 1)
    BY InitMoves
  <2> QED
    BY <2>1, <2>2, BootAssumption
<1>3. ~user' => ~policy' /\ keys' = {}
  BY <1>1, InitMoves DEF BootTypeOK
<1> QED
  BY <1>1, <1>2, <1>3, InitMoves DEF BootTypeOK, InitType

(* It makes keys and pushes them, and removes nothing.                     *)
LEMMA InitKeepsKeys ==
  ASSUME BootTypeOK, KeysKept, MaybeCreateBootstrapIam PROVE KeysKept'
<1> SUFFICES ASSUME variables # Roles
             PROVE  /\ \A s \in SecretNames : secrets'[s] \in keys' \cup {NoKey}
                    /\ init'.step \in {"push id", "push secret"} => init'.key \in keys'
                    /\ params = Roles => Present' = SecretNames /\ user' /\ policy'
  BY InitMoves DEF KeysKept
<1>1. /\ \A s \in SecretNames : secrets[s] \in keys \cup {NoKey}
      /\ init.step \in {"push id", "push secret"} => init.key \in keys
      /\ params = Roles => Present = SecretNames /\ user /\ policy
      /\ keys \subseteq Keys /\ NoKey \notin Keys /\ init \in InitType
      /\ secrets \in [SecretNames -> Keys \cup {NoKey}]
  BY BootAssumption DEF KeysKept, BootTypeOK, InitType
<1>2. CASE InitCreatesUser
  BY <1>1, <1>2 DEF InitCreatesUser, Present
<1>3. CASE InitAttachesPolicy \/ InitDropsError
  <2>1. /\ UNCHANGED <<secrets, keys, user>> /\ policy' \in {user, policy}
        /\ init' = [init EXCEPT !.step = "create key"]
    BY <1>3 DEF InitAttachesPolicy, InitDropsError, aws
  <2>2. init'.step = "create key"
    BY <1>1, <2>1 DEF InitType
  <2> QED
    BY <1>1, <2>1, <2>2 DEF Present
<1>4. CASE InitCreatesKey
  <2>1. \/ init' = NoInit /\ keys' = keys
        \/ \E k \in Keys : keys' = keys \cup {k} /\ init' = [step |-> "push id", key |-> k]
    BY <1>4 DEF InitCreatesKey
  <2>2. UNCHANGED <<secrets, user, policy>>
    BY <1>4 DEF InitCreatesKey
  <2>3. CASE init' = NoInit /\ keys' = keys
    BY <1>1, <2>2, <2>3 DEF Present, NoInit
  <2>4. ASSUME NEW k \in Keys, keys' = keys \cup {k}, init' = [step |-> "push id", key |-> k]
        PROVE  k \in keys' /\ init'.key = k /\ keys \subseteq keys'
    BY <2>4
  <2> QED
    BY <1>1, <2>1, <2>2, <2>3, <2>4 DEF Present
<1>5. CASE InitPushesId \/ InitPushesSecret
  <2>1. init.key \in keys /\ init.key # NoKey
    BY <1>1, <1>5 DEF InitPushesId, InitPushesSecret, InitPushes
  <2>2. PICK n \in SecretNames : secrets' = [secrets EXCEPT ![n] = init.key]
    BY <1>5 DEF InitPushesId, InitPushesSecret, InitPushes, SecretNames
  <2>3. /\ UNCHANGED <<keys, user, policy>>
        /\ init' = [init EXCEPT !.step = "push secret"] \/ init' = NoInit
    BY <1>5 DEF InitPushesId, InitPushesSecret, InitPushes, aws
  <2>4. CASE init' = [init EXCEPT !.step = "push secret"]
    <3>1. init'.key = init.key
      BY <1>1, <2>4 DEF InitType
    <3> QED
      BY <1>1, <2>1, <2>2, <2>3, <3>1 DEF Present
  <2>5. CASE init' = NoInit
    <3>1. init'.step = "none"
      BY <2>5 DEF NoInit
    <3> QED
      BY <1>1, <2>1, <2>2, <2>3, <3>1 DEF Present
  <2> QED
    BY <2>3, <2>4, <2>5
<1>6. CASE InitFails
  BY <1>1, <1>6 DEF InitFails, aws, Present, NoInit
<1> QED
  BY <1>2, <1>3, <1>4, <1>5, <1>6 DEF MaybeCreateBootstrapIam

(* No run has been alone since it began.                                   *)
LEMMA InitKeepsInv ==
  ASSUME BootInv, MaybeCreateBootstrapIam PROVE BootInv'
<1>1. BootTypeOK' /\ IsFiniteSet(keys')
  BY InitKeepsTypes DEF BootInv
<1>2. UNCHANGED <<params, variables, run>> /\ beside' = Runs
  BY InitMoves DEF BootInv, InitIsSeen
<1>3. InOrder'
  BY <1>2 DEF BootInv, InOrder, Justified
<1> QED
  BY <1>1, <1>2, <1>3, InitKeepsKeys DEF BootInv, RolesAtOnce, InitIsSeen

LEMMA WorkflowKeepsInv == ASSUME BootInv, BootstrapWorkflow PROVE BootInv'
<1>1. /\ params' = Roles /\ CredentialWorks
      /\ UNCHANGED <<variables, secrets, user, policy, keys, made, init, run, beside, faults>>
  BY DEF BootstrapWorkflow
<1>2. BootTypeOK' /\ IsFiniteSet(keys')
  BY <1>1 DEF BootInv, BootTypeOK
<1>3. user /\ policy /\ Present = SecretNames
  BY <1>1 DEF BootInv, BootTypeOK, CredentialWorks, Present, SecretNames
<1>4. KeysKept'
  BY <1>1, <1>3 DEF BootInv, KeysKept, Present
<1>5. InOrder'
  BY <1>1 DEF BootInv, InOrder, Justified, Present
<1> QED
  BY <1>1, <1>2, <1>4, <1>5 DEF BootInv, RolesAtOnce, InitIsSeen

-----------------------------------------------------------------------------
(* runPostBootstrap.                                                       *)

Todos == SUBSET (Roles \cup SecretNames \cup Keys)
TodoFits(step, todo) ==
  /\ step = "set variable" => todo # {} /\ todo \subseteq Roles
  /\ step = "delete secret" => todo # {} /\ todo \subseteq SecretNames
  /\ step = "delete key" => todo # {} /\ todo \subseteq Keys

(* A call of a run only removes what init made, and only with the roles    *)
(* set; it only adds Variables.                                            *)
OnlyRemoves ==
  /\ UNCHANGED <<params, made, init>>
  /\ beside' \subseteq Runs /\ (init # NoInit /\ beside = Runs => beside' = Runs)
  /\ variables \subseteq variables' /\ variables' \subseteq Roles
  /\ secrets' \in [SecretNames -> Keys \cup {NoKey}] /\ Present' \subseteq Present
  /\ user' \in BOOLEAN /\ (user' => user)
  /\ policy' \in BOOLEAN /\ (policy' => policy)
  /\ keys' \subseteq keys /\ (~user' => ~policy' /\ keys' = {})
  /\ variables = Roles \/ UNCHANGED <<secrets, user, policy, keys>>
  /\ faults' = faults \/ (faults < MaxFaults /\ faults' = faults + 1)

(* It goes on to a step that what it has seen justifies, and leaves what   *)
(* is known of the others.                                                 *)
Advances(r) ==
  /\ \A q \in Runs : q # r => (q \in beside' <=> q \in beside)
  /\ \E step \in RunSteps, todo \in Todos :
       /\ Go(r, step, todo) /\ TodoFits(step, todo)
       /\ Justified(step, todo, r \notin beside)'

LEMMA RunKeepsInv ==
  ASSUME BootInv, NEW r \in Runs, OnlyRemoves, Advances(r)
  PROVE  BootInv'
<1>1. PICK step \in RunSteps, todo \in Todos :
         /\ Go(r, step, todo) /\ TodoFits(step, todo)
         /\ Justified(step, todo, r \notin beside)'
  BY DEF Advances
<1>2. /\ run' \in [Runs -> [step : RunSteps, todo : Todos]]
      /\ run'[r].step = step /\ run'[r].todo = todo
      /\ \A q \in Runs \ {r} : run'[q] = run[q]
  BY <1>1 DEF BootInv, BootTypeOK, Go, Todos
<1>3. BootTypeOK'
  <2>1. \A q \in Runs : TodoFits(run'[q].step, run'[q].todo)
    BY <1>1, <1>2 DEF BootInv, BootTypeOK, TodoFits
  <2>2. faults' \in 0 .. MaxFaults
    <3>1. faults \in 0 .. MaxFaults
      BY DEF BootInv, BootTypeOK
    <3> QED
      BY <3>1, BootAssumption DEF OnlyRemoves
  <2>3. Cardinality(keys') <= KeyLimit
    <3>1. /\ Cardinality(keys') <= Cardinality(keys)
          /\ Cardinality(keys) \in Nat /\ Cardinality(keys') \in Nat
      BY FS_Subset, FS_CardinalityType DEF BootInv, OnlyRemoves
    <3>2. Cardinality(keys) <= KeyLimit
      BY DEF BootInv, BootTypeOK
    <3> QED
      BY <3>1, <3>2 DEF KeyLimit
  <2> QED
    BY <1>2, <2>1, <2>2, <2>3 DEF BootInv, BootTypeOK, OnlyRemoves, TodoFits, Todos
<1>4. IsFiniteSet(keys')
  BY FS_Subset DEF BootInv, OnlyRemoves
<1>5. RolesAtOnce' /\ InitIsSeen'
  BY DEF BootInv, OnlyRemoves, RolesAtOnce, InitIsSeen
<1>6. InOrder'
  <2>1. ASSUME NEW q \in Runs, q # r PROVE Justified(run[q].step, run[q].todo, q \notin beside)'
    <3>1. Justified(run[q].step, run[q].todo, q \notin beside) /\ variables \subseteq Roles
      BY DEF BootInv, InOrder, BootTypeOK
    <3>2. /\ params' = params /\ (variables = Roles => variables' = Roles)
          /\ Present' \subseteq Present /\ (user' => user)
          /\ variables \subseteq variables'
      BY <3>1 DEF OnlyRemoves
    <3>3. run'[q] = run[q] /\ (q \in beside' <=> q \in beside)
      BY <1>2, <2>1 DEF Advances
    <3> QED
      BY <3>1, <3>2, <3>3 DEF Justified
  <2>2. Justified(run[r].step, run[r].todo, r \notin beside)'
    BY <1>1, <1>2 DEF Justified
  <2> QED
    BY <2>1, <2>2 DEF InOrder
<1>7. KeysKept'
  <2>1. CASE variables = Roles
    BY <2>1 DEF KeysKept, OnlyRemoves
  <2>2. CASE variables # Roles
    <3>1. UNCHANGED <<secrets, user, policy, keys, params, init>>
      BY <2>2 DEF OnlyRemoves
    <3>2. Present' = Present
      BY <3>1 DEF Present
    <3> QED
      BY <2>2, <3>1, <3>2 DEF BootInv, KeysKept
  <2> QED
    BY <2>1, <2>2
<1> QED
  BY <1>3, <1>4, <1>5, <1>6, <1>7 DEF BootInv

(* The calls that only look, and the failures before a call's effect.      *)
Looks(r) ==
  \/ Starts(r) \/ ReadsParams(r) \/ ReadsBack(r) \/ ListsSecrets(r)
  \/ ListsSecretsAgain(r) \/ GetsUser(r) \/ Confirms(r) \/ ListsKeys(r)
  \/ Verifies(r) \/ FailsBefore(r)

LEMMA LooksRemovesNothing ==
  ASSUME BootTypeOK, NEW r \in Runs, Looks(r)
  PROVE  /\ UNCHANGED <<aws, variables, secrets, init>> /\ OnlyRemoves
         /\ beside' = beside \/ Starts(r)
         /\ \A q \in Runs : q # r => (q \in beside' <=> q \in beside)
<1>1. \/ beside' = beside
      \/ Starts(r) /\ init = NoInit /\ beside' = beside \ {r}
      \/ Starts(r) /\ init # NoInit /\ beside' = beside \cup {r}
  BY DEF Looks, Starts, ReadsParams, ReadsBack, ListsSecrets, ListsSecretsAgain,
         GetsUser, Confirms, ListsKeys, Verifies, FailsBefore
<1>2. /\ UNCHANGED <<aws, variables, secrets, init>>
      /\ faults' = faults \/ (faults < MaxFaults /\ faults' = faults + 1)
  BY DEF Looks, Starts, ReadsParams, ReadsBack, ListsSecrets, ListsSecretsAgain,
         GetsUser, Confirms, ListsKeys, Verifies, FailsBefore
<1>3. beside' \subseteq Runs /\ (init # NoInit /\ beside = Runs => beside' = Runs)
  BY <1>1 DEF BootTypeOK
<1> QED
  BY <1>1, <1>2, <1>3 DEF OnlyRemoves, BootTypeOK, Present, aws

LEMMA LooksAdvances == ASSUME BootInv, NEW r \in Runs, Looks(r) PROVE Advances(r)
<1>1. /\ UNCHANGED <<params, variables, secrets, user, keys>> /\ (beside' = beside \/ Starts(r))
      /\ \A q \in Runs : q # r => (q \in beside' <=> q \in beside)
  BY LooksRemovesNothing DEF BootInv, aws
<1>2. /\ Justified(run[r].step, run[r].todo, r \notin beside) /\ run[r].todo \in Todos
      /\ keys \subseteq Keys /\ variables \subseteq Roles
  BY DEF BootInv, InOrder, BootTypeOK, Todos
<1>3. CASE Starts(r) \/ ReadsParams(r) \/ FailsBefore(r)
  BY <1>1, <1>3
  DEF Starts, ReadsParams, FailsBefore, Advances, Justified, TodoFits, Todos, RunSteps,
      Pointing, Removing, SecretsGone, Roles
<1>4. CASE ReadsBack(r)
  <2>1. run[r].todo \subseteq Roles \cup SecretNames \cup Keys /\ params = Roles
    BY <1>2, <1>4 DEF ReadsBack, Todos, Justified, Pointing, At
  <2>2. CASE ~(Roles \ run[r].todo \subseteq variables)
    BY <1>2, <1>4, <2>2 DEF ReadsBack, At, Justified, Pointing
  <2>3. CASE run[r].todo # {} /\ Roles \ run[r].todo \subseteq variables
    <3>1. Go(r, "set variable", run[r].todo)
      BY <1>4, <2>3 DEF ReadsBack
    <3>2. TodoFits("set variable", run[r].todo)
      BY <1>2, <1>4, <2>3 DEF TodoFits, ReadsBack, At, Justified, Pointing
    <3>3. PICK todo \in Todos : todo = run[r].todo
      BY <1>2
    <3>4. Justified("set variable", todo, r \notin beside)'
      BY <1>1, <1>2, <1>4, <2>1, <2>3, <3>3
      DEF Justified, Pointing, Removing, SecretsGone, ReadsBack, At
    <3> QED
      BY <1>1, <1>4, <3>1, <3>2, <3>3, <3>4 DEF ReadsBack, Advances, RunSteps
  <2>4. CASE run[r].todo = {} /\ Roles \subseteq variables
    <3>1. Go(r, "list secrets", {}) /\ variables = Roles
      BY <1>2, <1>4, <2>4 DEF ReadsBack
    <3> QED
      BY <1>1, <2>1, <3>1
      DEF Advances, Justified, TodoFits, Todos, RunSteps, Pointing, Removing, SecretsGone
  <2> QED
    BY <2>2, <2>3, <2>4
<1>5. CASE ListsSecrets(r) \/ ListsSecretsAgain(r)
  BY <1>1, <1>2, <1>5
  DEF ListsSecrets, ListsSecretsAgain, Advances, Justified, TodoFits, Todos, RunSteps,
      Pointing, Removing, SecretsGone, At, Present
<1>6. CASE GetsUser(r) \/ Confirms(r) \/ Verifies(r)
  BY <1>1, <1>2, <1>6
  DEF GetsUser, Confirms, Verifies, Advances, Justified, TodoFits, Todos, RunSteps,
      Pointing, Removing, SecretsGone, At, Present
<1>7. CASE ListsKeys(r)
  BY <1>1, <1>2, <1>7
  DEF ListsKeys, Advances, Justified, TodoFits, Todos, RunSteps,
      Pointing, Removing, SecretsGone, At, Present
<1> QED
  BY <1>3, <1>4, <1>5, <1>6, <1>7 DEF Looks

(* The calls that change something, and their failures after the effect.   *)
Points(r) ==
  \/ SetsVariable(r)
  \/ At(r, "set variable") /\ FailsAfter(r)

LEMMA PointsAddsRoles ==
  ASSUME BootInv, NEW r \in Runs, Points(r) PROVE OnlyRemoves /\ Advances(r)
<1>1. /\ params = Roles /\ run[r].todo \subseteq Roles
      /\ Roles \ run[r].todo \subseteq variables /\ variables \subseteq Roles
  BY DEF Points, SetsVariable, BootInv, InOrder, Justified, Pointing, At, BootTypeOK
<1>2. PICK role \in run[r].todo : variables' = variables \cup {role}
  BY DEF Points, SetsVariable, FailsAfter, At
<1>3. /\ UNCHANGED <<aws, secrets, init, beside>>
      /\ faults' = faults \/ (faults < MaxFaults /\ faults' = faults + 1)
  BY DEF Points, SetsVariable, FailsAfter, At
<1>4. OnlyRemoves
  BY <1>1, <1>2, <1>3 DEF OnlyRemoves, BootInv, BootTypeOK, Present, aws
<1>5. Go(r, "failed", {}) \/ \E set \in run[r].todo :
        variables' = variables \cup {set} /\ Go(r, "read back", run[r].todo \ {set})
  BY DEF Points, SetsVariable, FailsAfter
<1>6. Advances(r)
  <2>1. CASE Go(r, "failed", {})
    BY <1>3, <2>1
    DEF Advances, Justified, TodoFits, Todos, RunSteps, Pointing, Removing, SecretsGone
  <2>2. ASSUME NEW set \in run[r].todo, variables' = variables \cup {set},
               Go(r, "read back", run[r].todo \ {set})
        PROVE  Advances(r)
    <3>1. Roles \ (run[r].todo \ {set}) \subseteq variables' /\ params' = Roles
      BY <1>1, <1>3, <2>2 DEF aws
    <3>2. run[r].todo \ {set} \in Todos
      BY <1>1 DEF Todos
    <3> QED
      BY <1>1, <1>3, <2>2, <3>1, <3>2
      DEF Advances, Justified, TodoFits, RunSteps, Pointing, Removing, SecretsGone
  <2> QED
    BY <1>5, <2>1, <2>2
<1> QED
  BY <1>4, <1>6

Unsecrets(r) ==
  \/ DeletesSecret(r)
  \/ At(r, "delete secret") /\ FailsAfter(r)

LEMMA UnsecretsRemoves ==
  ASSUME BootInv, NEW r \in Runs, Unsecrets(r) PROVE OnlyRemoves /\ Advances(r)
<1>1. params = Roles /\ variables = Roles /\ run[r].todo \subseteq SecretNames
  BY DEF Unsecrets, DeletesSecret, BootInv, InOrder, Justified, Removing, At, BootTypeOK
<1>2. /\ UNCHANGED <<aws, variables, init, beside>>
      /\ faults' = faults \/ (faults < MaxFaults /\ faults' = faults + 1)
  BY DEF Unsecrets, DeletesSecret, FailsAfter, At
<1>3. secrets' = secrets \/ \E s \in run[r].todo : secrets' = [secrets EXCEPT ![s] = NoKey]
  BY DEF Unsecrets, DeletesSecret, FailsAfter, At
<1>4. secrets' \in [SecretNames -> Keys \cup {NoKey}] /\ Present' \subseteq Present
  BY <1>1, <1>3 DEF BootInv, BootTypeOK, Present
<1>5. OnlyRemoves
  BY <1>1, <1>2, <1>4 DEF OnlyRemoves, BootInv, BootTypeOK, aws
<1>6. \/ Go(r, "failed", {}) \/ Go(r, "list secrets again", {})
      \/ \E s \in run[r].todo :
           run[r].todo # {s} /\ Go(r, "delete secret", run[r].todo \ {s})
  BY DEF Unsecrets, DeletesSecret, FailsAfter
<1>7. Advances(r)
  <2>1. CASE Go(r, "failed", {})
    BY <1>2, <2>1
    DEF Advances, Justified, TodoFits, Todos, RunSteps, Pointing, Removing, SecretsGone
  <2>2. CASE Go(r, "list secrets again", {})
    BY <1>1, <1>2, <2>2
    DEF Advances, Justified, TodoFits, Todos, RunSteps, Pointing, Removing, SecretsGone,
        aws
  <2>3. ASSUME NEW s \in run[r].todo, run[r].todo # {s},
               Go(r, "delete secret", run[r].todo \ {s})
        PROVE  Advances(r)
    <3>1. TodoFits("delete secret", run[r].todo \ {s}) /\ run[r].todo \ {s} \in Todos
      BY <1>1, <2>3 DEF TodoFits, Todos
    <3>2. PICK todo \in Todos : todo = run[r].todo \ {s}
      BY <3>1
    <3>3. Justified("delete secret", todo, r \notin beside)'
      BY <1>1, <1>2 DEF Justified, Pointing, Removing, SecretsGone, aws
    <3> QED
      BY <1>2, <2>3, <3>1, <3>2, <3>3 DEF Advances, RunSteps
  <2> QED
    BY <1>6, <2>1, <2>2, <2>3
<1> QED
  BY <1>5, <1>7

Dismantles(r) ==
  \/ DeletesKey(r) \/ Detaches(r) \/ DeletesUser(r)
  \/ run[r].step \in {"delete key", "detach", "delete user"} /\ FailsAfter(r)

LEMMA DismantlesRemoves ==
  ASSUME BootInv, NEW r \in Runs, Dismantles(r) PROVE OnlyRemoves /\ Advances(r)
<1>1. params = Roles /\ variables = Roles /\ (r \notin beside => Present = {})
  BY DEF Dismantles, DeletesKey, Detaches, DeletesUser, BootInv, InOrder, Justified,
         Removing, SecretsGone, At
<1>2. /\ UNCHANGED <<params, variables, secrets, made, init, beside>>
      /\ faults' = faults \/ (faults < MaxFaults /\ faults' = faults + 1)
  BY DEF Dismantles, DeletesKey, Detaches, DeletesUser, FailsAfter, At, aws
<1>3. \/ keys' \subseteq keys /\ user' = user /\ policy' = policy
      \/ keys' = keys /\ user' = user /\ policy' = FALSE
      \/ keys' = keys /\ user' = FALSE /\ policy' = policy /\ ~policy /\ keys = {}
  BY DEF Dismantles, DeletesKey, Detaches, DeletesUser, FailsAfter, At, aws
<1>4. OnlyRemoves
  <2>1. /\ user \in BOOLEAN /\ policy \in BOOLEAN /\ (~user => ~policy /\ keys = {})
        /\ secrets \in [SecretNames -> Keys \cup {NoKey}]
    BY DEF BootInv, BootTypeOK
  <2>2. keys' \subseteq keys
    BY <1>3
  <2>3. /\ user' \in BOOLEAN /\ (user' => user)
        /\ policy' \in BOOLEAN /\ (policy' => policy)
        /\ (~user' => ~policy' /\ keys' = {})
    <3>1. CASE keys' \subseteq keys /\ user' = user /\ policy' = policy
      BY <2>1, <3>1
    <3>2. CASE keys' = keys /\ user' = user /\ policy' = FALSE
      BY <2>1, <3>2
    <3>3. CASE keys' = keys /\ user' = FALSE /\ policy' = policy /\ ~policy /\ keys = {}
      BY <2>1, <3>3
    <3> QED
      BY <1>3, <3>1, <3>2, <3>3
  <2> QED
    BY <1>1, <1>2, <2>1, <2>2, <2>3 DEF OnlyRemoves, Present, BootInv, BootTypeOK
<1>5. /\ Justified("detach", {}, r \notin beside)'
      /\ Justified("delete user", {}, r \notin beside)'
      /\ Justified("failed", {}, r \notin beside)'
      /\ \A todo : Justified("delete key", todo, r \notin beside)'
  BY <1>1, <1>2 DEF Justified, Pointing, Removing, SecretsGone, Present
<1>6. Go(r, "verify", {}) => Justified("verify", {}, r \notin beside)'
  BY <1>1, <1>2 DEF Justified, Pointing, Removing, SecretsGone, Present
<1>7. /\ {"detach", "delete user", "failed", "delete key", "verify"} \subseteq RunSteps
      /\ {} \in Todos
      /\ \A s \in {"detach", "delete user", "failed", "verify"} : TodoFits(s, {})
  BY DEF RunSteps, Todos, TodoFits
<1>8. \/ \E s \in {"detach", "delete user", "failed", "verify"} : Go(r, s, {})
      \/ At(r, "delete key") /\ \E k \in run[r].todo :
           run[r].todo # {k} /\ Go(r, "delete key", run[r].todo \ {k})
  BY DEF Dismantles, DeletesKey, Detaches, DeletesUser, FailsAfter
<1>9. Advances(r)
  <2>1. CASE \E s \in {"detach", "delete user", "failed", "verify"} : Go(r, s, {})
    BY <1>2, <1>5, <1>6, <1>7, <2>1 DEF Advances
  <2>2. ASSUME At(r, "delete key"), NEW k \in run[r].todo, run[r].todo # {k},
               Go(r, "delete key", run[r].todo \ {k})
        PROVE  Advances(r)
    <3>1. run[r].todo \ {k} \in Todos /\ TodoFits("delete key", run[r].todo \ {k})
      BY <2>2 DEF BootInv, BootTypeOK, TodoFits, Todos, At
    <3>2. PICK todo \in Todos : todo = run[r].todo \ {k}
      BY <3>1
    <3> QED
      BY <1>2, <1>5, <1>7, <2>2, <3>1, <3>2 DEF Advances
  <2> QED
    BY <1>8, <2>1, <2>2
<1> QED
  BY <1>4, <1>9

-----------------------------------------------------------------------------
LEMMA RunStepKeepsInv ==
  ASSUME BootInv, NEW r \in Runs, RunPostBootstrap(r) PROVE BootInv'
<1>1. Looks(r) \/ Points(r) \/ Unsecrets(r) \/ Dismantles(r)
  BY DEF RunPostBootstrap, Call, Looks, Points, Unsecrets, Dismantles, FailsAfter, At
<1>2. OnlyRemoves /\ Advances(r)
  BY <1>1, LooksRemovesNothing, LooksAdvances, PointsAddsRoles, UnsecretsRemoves,
     DismantlesRemoves DEF BootInv
<1> QED
  BY <1>2, RunKeepsInv

LEMMA StutterKeepsInv == ASSUME BootInv, UNCHANGED bootVars PROVE BootInv'
BY DEF bootVars, BootInv, BootTypeOK, RolesAtOnce, InitIsSeen, KeysKept, InOrder, Justified, Present

LEMMA BootInvHolds == BootSpec => []BootInv
<1>1. BootInit => BootInv
  BY BootInvInit
<1>2. BootInv /\ [BootNext]_bootVars => BootInv'
  BY InitKeepsInv, WorkflowKeepsInv, RunStepKeepsInv, StutterKeepsInv DEF BootNext
<1> QED
  BY <1>1, <1>2, PTL DEF BootSpec

(* The IAM user, its policy and keys, the Secrets, the Variables and every *)
(* run of --post-bootstrap keep their types: no user has more keys than    *)
(* IAM allows, and without a user there is neither policy nor key.         *)
THEOREM BootTypeCorrect == BootSpec => []BootTypeOK
<1>1. BootInv => BootTypeOK
  BY DEF BootInv
<1> QED
  BY <1>1, BootInvHolds, PTL

(* However many terminals run --post-bootstrap at once, also beside init,  *)
(* and wherever calls fail or runs are stopped, the repo is never left     *)
(* with neither: once the roles exist, the Variables name them or the      *)
(* credential works, unless an init that was run again has pushed half of  *)
(* a new key (runPostBootstrap, maybeCreateBootstrapIam).                  *)
THEOREM NeverLeftWithNeither == BootSpec => []NeverNeither
<1>1. BootInv => NeverNeither
  BY DEF BootInv, KeysKept, NeverNeither, CredentialIntact, CredentialWorks, HalfPushed,
         Present, SecretNames
<1> QED
  BY <1>1, BootInvHolds, PTL

(* However many terminals run it at once, and whatever failed before, a    *)
(* --post-bootstrap that ends with exit code 0 leaves both Variables set,  *)
(* and unless an init has run since it started, no Secret, no IAM user, no *)
(* policy and no key (runPostBootstrap).                                   *)
THEOREM ExitZeroIsClean == BootSpec => []ExitZeroMeansGone
<1>1. BootInv => ExitZeroMeansGone
  BY DEF BootInv, BootTypeOK, InOrder, Justified, ExitZeroMeansGone, Removing, SecretsGone, At
<1> QED
  BY <1>1, BootInvHolds, PTL
=============================================================================
