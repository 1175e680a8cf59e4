---------------------------- MODULE PostBootstrap ---------------------------
(***************************************************************************)
(* The bootstrap credentials of a fork, from their creation to their end   *)
(* (scripts/init-clone.ts): `npm run init` creates an IAM user and pushes  *)
(* its access key as repo Secrets (maybeCreateBootstrapIam), the workflow  *)
(* bootstrap-aws.yml uses them to create the OIDC roles, and               *)
(* `npm run init -- --post-bootstrap` (runPostBootstrap) points the repo   *)
(* at the roles and removes the credentials.  Each gh or aws call is a     *)
(* step; it can fail, also when it did its work, and a run can be stopped  *)
(* anywhere.  Every `npm run init` offers to create the user, also beside  *)
(* a --post-bootstrap and after one; as a bound, one init runs at a time.  *)
(***************************************************************************)
EXTENDS FiniteSets, Naturals

CONSTANTS
  Runs,        \* the terminals in which --post-bootstrap is run
  Keys,        \* the access keys that are ever created
  MaxFaults,   \* bound on failing calls and stopped runs
  NoKey        \* not a key

ASSUME BootAssumption == MaxFaults \in Nat /\ NoKey \notin Keys

Roles == {"deployer", "podOps"}
SecretNames == {"id", "secret"}
KeyLimit == 2  \* access keys per IAM user

VARIABLES
  params,    \* the role ARNs in SSM
  variables, \* the role ARN Variables of the repo
  secrets,   \* the key of which each repo Secret is a part, or NoKey
  user,      \* whether the IAM user exists
  policy,    \* whether AdministratorAccess is attached to it
  keys,      \* its access keys
  made,      \* every key created so far
  init,      \* maybeCreateBootstrapIam: its next call, and its key
  run,       \* runPostBootstrap: its next call, and what is left of a loop
  beside,    \* the runs with an init beside or after them (history)
  faults     \* calls that failed so far

aws == <<params, user, policy, keys, made>>
bootVars ==
  <<params, variables, secrets, user, policy, keys, made, init, run, beside, faults>>

RunSteps ==
  {"none", "read params", "set variable", "read back", "list secrets",
   "delete secret", "list secrets again", "get user", "confirm", "list keys",
   "delete key", "detach", "delete user", "verify", "failed", "kept", "done"}

BootTypeOK ==
  /\ params \subseteq Roles /\ variables \subseteq Roles
  /\ secrets \in [SecretNames -> Keys \cup {NoKey}]
  /\ user \in BOOLEAN /\ policy \in BOOLEAN
  /\ made \subseteq Keys /\ keys \subseteq made /\ Cardinality(keys) <= KeyLimit
  /\ ~user => ~policy /\ keys = {}
  /\ init \in [step : {"none", "attach", "create key", "push id", "push secret"},
               key : Keys \cup {NoKey}]
  /\ run \in [Runs -> [step : RunSteps, todo : SUBSET (Roles \cup SecretNames \cup Keys)]]
  /\ \A r \in Runs : LET at == run[r].step todo == run[r].todo IN
       /\ at = "set variable" => todo # {} /\ todo \subseteq Roles
       /\ at = "delete secret" => todo # {} /\ todo \subseteq SecretNames
       /\ at = "delete key" => todo # {} /\ todo \subseteq Keys
  /\ beside \subseteq Runs /\ faults \in 0 .. MaxFaults

NoRun == [step |-> "none", todo |-> {}]
NoInit == [step |-> "none", key |-> NoKey]

BootInit ==
  /\ params = {} /\ variables = {} /\ secrets = [s \in SecretNames |-> NoKey]
  /\ user = FALSE /\ policy = FALSE /\ keys = {} /\ made = {}
  /\ init = NoInit /\ run = [r \in Runs |-> NoRun]
  /\ beside = {} /\ faults = 0

-----------------------------------------------------------------------------
(* maybeCreateBootstrapIam.  tryRun drops the errors of the first two      *)
(* calls, also that the user exists; without a key the step is over; a     *)
(* secret that is not pushed ends it too.                                  *)

InitCreatesUser ==
  /\ init = NoInit
  /\ user' = TRUE
  /\ init' = [step |-> "attach", key |-> NoKey]
  /\ beside' = Runs
  /\ UNCHANGED <<params, variables, secrets, policy, keys, made, run, faults>>

InitAttachesPolicy ==
  /\ init.step = "attach"
  /\ policy' = user
  /\ init' = [init EXCEPT !.step = "create key"]
  /\ UNCHANGED <<params, variables, secrets, user, keys, made, run, beside, faults>>

InitDropsError ==
  /\ init.step = "attach" /\ faults < MaxFaults
  /\ init' = [init EXCEPT !.step = "create key"]
  /\ faults' = faults + 1
  /\ UNCHANGED <<aws, variables, secrets, run, beside>>

InitCreatesKey ==
  /\ init.step = "create key"
  /\ IF user /\ Cardinality(keys) < KeyLimit
     THEN \E k \in Keys \ made :
            /\ keys' = keys \cup {k} /\ made' = made \cup {k}
            /\ init' = [step |-> "push id", key |-> k]
     ELSE init' = NoInit /\ UNCHANGED <<keys, made>>
  /\ UNCHANGED <<params, variables, secrets, user, policy, run, beside, faults>>

InitPushes(step, name, next) ==
  /\ init.step = step
  /\ secrets' = [secrets EXCEPT ![name] = init.key]
  /\ init' = next
  /\ UNCHANGED <<aws, variables, run, beside, faults>>
InitPushesId == InitPushes("push id", "id", [init EXCEPT !.step = "push secret"])
InitPushesSecret == InitPushes("push secret", "secret", NoInit)

(* A call fails, or the user stops the run.                                *)
InitFails ==
  /\ init # NoInit /\ faults < MaxFaults
  /\ faults' = faults + 1
  /\ init' = NoInit
  /\ UNCHANGED <<aws, variables, secrets, run, beside>>

MaybeCreateBootstrapIam ==
  InitCreatesUser \/ InitAttachesPolicy \/ InitDropsError \/ InitCreatesKey
    \/ InitPushesId \/ InitPushesSecret \/ InitFails

(* bootstrap-aws.yml deploys BootstrapStack, which writes the role ARNs to *)
(* SSM, if its Secrets are a key of the user's.                            *)
CredentialWorks ==
  /\ secrets["id"] # NoKey /\ secrets["id"] = secrets["secret"]
  /\ secrets["id"] \in keys /\ policy
BootstrapWorkflow ==
  /\ CredentialWorks
  /\ params' = Roles
  /\ UNCHANGED <<variables, secrets, user, policy, keys, made, init, run, beside, faults>>

-----------------------------------------------------------------------------
(* runPostBootstrap, a call at a time.                                     *)

Go(r, step, todo) == run' = [run EXCEPT ![r] = [step |-> step, todo |-> todo]]
At(r, step) == run[r].step = step
RunIdle(r)  == run[r].step \in {"none", "failed", "kept", "done"}

Starts(r) ==
  /\ RunIdle(r)
  /\ Go(r, "read params", {})
  /\ beside' = IF init = NoInit THEN beside \ {r} ELSE beside \cup {r}
  /\ UNCHANGED <<aws, variables, secrets, init, faults>>

(* Mutant: the secrets go first.                                           *)
ReadsParamsSecretsFirst(r) ==
  /\ At(r, "read params")
  /\ IF params = Roles THEN Go(r, "list secrets", {}) ELSE Go(r, "failed", {})
  /\ UNCHANGED <<aws, variables, secrets, init, beside, faults>>

ReadsParams(r) ==
  /\ At(r, "read params")
  /\ IF params = Roles THEN Go(r, "set variable", Roles) ELSE Go(r, "failed", {})
  /\ UNCHANGED <<aws, variables, secrets, init, beside, faults>>

SetsVariable(r) ==
  /\ At(r, "set variable")
  /\ \E role \in run[r].todo :
       /\ "deployer" \in run[r].todo => role = "deployer"
       /\ variables' = variables \cup {role}
       /\ Go(r, "read back", run[r].todo \ {role})
  /\ UNCHANGED <<aws, secrets, init, beside, faults>>

ReadsBack(r) ==
  /\ At(r, "read back")
  /\ LET set == Roles \ run[r].todo IN
     IF ~(set \subseteq variables) THEN Go(r, "failed", {})
     ELSE IF run[r].todo # {} THEN Go(r, "set variable", run[r].todo)
     ELSE Go(r, "list secrets", {})
  /\ UNCHANGED <<aws, variables, secrets, init, beside, faults>>

Present == {s \in SecretNames : secrets[s] # NoKey}

ListsSecrets(r) ==
  /\ At(r, "list secrets")
  /\ IF Present = {} THEN Go(r, "get user", {}) ELSE Go(r, "delete secret", Present)
  /\ UNCHANGED <<aws, variables, secrets, init, beside, faults>>

(* gh secret delete fails for a secret that is gone.                       *)
DeletesSecret(r) ==
  /\ At(r, "delete secret")
  /\ \E s \in run[r].todo :
       /\ "id" \in run[r].todo => s = "id"
       /\ IF s \notin Present THEN Go(r, "failed", {}) /\ UNCHANGED secrets
          ELSE /\ secrets' = [secrets EXCEPT ![s] = NoKey]
               /\ IF run[r].todo = {s} THEN Go(r, "list secrets again", {})
                  ELSE Go(r, "delete secret", run[r].todo \ {s})
  /\ UNCHANGED <<aws, variables, init, beside, faults>>

ListsSecretsAgain(r) ==
  /\ At(r, "list secrets again")
  /\ IF Present = {} THEN Go(r, "get user", {}) ELSE Go(r, "failed", {})
  /\ UNCHANGED <<aws, variables, secrets, init, beside, faults>>

(* Mutant: every error of get-user is taken for NoSuchEntity.              *)
GetsUserAnyError(r) ==
  /\ At(r, "get user")
  /\ Go(r, IF user THEN "confirm" ELSE "done", {}) \/ Go(r, "done", {})
  /\ UNCHANGED <<aws, variables, secrets, init, beside, faults>>

GetsUser(r) ==
  /\ At(r, "get user")
  /\ Go(r, IF user THEN "confirm" ELSE "done", {})
  /\ UNCHANGED <<aws, variables, secrets, init, beside, faults>>

(* --yes, or the answer to the prompt.                                     *)
Confirms(r) ==
  /\ At(r, "confirm")
  /\ Go(r, "list keys", {}) \/ Go(r, "kept", {})
  /\ UNCHANGED <<aws, variables, secrets, init, beside, faults>>

ListsKeys(r) ==
  /\ At(r, "list keys")
  /\ IF ~user THEN Go(r, "failed", {})
     ELSE IF keys = {} THEN Go(r, "detach", {}) ELSE Go(r, "delete key", keys)
  /\ UNCHANGED <<aws, variables, secrets, init, beside, faults>>

(* From here on NoSuchEntity counts as done.                               *)
DeletesKey(r) ==
  /\ At(r, "delete key")
  /\ \E k \in run[r].todo :
       /\ keys' = keys \ {k}
       /\ IF run[r].todo = {k} THEN Go(r, "detach", {})
          ELSE Go(r, "delete key", run[r].todo \ {k})
  /\ UNCHANGED <<params, variables, secrets, user, policy, made, init, beside, faults>>

Detaches(r) ==
  /\ At(r, "detach")
  /\ policy' = FALSE
  /\ Go(r, "delete user", {})
  /\ UNCHANGED <<params, variables, secrets, user, keys, made, init, beside, faults>>

(* AWS refuses to delete a user that has a key or a policy.                *)
DeletesUser(r) ==
  /\ At(r, "delete user")
  /\ IF policy \/ keys # {} THEN Go(r, "failed", {}) /\ UNCHANGED user
     ELSE user' = FALSE /\ Go(r, "verify", {})
  /\ UNCHANGED <<params, variables, secrets, policy, keys, made, init, beside, faults>>

Verifies(r) ==
  /\ At(r, "verify")
  /\ Go(r, IF user THEN "failed" ELSE "done", {})
  /\ UNCHANGED <<aws, variables, secrets, init, beside, faults>>

Call(r) ==
  \/ ReadsParams(r) \/ SetsVariable(r) \/ ReadsBack(r) \/ ListsSecrets(r)
  \/ DeletesSecret(r) \/ ListsSecretsAgain(r) \/ GetsUser(r) \/ ListsKeys(r)
  \/ DeletesKey(r) \/ Detaches(r) \/ DeletesUser(r) \/ Verifies(r)

(* A call fails before or after its effect, or the run is stopped.         *)
FailsBefore(r) ==
  /\ ~RunIdle(r) /\ faults < MaxFaults
  /\ faults' = faults + 1
  /\ Go(r, "failed", {})
  /\ UNCHANGED <<aws, variables, secrets, init, beside>>
FailsAfter(r) ==
  /\ faults < MaxFaults
  /\ \/ At(r, "set variable") /\ UNCHANGED <<secrets, aws>>
        /\ \E role \in run[r].todo :
             /\ "deployer" \in run[r].todo => role = "deployer"
             /\ variables' = variables \cup {role}
     \/ At(r, "delete secret") /\ UNCHANGED <<variables, aws>>
        /\ \E s \in run[r].todo :
             /\ "id" \in run[r].todo => s = "id"
             /\ secrets' = [secrets EXCEPT ![s] = NoKey]
     \/ At(r, "delete key") /\ UNCHANGED <<variables, secrets, params, user, policy, made>>
        /\ \E k \in run[r].todo : keys' = keys \ {k}
     \/ At(r, "detach") /\ UNCHANGED <<variables, secrets, params, user, keys, made>>
        /\ policy' = FALSE
     \/ At(r, "delete user") /\ UNCHANGED <<variables, secrets, params, policy, keys, made>>
        /\ ~policy /\ keys = {} /\ user' = FALSE
  /\ faults' = faults + 1
  /\ Go(r, "failed", {})
  /\ UNCHANGED <<init, beside>>

RunPostBootstrap(r) ==
  Starts(r) \/ Call(r) \/ Confirms(r) \/ FailsBefore(r) \/ FailsAfter(r)

BootNext ==
  MaybeCreateBootstrapIam \/ BootstrapWorkflow \/ \E r \in Runs : RunPostBootstrap(r)
BootSpec == BootInit /\ [][BootNext]_bootVars

-----------------------------------------------------------------------------

CredentialIntact == CredentialWorks /\ user

(* init pushes the two parts of a key one after the other: where the       *)
(* second push fails or is still to come, they are parts of two keys.      *)
HalfPushed == Present = SecretNames /\ secrets["id"] # secrets["secret"]

(* "The repo is never left with neither": once the bootstrap workflow has  *)
(* run, either its credential works or the workflows have their roles,     *)
(* also while and after a --post-bootstrap run fails half-way.  What can   *)
(* come between is an init that is run again before the roles are set: it  *)
(* may replace one Secret and not the other (HalfPushed).  Nothing else    *)
(* does.                                                                   *)
NeverNeither ==
  params = Roles => variables = Roles \/ CredentialIntact \/ HalfPushed

(* When a run ends with exit code 0, the workflows use OIDC, and if no     *)
(* init has run since it started, the bootstrap credentials are gone.  An  *)
(* init beside it or after it may have made new ones.                      *)
ExitZeroMeansGone ==
  \A r \in Runs : At(r, "done") =>
    /\ variables = Roles /\ params = Roles
    /\ r \notin beside => Present = {} /\ ~user /\ ~policy /\ keys = {}
=============================================================================
