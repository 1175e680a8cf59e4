# Verification of cloud-dev-pods

cloud-dev-pods runs VS Code pods on a user's own AWS account. GitHub Actions
workflows invoke one Lambda, the pod-manager, which is the only writer of ECS,
ALB, EFS and the pod registry; a second Lambda, the idle reaper, stops pods
nobody uses; scripts in the user's clone set the fork up and keep it in step
with upstream. This directory holds TLA+ models of that program, the TLC runs
that check them on small instances and theorems TLAPS proves for every
instance. `PROJECT.json` maps every definition to the lines it models.

## Inventory

| Component | State it keeps | Operations | What must hold | Module |
| --- | --- | --- | --- | --- |
| pod-manager `up`/`down` (`infra/lambda/pod-manager/actions.ts`, `aws.ts`) | registry row per pod; EFS access points; target groups, rules, targets; ECS tasks; the locals of each invocation | `podUp` with rollback, `podDown` | failed pod-ups leave nothing; workspaces survive; a pod gets its own workspace, uid and owner; nothing is orphaned | `PodLifecycle` |
| listener rules (`priority.ts`, `createListenerRule`) and registered addresses | ALB rules, target groups, targets | hash, probe, register, deregister | a host leads to its own task; the retry is not wasted | `PodRoutes` |
| sign-in guard, owner authorization, sidecar (`auth-guard.ts`, `owner-authz.ts`, `entra-id.ts`, `oauth2-proxy.ts`) and the auth part of the schema | deployed config, the sidecar of each pod | deploy, `podUp`'s checks, the sidecar it builds | no pod open to all; `ownerOnly` admits the owner only, and admits the owner | `BrowserAuth` |
| idle reaper (`infra/lambda/idle-reaper/handler.ts`) | `idleSince` on the row; the locals of a scan | scheduled scan, ECS STOPPED handler; both invoke `down` by name | two-phase stop; every useless pod is stopped; no workspace is lost | `IdleReaper` |
| teardown (`cluster-down.yml`, `cluster-up.yml`, `pod-up.yml`, `pod-down.yml`, `teardown-lock`, `cluster-drain.ts`, `cluster-workspace-guard.ts`) | workflow runs, stacks, file system | refuse / wait interlock, guard, drain, destroy | no pod meets cdk destroy; no workspace is deleted unagreed; no deadlock | `Teardown` |
| tunnel container (`runtime/vscode-tunnel/entrypoint.sh`), cap warning, log poller (`scripts/tunnel-poll-logs.ts`) | child process, trap, log stream | login, tunnel, TERM, poll | ends before ECS kills it; frees its slot; shows its own code | `TunnelPod` |
| clone initialisation (`scripts/init-clone.ts`) | config, `.envrc`, stub, state file, Variables | prompts, `--non-interactive` | what it writes loads and restricts as answered; edits are not overwritten | `InitClone` |
| bootstrap credentials (`init-clone.ts`) | IAM user, keys, repo Secrets and Variables | `maybeCreateBootstrapIam`, `--post-bootstrap` | the repo is never without a way in; exit 0 means gone, unless init runs beside it | `PostBootstrap` |
| upstream sync (`scripts/sync-upstream.ts`, `sync-upstream.yml`) | state file, checkout, pull request | diff, classify, merge, open a PR | the user's edits survive; untouched files follow; it catches up where it has a baseline | `SyncUpstream` |
| stack names, CDK stacks, browser container, maintainer scripts, CI | files | pure or one-shot | see "Not modelled" | none |

How they interact: workflows, `pod-cli` and the reaper call the pod-manager by
synchronous Lambda invocation; everything else is shared AWS state. There is no
lock inside AWS. Lambda runs invocations concurrently, no workflow serialises
runs per pod, and the reaper starts `down` on its own, so any two invocations
can interleave between two awaits. The registry put is conditional
(`attribute_not_exists`), the delete and the reaper's update are not. The only
lock is the one between workflows (`teardown-lock`), and it is a check of run
lists. The hard behaviours are those interleavings, an AWS call failing at any
await, a Lambda that dies half-way, tasks that stop by themselves, events that
arrive before the row they are about, and values that are read before they are
used. `PROJECT.json` lists each as a hazard at its line.

## What is modelled

### PodLifecycle

The `up` and `down` handlers and the AWS services they use. `Call` is the set of
invocations; each runs once. `pc[c]` names the next await of invocation `c` (or
its answer), and one action is that AWS call with the code up to the next
await, so TLC interleaves invocations exactly where JavaScript can.

| State | In the code |
| --- | --- |
| `registry` | DynamoDB rows, `PodRecord` |
| `accessPoints`, `apTags` | EFS access points; `Pod` and `Owner` tags, uid, creation order |
| `targetGroups`, `targets`, `rules` | ALB |
| `tasks` | ECS task status |
| `uid`, `accessPointId`, `targetGroupArn`, `held` | locals of `podUp`; `held` is `createdNewAp`, `ruleArn`, `taskArn`, `taskState.privateIp` |
| `stale` | `older` in `findExistingAccessPoint` |
| `entry` | `entry` in `podDown` |

An invocation creates at most one resource of each kind, so a resource carries
the name of its creator; this stands for ARNs, which AWS never reuses. The
actions `Up...` follow `podUp` line by line, `Undo...` its catch block, `Down...`
`podDown`. `UpFails` and `DownFails` let an AWS call throw where it stands;
`UpWaitForTask` may find a running task for which ECS gives no private address,
and then, as the code does, goes on to the row without registering a target;
teardown calls that swallow their errors may instead have no effect;
`LambdaDies` stops an invocation anywhere. Early returns that depend on the
event and configuration only are one outcome, "refused"; `BrowserAuth` models
those of them that concern sign-in.

Constants: `Overlap` says which invocations on one pod may be in flight together
("none", several pod-ups, or any), `Faults` which failures happen. They are
assumptions about users and AWS, not about the code, and each run names its own.

External services are modelled from their use in `src/`: ELB's
`CreateTargetGroup` answers with an existing group of the same name, refuses to
delete a group a rule forwards to, and refuses a rule or target for a group
that is gone; a task starts when its access point exists.

Abstractions: an access point is listed as soon as it is created (EFS reports
"creating" for some seconds, and `findExistingAccessPoint` skips it); a DynamoDB
scan is one step; image tags, URLs, timestamps and the contents of the task
definition are left out; a create call whose answer is lost after it took
effect is modelled for the registry put only ("lost").

### PodStates and PodRefinement

`PodStates` is what the pod-manager promises of a pod: the states of
`docs/diagrams/pod-lifecycle/pod-state-machine.md` that `up` and `down` produce
(the reaper's "idle-warned" is not one), the pod's workspace and the set of
workspaces ever made. Starting is split into creating and resuming, because
their rollbacks end differently, and stopping into stopping and releasing,
because only the second may take the workspace.

The code stores no status. `PodRefinement` derives it as the diagram's page
says: `PhaseOf` from the row, the row's task and the invocation in flight,
`WorkspaceOf` from the access points tagged with the pod's name. It states that
`PodLifecycle` implements `PodStates` under this mapping, in which all the AWS
calls between two states are stuttering steps. The claim is for invocations on a
pod that do not overlap, teardown calls that succeed and invocations that are
not killed; without these assumptions it is false, which is what the run
`pod_reused_deleted` and the hazards list are about.

### IdleReaper

Extends `PodLifecycle`: the reaper reads and writes the same registry and its
pod-downs are invocations of the same handler (`ReaperCalls`, whose names serve
again once answered, because a pod-down creates nothing). `Overlap` restrains
users only; the reaper overlaps anything.

| State | In the code |
| --- | --- |
| `scan` | `runIdleScan`: the next await, the rows as `listPods` returned them, the pods not yet looked at |
| `stopEvent[t]` | `handleTaskStateChange` for task t: before `listPods`, the pod it found, done |
| `aged`, `quiet` | a row older than `idleMinutes`; a target group whose RequestCount sum is 0 over the window |
| `warned`, `throws` | history only: the warnings sent, the reaper's calls that failed |

`ScanReadsMetric`, `ScanClears`, `ScanMarks`, `ScanNotifies`, `ScanInvokesDown`
and `ScanGetsAnswer` are one turn of the loop, an await each; `ScanFails` ends
the whole scan, as an exception does in the code. A scan is started every five
minutes and Lambda ends it after two, so there is one at a time. An event is
delivered at any moment after its task stopped, before or after the row is
written, and once.

`UselessPodIsReaped` is about pods whose task is registered at the target group:
for a pod without an address `RequestCount` has no data points, a scan takes that
for activity, and only the STOPPED event of its task still ends it.

### Teardown

A run is a workflow run at GitHub: `kind`, `status`, `input`, and `at`, the step
it is in. `ActiveRuns` is `gh run list` with its limit; `PodRefuses` is the half
of `teardown-lock` in the pod workflows, `WaitForPodUps` and `WaitForPodDowns`
the half in `cluster-down.yml`. The three `Guard...` actions are
`guardWorkspaces` read by read, with every refusal; `Drain...` is
`drainForClusterDown`; `Destroy...` are the two `cdk destroy` steps and the file
system between them. The pod-manager is `PodLifecycle` in brief, as an
invocation that outlives the run that made it. `ReaperDowns` and `LocalUp` act
outside the lock. `ListsNone` is what the wait concludes from a list: also one
that failed has no runs on it, because the shell does not see a failure inside
`echo $(...)`. `faults` is drawn from `FaultSets` at the start.

### BrowserAuth

`Resolved` and `Accepted` are the schema's refinements and its treatment of the
deprecated keys, `Restricted` the guard, `OwnerValid` the owner check,
`BuildBrowserAuthTaskParts` the sidecar's settings, and `CanOpen` what
oauth2-proxy makes of them according to the comments of `owner-authz.ts` and
`oauth2-proxy.ts` (external: checks at sign-in against checks on every request,
and a session made on one pod opening another that shares its cookie key).
Names are abstract: blank, a wildcard, or one user, group, domain, tenant. One
config is deployed per behaviour: that a later one leaves the running pods as
they are (`docs/operating.md:51`) is left out.

### TunnelPod

`up` is the step of each task's pod-up and pod-down as far as the cap and the
container see them, `box` the container: the phase of the entrypoint, whether
the CLI runs, whether TERM arrived, the seconds since, and the seconds the
current grace period has left. `slots` are the tunnels the account has
registered (external), `prompts` the log streams with a device code, `poll` the
poller. `Tick` is a second after TERM; `EcsKills` is ECS's stopTimeout. A stored
login, with which the entrypoint prints no code (`entrypoint.sh:121`), is left
out: every task prints one.

### PodRoutes

The way from a host to a task: `priority` and `attempt` are the locals of
`createListenerRule`, `rules`, `groups` and `targets` what ELB holds, `addr` the
address of a task, which a later task may get again, `live` the running tasks,
`told` (history) the pods whose task podUp had an address for. A task may end at any
time by itself (`TaskEnds`), and its address is free at once. Calls for one pod
are serial here. What may go wrong is drawn from `FaultSets` at the start: calls
that only log (`"rule"`, `"group"`, `"deregister"`), calls that make `podUp` roll
back (`"task"`, `"put"`), ECS giving no address to `podUp` or `podDown`
(`"address"`), and calls that end a `podDown` half-way (`"down"`), after which the
row is still there and a later `podDown` goes over it again.

### InitClone, PostBootstrap, SyncUpstream

`InitClone`: each `Asks...` action is a screen of `prompt`, each `Writes...` one
of the files the command then writes; `RunNonInteractive` is the flags mode.
`Trimmed` is a typed value without the blanks around it: the flags are trimmed
(`ParseInitFlags`), the prompts keep them, and YAML drops them from the scalars that
are not quoted (`Plain`). `Loads` reads the config back with YAML's typing of
those scalars and `BrowserAuth`'s schema. `answers` (history) keeps what was
answered for the config that stands, so that `RestrictedAsAnswered` compares the file
with the answers and not with itself.

`PostBootstrap`: one action per `gh` or `aws` call of `runPostBootstrap` and
`maybeCreateBootstrapIam`; a call may fail before or after its effect. Every
interactive init offers to make the bootstrap user, so `InitCreatesUser` may happen
beside and after the runs of `--post-bootstrap`; one init runs at a time. `beside`
(history) names the runs since whose start an init has run.

`SyncUpstream`: a fork shares upstream's history (`related`) or was made from the
template and does not; the state file that init writes (`written`) is on main only
once the user commits it (`CommitsState`), which the printed `git add` does not
ask for. Without either the script has no baseline and stops. A commit is a number
and a tree, a file is the upstream version it comes from and whether the user
edited it; `Sync` is the whole script as one step (it works on a checkout nobody
else touches) up to the pull request, of which there is one per commit of
upstream, since its branch is named after that; `MergePr` is what git does with it
later, against a `head` that has moved. A rename is one of the whole content;
those git finds by similarity, and a shifted status that happens to begin with D,
are left out, and so is every rename from `UntouchedFilesFollow` and
`SyncCatchesUp`.

### Proof modules

`PodLifecycleProofs`, `TeardownProofs`, `PodRoutesProofs`, `BrowserAuthProofs`,
`TunnelPodProofs`, `InitCloneProofs`, `PostBootstrapProofs` and
`SyncUpstreamProofs` hold the theorems about the module each is named after;
`PodLifecycleProofs` also has those about `PodRefinement` and `IdleReaper`, whose
proofs use its invariants, and states four properties that no run checks. See "Proofs".

## Runs

In every run the actors are finite in number and the system may come to rest,
so `CHECK_DEADLOCK` is off.

| Run | Instance | Checks |
| --- | --- | --- |
| `pod_owners` | 3 calls, 2 pods, 2 owners, one uid, any overlap, central auth host on | `TypeOK`, `WorkspaceIsThePods`, `WorkspaceOwnerBinding` |
| `pod_serial` | 3 calls, 1 browser pod, no overlap; create, delete, die and stop faults; an address or none | `RegisteredPodIsIntact`, `OneWorkspacePerPod`, `AdoptedWorkspaceIsKept` |
| `pod_ups_overlap` | 3 calls, 1 pod, browser and tunnel, pod-ups overlap; create and lost faults | `NoOrphans`, `FailedUpLeavesNothing` |
| `pod_states` | 3 calls, 2 browser pods, no overlap on one pod; create and stop faults | `ImplementsPodStates` |
| `pod_answers` | 2 calls, any overlap, fair | `EveryInvocationAnswers` |
| `reaper` | 2 user calls, 1 reaper call that recurs, 1 browser pod, tasks that stop, 1 failing reaper call, fair | `ReaperTypeOK`, `ReapedPodWasWarned`, `WorkspaceSurvivesReaper`, `UselessPodIsReaped` |
| `teardown` | 3 runs of any workflow, 1 pod, fault sets below, fair | `TypeOK`, `DestroyMeetsNoPod`, `WorkspacesLostOnlyIfAgreed`, `EveryRunCompletes` |
| `pods` | `BrowserAuth` with 3 users and 2 pods; three instances of `TunnelPod`; `PodRoutes` with two fault sets | `PodsTypeOK`, `NoPodIsOpenToAll`, `OwnerOnlyIsOwnerOnly`, `OwnerCanSignIn`, `AcceptedConfigNeverThrows`, `StopsBeforeKill`, `PodDownFreesSlot`, `UnwarnedFitTheCap`, `CodeIsTheTasks`, `RoutedToOwnTask`, `GivesUpAfterFive` |
| `clone` | `InitClone` with one terminal and the flags mode; `PostBootstrap` with two runs, 2 keys, 3 faults; three instances of `SyncUpstream` | `CloneTypeOK`, `WrittenConfigLoads`, `RestrictedAsAnswered`, `ModesAgree`, `EditsAreNotOverwritten`, `NeverNeither`, `ExitZeroMeansGone`, `UntouchedFilesFollow`, `ModifiedFilesAreKept`, `EditsSurviveSync`, `SyncCatchesUp` |
| `pod_reused_deleted` | 2 calls, any overlap, no fault | violated: `ReusedWorkspaceIsNeverDeleted` |
| `pod_uid_shared` | 2 calls, 2 pods | violated: `UidIsUniquePerPod` |
| `reaper_lost_event` | 1 pod-up of a tunnel pod, its task stops, fair | violated: `StoppedPodIsCleaned` |

`pods` and `clone` each check several modules that share no variable. `MCPods`
extends `BrowserAuth` and `PodRoutes`, `MCClone` extends `InitClone` and
`PostBootstrap`, so the runs check the definitions of those modules themselves
and evaluate their assumptions; `TunnelPod` and `SyncUpstream`, of which several
instances are wanted, are instantiated. A variable (`part`, `script`) is chosen
at the start and says which of them a behaviour is about; the others stay as
they start, those that are instantiated at `None`. Nothing is lost: the
interleaving of systems without common state has no reachable component state
that each alone lacks, and a property here is about one of them.

Bounds. Three invocations of one pod are an up, a down and an up again, or two
racing pod-ups and a third that meets what they left: each property relates at
most two lives of a pod, and each fault may strike at every step of each.
`pod_owners` has one uid for two pods on purpose: the second allocation fails and
reuse is the only way to a uid. Two pods suffice there because invocations on
different pods meet only in the uid range and the list of access points;
`pod_states` has two pods with the same bound because it also says that a call for
one pod leaves the other's state alone. `reaper` has two user calls, so a pod can
be taken down and brought up, or be raced by the reaper's pod-down, which can
recur without end. `teardown` has three runs: one of each half of the lock and a
third that queues behind, precedes or undoes them (a `cluster-up` between two
`cluster-down` runs, or two pod runs against one `cluster-down`). Its fault sets
are failing calls, cancelled runs, a `pod-cli` and failing lists, one kind at a
time. `BrowserAuth` has every combination of the keys a provider reads; the timing
of `TunnelPod` is the code's (30 s, 5 s, 22 s); the `PodRoutes` pods start at the
last priority of the range, so the wrap and the collision both happen. `InitClone`
has a login and an owner of digits, a padded owner, a zone whose ID the validator
refuses, and a login that is in the organization but not named. `PostBootstrap`
has as many faults as it takes to fail once in each of two runs and in a rerun,
and two keys, so that a second init can replace one Secret and not the other.
`SyncUpstream` has a file of each class, one that two lists match and one that
none does, and two commits of each side, so that a pull request is open while
upstream or the user moves on; the instance "weekly" is for liveness, with two
files, and init, and forks with and without upstream's history. `Symmetry`
permutes actors the specification treats alike; runs with liveness properties do
without it.

What holds under which overlap is the result of these runs. The workspace
bindings hold for any overlap. `NoOrphans` needs that no pod-down overlaps
another invocation on the pod: a slow pod-down deletes a later row by name.
`RegisteredPodIsIntact` and `AdoptedWorkspaceIsKept` need invocations on a pod
one after the other, since a losing pod-up's rollback removes the target group
and possibly the access point it shares with the winner; `pod_reused_deleted`
is that case. `WorkspaceSurvivesReaper` holds beside the reaper's overlapping
pod-downs. `DestroyMeetsNoPod` and `WorkspacesLostOnlyIfAgreed` hold as long as the lock is
kept (`Locked`): no workflow run is cancelled, nobody uses `pod-cli`, and no
`gh run list` of the wait fails.

### Fairness

- `PodLifecycle`: weak fairness of each invocation's own steps; Lambda runs an
  invocation until it answers. Nothing is assumed of tasks or users, nor that a
  call ever throws or an invocation dies. That every invocation answers then
  rests on the 180-second deadline of `waitForTaskRunning`.
- `IdleReaper`: some invocation that can step does (each is finite but for the
  reaper's, whose reuse waits for its answer); EventBridge starts scans and
  delivers events (strong, since a handler waits for a free name); rows age;
  and a target group that no task serves goes quiet. Nothing is assumed of a
  served one, of users or of failures.
- `Teardown`: strong fairness of each run's steps: a runner picks up a queued
  run, and the lock's loop looks again until it times out. Strong, because
  other runs may disable a step (the concurrency group, the lock). The lock's
  30-minute deadline is an action without fairness, so `EveryRunCompletes` does
  not rest on it.
- `SyncUpstream`: the cron of `sync-upstream.yml` is weak fairness of `Sync`; the
  user merges the pull request of the newest upstream when it is mergeable again
  and again. Without a user who does, nothing catches up, and the script does not
  claim it. Nothing makes the user commit the state file that init wrote:
  `SyncCatchesUp` is about a fork from the moment it has a baseline.
- The invocations of `BrowserAuth`, `PodRoutes`, `TunnelPod`, `InitClone` and
  `PostBootstrap` are checked for safety only.

### Disagreements with the documentation

Each has a run that TLC finds violated.

- `pod_reused_deleted`: pod-up A creates the access point, pod-up B finds and
  reuses it, A loses the registry put and its rollback deletes it.
  `docs/diagrams/pod-lifecycle/pod-up-sequence.md:34`: "A reused workspace is
  never deleted."
- `pod_uid_shared`: two pod-ups of different pods read the registry before
  either has put its row and take the same uid. ADR 0004: "owner UID = unique
  per pod".
- `reaper_lost_event`: the task of a tunnel pod stops before `registryPut`. The
  STOPPED event finds no row and is dropped; the row is written afterwards and
  stays. `handler.ts:4-6`: "if a pod's task stops for any reason [...] invoke
  pod-manager `down` to clean up". For a browser pod a scan makes up for it,
  which `UselessPodIsReaped` shows.

### Known limits of the code

Seen while modelling. Where a property excludes one of these, its comment names
the exclusion.

| Where | What happens |
| --- | --- |
| `pod-manager/actions.ts:154` | a RUNNING task without a private address is registered nowhere, and podUp answers ok: the pod has a row and a URL and serves nobody, and no scan calls it idle (`"address" \in held` in `RegisteredPodIsIntact` and `ServesNobody`) |
| `idle-reaper/handler.ts:171` | `idleSince` is set before the notification is published; after a failed publish the next scan stops a pod nobody was warned about (`throws = 0` in `ReapedPodWasWarned`) |
| `idle-reaper/handler.ts:176` | the scan stops a pod by the name in a row read earlier: a pod brought up again meanwhile is stopped young |
| `idle-reaper/handler.ts:99` | `setIdleSince` is an upsert: after a pod-down it makes a row of `idleSince` alone, and the name is in conflict |
| `pod-manager/aws.ts:112` | `registryDelete` is by name: a slow pod-down, also the one the reaper starts for an ordinary pod-down, deletes the row of a later pod-up |
| `pod-manager/aws.ts:495` | pods whose names agree in 28 characters share a target group; `Cut` is injective in the runs |
| `pod-manager/actions.ts:202` | the rollback after a failed `registryPut` leaves the address registered if the group cannot be deleted; so does a podDown to which ECS no longer gives the address (`actions.ts:275`). With a rule that stays as well, a later task with that address is served under the wrong host (each of `FaultSets` has one of the two) |
| `pod-manager/aws.ts:552` | the target of a task that ended by itself stays until podDown, which the reaper's STOPPED event starts, and meanwhile the host leads to whichever task gets the address (the `ELSE` of `RoutedToOwnTask`) |
| `cluster-down.yml:142` | a cancelled pod run leaves its Lambda invocation behind, outside the lock (`Locked`) |
| `scripts/pod-cli.ts`, `cluster-workspace-guard.ts:3` | a pod-up from a terminal takes no part in the lock (`Locked`) |
| `teardown-lock/action.yml:55` | a `gh run list` that fails inside `echo $(...)` is swallowed, also under `set -euo pipefail`, and reads as an empty list: `cluster-down` goes on beside a pod-up that is still at work, although `action.yml:7-8` says "a pod run that slips past `refuse` is still waited for" (`Locked`) |
| `teardown-lock/action.yml:37` | `gh run list --limit 50`: an older active run is not seen |
| `cluster-workspace-guard.ts:160` | after a failed read the guard announces destruction when `delete_workspaces` is set, whatever is deployed |
| `entrypoint.sh:122` | a TERM during login meets no trap; bash as PID 1 ignores it until ECS kills the container, and `TermAt` in the run of `StopsBeforeKill` excludes it |
| `entrypoint.sh:153` | a TERM between starting the CLI and noting its pid leaves the CLI running while it is unregistered |
| `sync-upstream.ts:140` | a rename has two paths in `git diff -z`; the parser reads one, and later entries shift (`"rename" \notin UpstreamMoves`) |
| `sync-upstream.ts:217` | a file both sides add has no base, and upstream's replaces the user's (`NotUpstreams`) |
| `init-clone.ts:1226` | init records the fork's HEAD as the synced commit: what the user added before counts as deleted upstream, and an edit made before counts as upstream's and is merged away, if the state file is committed (`NotUpstreams`, `"commit" \notin ForkMoves`) |
| `init-clone.ts:839`, `sync-upstream.ts:128` | a repository made with `gh repo create --template` (`docs/quickstart.md:16`) has no merge base with upstream, and the state file is not in the `git add` that init prints, although `docs/extending.md:78` calls it "(committed)": every scheduled sync then stops (`HasBaseline` in `SyncCatchesUp`) |
| `.upstream-sync.toml:32` | the toml is `[tracked]`, although `docs/extending.md:55` says it is "also `[user]`-classified, so this customization sticks": a sync that brings a new toml resets the class of a file the user moved to `[merged]`, and the next one overwrites its edits (`Protected` in `EditsSurviveSync` goes by the toml of the checkout) |
| `init-clone.ts:706-710`, `692` | region, owner, repo and base domain are not quoted: a name of digits is read as a number and the config does not load (`UnquotedAreWords`; logins are quoted, and load) |
| `init-clone.ts:230` | prompted region, owner and repo keep the blanks around them; YAML drops them from the config, `.envrc` and the Variables get them as typed |
| `init-clone.ts:290` | a zone picked from the account's list passes no validator; the flags mode refuses such an ID (`ValidIds` in `ModesAgree`) |
| `init-clone.ts:785` | every interactive init offers to make the bootstrap user. Run again before the roles are set, with a second push that fails, it leaves the Secrets with parts of two keys, and the repo with neither way in, which `init-clone.ts:953-956` rules out (`HalfPushed`); run beside or after `--post-bootstrap` it leaves new credentials behind an exit code of 0 (`beside`) |
| `init-clone.ts:806` | a third run of init meets AWS's limit of two keys per user |
| `init-clone.ts:1253` | Variables are pushed also when the user kept another config |

## Proofs

TLC checks each property on an instance; the theorems hold for every value of
the constants, that is for any number of pods, users, invocations, runs, tasks
and faults. The named assumptions of `PodLifecycle`, `IdleReaper`, `Teardown`,
`BrowserAuth`, `PodRoutes`, `InitClone` and `PostBootstrap` say only what kind of
thing each constant is, and the runs evaluate them; whatever more a theorem
needs is among its own hypotheses. Every proof has the same shape: an inductive
invariant, one lemma per action or group of actions that keeps it, and `PTL` for
the temporal step. The properties themselves are
seldom inductive; what each invariant adds is the reason the code is right.

| Module | Theorems | Hypotheses |
| --- | --- | --- |
| `PodLifecycleProofs` | `TypeCorrect`, `WorkspaceIsAlwaysThePods`, `WorkspaceOwnerIsBound`, `InvocationsKeepToTheirPod` | none |
| | `RollbackIsComplete` | teardown calls succeed |
| | `PodsHaveOneWorkspace`, `AdoptedStays` | no overlap on one pod |
| | `RegisteredPodsAreIntact` | no overlap on one pod; no put is stored and reported as failed |
| | `NoServiceIsOrphaned` | no pod-down overlaps; teardown calls succeed; no invocation is killed |
| | `NothingIsOrphaned` | the same; target group names differ |
| | `OneDesktopAtATime` | no overlap on one pod; teardown calls succeed; no invocation is killed |
| | `RulesLeadToTheirOwnPod`, `InvocationsKeepTheirGroups` | target group names differ |
| | `PodManagerImplementsPodStates` | no overlap on one pod; only create and stop faults |
| beside the reaper | `ReaperTypeCorrect`, `NoPodIsReapedUnwarned`, `ReaperKeepsBindings`, `ReaperKeepsToItsPods` | none |
| | `ReaperLosesNoWorkspace`, `ReaperKeepsOneWorkspace` | no overlap among users on one pod |
| | `ReaperLeavesRollbacksComplete` | teardown calls succeed |
| | `ReaperLeavesRulesHome` | target group names differ |
| `TeardownProofs` | `TypeCorrect` | none |
| | `LockKeepsPodsOut`, `LossIsAgreed` | every unfinished run is on its list; `Locked`, in the property |
| | `LockIsTight`, `LossIsAgreedInTightLock` | `MaxRuns <= ListLimit`; `Locked`, in the property |
| `PodRoutesProofs` | `RoutesTypeCorrect`, `FiveDifferentTries` | none |
| | `EveryPodIsRouted` | target group names differ; every fault set is `Clean` (no `"put"`, `"deregister"`, `"address"`) or `Tidy` (no `"rule"`, `"group"`) |
| `BrowserAuthProofs` | `AuthTypeCorrect`, `StrangersStayOut`, `OnlyTheOwnerGetsIn`, `OwnersGetIn`, `AcceptedConfigsBuild` | none |
| `TunnelPodProofs` | `TheUsersOwnCode` | none |
| | `TunnelTypeCorrect` | the five numbers are naturals |
| | `OnTermBeatsTheKill` | `Loop + Limit < Grace`; no TERM during login |
| | `DownFreesTheSlot` | the same; no TERM before the CLI's pid is known; unregister succeeds |
| | `OverrunIsTheOverlap` | at least one pod-up at a time; the scan succeeds |
| `SyncUpstreamProofs` | `SyncTypeCorrect`, `NoEditIsLost`, `ModifiedFilesStay`, `UntouchedFilesAreUpstreams` | `Sane` |
| `InitCloneProofs` | `InitTypeCorrect`, `WrittenConfigsLoad`, `WrittenConfigsRestrict`, `FlagsSayTheSame`, `EditsAreKept` | none |
| `PostBootstrapProofs` | `BootTypeCorrect`, `NeverLeftWithNeither`, `ExitZeroIsClean` | none |

The hypotheses are those of the runs or weaker. Those that exclude something the
code may meet correspond to entries under "Known limits of the code" or
"Disagreements", or to faults whose effect the property describes: a teardown
call that fails leaves what it should have removed. The theorems
state the definitions that the runs check; those about `TunnelPod` and
`SyncUpstream` are checked through the instances of `MCPods` and `MCClone`.

### The pod-manager

- Types: one step per action, one sub-step per variable it changes.
- Bindings. A step of `podUp` late in the try block is right only because the
  lookup, the owner check and the create call earlier were. `WorkspaceInv` says
  what each point of the handler knows. `WorkspaceMatches`: the local access
  point carries the pod and the uid of the invocation. `BuildersOwnTheirs`: past
  the owner check its owner matches. `NothingMadeYet`: until an invocation has
  created its access point that name has no tags, hence nobody refers to it,
  and tags are never overwritten. `NamedTasksStarted`: rows, entries and locals
  name only tasks that were started, so stopping one starts none.
  `RowsMatch`: the same for rows. `QuietStep` disposes of the actions that
  touch none of this.
- Rollback. `RollbackInv` adds that everything an invocation made is in its
  `held` (`HeldIsMade`) and what each undo step has already removed
  (`UndoneSoFar`). It holds under any overlap. Target groups are not in it: two
  pod-ups share one.
- Overlap. `StepInv` (what an invocation holds at each step, and that a row is
  named after the up that put it) needs no assumption; `TurnInv` and
  `SerialInv` say whose turn it is and, without overlap, that the lookup saw
  every access point there is. `ServicesInv` accounts for each task and rule
  (`TasksAccounted`, `RulesAccounted`): it is its pod's row's, or some undo or
  pod-down in flight still has it to remove; and what was taken away stays away
  (`ServicesTaken`). `OrphanInv` adds the same of target groups, which two pods
  with names alike would share; hence the hypothesis of `NothingIsOrphaned` that
  `NoServiceIsOrphaned` does without. `OneDesktopPerPod`, that no two live tasks
  are of one pod or write to one workspace, adds to `ServicesInv` that an up past
  `registryGet` finds no row but its own (`UpsOwnTheRow`): so no earlier task is
  accounted for beside it. `IntactInv` is what an up
  has built at each step and that rows no pod-down has read are whole;
  `RegisteredPodsAreIntact` holds also when pods share a target group.
- Isolation. `PodsAreIsolated` and `GroupsAreIsolated` say what a step may touch:
  the rows, access points, tasks, rules and groups of the invocation's own pod.
  A pod-down works from a row, a rollback from `held`, both read or filled many
  steps before; `TagInv` says that each access point is tagged with its maker's
  pod, and so is what a prune is about to delete (`StaleFit`); `RowsFit` and
  `EntriesFit` that what a row, or a pod-down's copy of it, names was all made by
  one pod-up of the pod. `RouteInv` is the
  same for target groups: rules and registered tasks in a group are of its pod.
  So a host leads only to tasks of its own pod (`RulesLeadHome`), under any overlap
  and any fault, as long as target group names differ. Groups hold tasks here;
  what a reused address does to this is the subject of `PodRoutes`.

### The refinement

`PodManagerImplementsPodStates` is the step simulation behind
`ImplementsPodStates`. `PhaseInv` says what makes the derived status right: no row
while a pod-up works, the access point it created is there until its rollback,
a row's workspace is there until it is released, and a pod-down past its first
step has stopped the task. `PhaseFits` and `WorkspaceFits` turn `PhaseOf` and
`WorkspaceOf` into cases by what is at work on the pod. `Simulation` then takes
the actions one by one: the pod the step is about makes one step of `PodStates`
or none (`OwnPod`, `PodSteps`), and every other pod stays (`Elsewhere`).

### The idle reaper

`ReaperInv` contains the pod-manager's type and workspace invariants, kept by
its own lemmas for every step that is one of `PodLifecycle` (`ActKeeps`) and
anew for the reaper's writes: `BeginKeeps`, `RecycleKeeps`, `SetIdleKeeps` (the
upsert may make a row). On top of it `IdleSinceWarned`: an `idleSince`, in the
registry or in the rows a scan has read, comes with a warning, except the one
just set; and `ReapersOnlyKeep`: the reaper's pod-downs never release. The last
is why no workspace is lost although they overlap anything.

`ReaperSteps` reduces a step beside the reaper to one of an invocation, the
beginning of one, the reuse of a name, or the upsert of `setIdleSince`. By it
`RollbackInv` and the isolation invariants (`SideInv`, `RouteSide`) hold there as
well, for any scan and any event; that a pod has one workspace is part of
`ReaperInv`. A reaper's pod-down makes nothing, so its name can be used again
without leaving anything behind. `NothingIsOrphaned` and `OneDesktopAtATime` do
not carry over: the reaper's pod-down overlaps users, and if it is slow it deletes
the row of a later pod-up (see "Known limits of the code"), whose task then has no
row and whose pod can be started a second time.

### Teardown

`LockInv` is about pairs: `LockHolds` says that a pod run that was let through
and a `cluster-down` that has seen no such run are never both unfinished. It is
inductive because each side looks for the other only once it is in progress
itself, and an unfinished run is on its list, which is the hypothesis
`NoneHidden` (`LongListHidesNone` derives that from a bound on the runs), and a
list did not fail, which is part of `Locked`.
`InvocationsHaveRuns` and `DrainedMeansEmpty` carry it to `cdk destroy`.
`ConsentInv` adds that what the guard announced stays true until the stacks are
gone: the lock keeps new workspaces away and the concurrency group other
cluster runs. Both are conditional on `Locked`, as the properties are.

### PodRoutes

`RoutesInv` has five parts per pod. `TriesOf` identifies the priority of a try
with a closed form, `(Start + 1001 j) % 49000 + 1000`, from which `TriesDiffer`
shows the first five differ for every hash, wrapped or not. `RuleOf`, `TaskOf`,
`RowOf` say where a rule, an address and a row come from, and `TargetsOf` that a
target group holds no address but that of its pod's task, running or ended. The
latter has two reasons, and each breaks under one kind of failure: either
addresses are deregistered with the pod (`Clean`), or the group disappears with
the pod because no rule holds it (`Tidy`). With failures of both kinds a later
task may be served under another's host, so each fault set is one or the other.
That ELB picks the rule of lowest priority takes the existence of a minimum
(`LowestExists`, by `WFMin`).

### BrowserAuth

`AuthInv` says that the deployed settings are what the schema accepted and that
every sidecar is what `BuildBrowserAuthTaskParts` makes of them for an owner
that passed the checks. The theorems are then about that operator.
`SharedFields` and `OwnerFields` give its result field by field,
`AcceptedBuilds` that the schema asks for what the builder needs, and
`RestrictionHolds` that a key `auth-guard.ts` counts as a restriction restricts
the sidecar. The run tries the keys each provider reads; the theorems cover
every config of the schema's types, with any names in any lists.

### TunnelPod

`BoxChanges` and `UpMoves` say that a step changes one container and one pod-up,
and how. `InTime` bounds, per container, the seconds since the SIGTERM plus
those the current wait may still take; so `Loop + Limit < Grace` suffices,
whatever the three are, also for a SIGTERM that meets the CLI before its pid is
known. `LeavesNoTunnel`: from the unregister on there is no CLI that could
register again. `CapInv` counts the unwarned pod-ups; only `tunnelCapWarning`
adds one, and then it has just seen fewer rows than the cap
(`OneMoreUnwarned`).

### InitClone

`Fits` says what a command knows at each prompt: which answers it has, and that
the others are still missing. At the writing steps the answers are `Complete`:
the prompts asked for an allowlist of that provider only and for a zone exactly
where the strategy has one. Flags that pass the checks of the other mode are
complete too (`FlagsAreComplete`), so both modes reach one fact about the file,
`Written`: it is `RenderConfigYaml` of `answers`, which are complete, until the
user edits it. From it `WrittenLoads` and `WrittenRestricts` are a matter of
`BrowserAuth`: what the guard counts and whom the sidecar lets in are compared
with the answers. `AnswersAreFlags` is the way back. That blanks do not matter
rests on trimming twice being trimming once.

### PostBootstrap

`BootInv` rests on the order of the calls: nothing is removed before the roles are
read back (`Justified` says what a run about to do a step has seen), and only init
creates anything, so what a run has seen gone stays gone, unless an init has run
since it started (`beside`), while others remove, fail or stop. A step of a run is
a look (`Looks`), sets a Variable (`Points`) or removes something (`Unsecrets`,
`Dismantles`).

### SyncUpstream

`SyncOpens` says what a run leaves at each path, conflicts included, and
`MergeTakesOne` what git then does to a main branch that moved on.
`EditIsMerged` and `EditedFileStays` follow an edited file through the loop of
the script; `EditsKept` and `ModifiedKept` say it of every open pull request, and
these two are inductive. `Unedited` adds that upstream has no edit of the user's,
which is what committing init's state file breaks.

`UntouchedFilesFollow` needs more. `DiffIsRead`: without renames, reading the
output of git diff two tokens at a time gives one entry per file that differs.
`FlattenSeq` is recursive; the induction over the lines is by the least
counterexample (`UpTo`), and that there is a function with the recursive
definition is itself such an induction (`JoinExists`). `OnePath` and `AsForked` are
why git sees no rename where upstream made none: no version is ever under two
paths. `Forward`: the state file only moves forward, and there is one pull
request per commit of upstream. Hence a pull request that git still merges was
opened since the last merge, and main has only gained edits since
(`OnlyEditsSince`). `TreesFollow` is the property, of main and of each pull request.
`Sane` says that the missing value is no content and no commit, that the bounds
are naturals and that the order of the paths is a sequence.

### Only model-checked, and only proved

- Liveness, which is out of the prover's reach, is only model-checked:
  `EveryInvocationAnswers`, `UselessPodIsReaped`, `EveryRunCompletes`,
  `SyncCatchesUp`.
- The parts of `PodsTypeOK` and `CloneTypeOK` are proved module by module; that
  the modules do not interfere is how those two modules are written.
- `OneDesktopPerPod`, `PodsAreIsolated`, `RulesLeadHome` and `GroupsAreIsolated` are
  stated beside their proofs and no run lists them. `NoOrphanServices`, the part
  of `NoOrphans` about tasks and rules, is checked with it.

## Plan

Done: every module above with its runs, the refinement, and theorems for every
safety and action property of the passing runs. Left: hypotheses that could be
weakened, such as the teardown calls that succeed in `NothingIsOrphaned` and
`RollbackIsComplete`, by naming what each failed call leaves behind.

## Not modelled

- Stack names (`infra/lib/stack-names.ts`): pure naming. `Teardown` takes
  from it which stacks `cluster-down` destroys.
- CDK stacks: they declare templates and run no protocol; the models take facts
  from them (Lambda timeouts, event rules, stopTimeout, deletion policies).
- The schema beyond auth: each rule is a check of one value.
- The tunnel container's ssh mode: it starts sshd and waits for it. The browser
  container and the shared scripts are a few lines of shell without state.
- `podList` and `podStatus` only read.
- Maintainer scripts: run by hand, one call after the other.
- CI, release and smoke-test workflows hold no state of the running system.
- What oauth2-proxy, the VS Code CLI, GitHub, git and the AWS services do inside is
  external and modelled from its use.
