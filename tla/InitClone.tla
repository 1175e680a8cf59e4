----------------------------- MODULE InitClone ------------------------------
(***************************************************************************)
(* `npm run init` (scripts/init-clone.ts) in its two config-writing modes: *)
(* the prompts, answered one screen after the other and then written as    *)
(* config.yaml, .upstream-sync.state, .envrc, the extensions stub and the  *)
(* repo Variables; and --non-interactive, which takes every answer from    *)
(* flags and writes one file.  Commands run in several terminals, and the  *)
(* user edits what they wrote.  The written config is read back by the     *)
(* schema (BrowserAuth).                                                   *)
(*                                                                         *)
(* Blank is a value that the validator of its prompt or flag refuses.  A   *)
(* region, owner, repo or domain may have white space around it, which the *)
(* prompts keep, the flags do not, and YAML does not read; users, org,     *)
(* tenant and groups are trimmed in either mode and stand trimmed here.    *)
(* VPC CIDR, sizing, idle minutes, tunnel provider, account ID and the     *)
(* retention of workspaces are left out: both modes check them with the    *)
(* same validator and write them the same way.  The IAM part of init is    *)
(* PostBootstrap.                                                          *)
(***************************************************************************)
EXTENDS FiniteSets, Naturals

CONSTANTS
  Cmds,      \* the terminals with prompts
  Regions, DefaultRegion,
  Names,     \* GitHub logins
  OrgMembers,
  Owners,    \* what may be typed as owner or repo
  Trimmed,   \* what is typed, without the white space around it
  Numeric,   \* what YAML reads as a number, and not as a string
  Zones,     \* Route53 zones
  ValidIds,  \* the zones whose ID validateZoneId accepts
  Domains,   \* base domains: a prefix and the apex, of the zone or as typed
  Accounts,  \* the regions, owners and repos that are typed together
  UserLists, \* what is typed as a list of users
  Org, Tenants, Groups,
  FlagSets,  \* what --non-interactive is called with
  Blank, None

Flags ==
  [region : Regions \cup {None, Blank}, owner : Owners \cup {None, Blank},
   repo : Owners \cup {None, Blank}, provider : {"github", "entra-id", "oidc", None},
   strategy : {"byo", "alb-default", None}, zone : Zones \cup {None, Blank},
   domain : Domains \cup {None, Blank}, users : {None} \cup SUBSET (Names \cup {Blank}),
   org : {Org, None, Blank}, tenant : Tenants \cup {None, Blank},
   groups : {None} \cup SUBSET Groups, ownerOnly : BOOLEAN]

(* The missing value and the blank one are none of the others.             *)
ASSUME InitAssumption ==
  /\ DefaultRegion \in Regions /\ None # Blank
  /\ {None, Blank} \cap Regions = {} /\ {None, Blank} \cap Owners = {}
  /\ {None, Blank} \cap (Names \cup Zones \cup Domains \cup Tenants \cup {Org}) = {}
  /\ ValidIds \subseteq Zones /\ Accounts \subseteq Regions \X Owners \X Owners
  /\ \A texts \in {Regions, Owners, Domains} : \A x \in texts :
       Trimmed[x] \in texts /\ Trimmed[Trimmed[x]] = Trimmed[x]
  /\ None \notin {"string", "number"} \X Domains /\ None # [by |-> "user"]
  /\ None \notin {"github", "entra-id", "oidc", "byo", "alb-default", "user"}
  /\ \A users \in SUBSET (Names \cup {Blank}) : None # users
  /\ \A set \in SUBSET Groups : None # set
  /\ UserLists \subseteq SUBSET (Names \cup {Blank})
  /\ FlagSets \subseteq Flags

VARIABLES
  config,    \* config/config.yaml, as YAML reads it
  answers,   \* (history) the answers that the config init wrote stands for
  envrc,     \* .envrc
  stub,      \* infra/extensions.local.ts
  state,     \* .upstream-sync.state
  ghRegion,  \* the repo Variable AWS_REGION
  cmd,       \* each command: its next step and its answers
  agreed     \* the files that the last step was told to overwrite

vars == <<config, answers, envrc, stub, state, ghRegion, cmd, agreed>>

Auth == INSTANCE BrowserAuth WITH
  BrowserPods <- {}, Users <- Names, Domains <- {}, HomeTenant <- None,
  GroupsOf <- <<>>, DomainOf <- <<>>, TenantOf <- <<>>, Everyone <- None,
  Personal <- None, Undefined <- None, RawConfigs <- {}, raw <- None, deployed <- None,
  pods <- <<>>, threw <- {}

Providers == {"github", "entra-id"}
Files == {"config", "envrc"}
Answers ==
  [region : Regions \cup {None}, owner : Owners \cup {None}, repo : Owners \cup {None},
   provider : Providers \cup {None}, strategy : {"byo", "alb-default", None},
   zone : Zones \cup {None}, domain : Domains \cup {None}, users : SUBSET Names,
   org : {Org, None}, tenant : Tenants \cup {None}, groups : SUBSET Groups,
   ownerOnly : BOOLEAN]
NoAnswers ==
  [region |-> None, owner |-> None, repo |-> None, provider |-> None,
   strategy |-> None, zone |-> None, domain |-> None, users |-> {}, org |-> None,
   tenant |-> None, groups |-> {}, ownerOnly |-> FALSE]

Steps ==
  {"none", "account", "provider", "domain", "allowlist", "rest", "config", "state",
   "envrc", "stub", "push", "done", "stopped"}
Idle(c) == cmd[c].step \in {"none", "done", "stopped"}

(* A YAML scalar: its type, and what was written.                          *)
Scalar(set) == {"string", "number"} \X set
Config ==
  [by : {"init"}, region : Scalar(Regions), org : Scalar(Owners),
   repo : Scalar(Owners), provider : Providers, issuerUrl : {"tenant", None},
   users : SUBSET Scalar(Names), allowedOrg : {Org, None},
   tenants : SUBSET Tenants, groups : SUBSET Groups, ownerOnly : BOOLEAN,
   strategy : {"byo", "alb-default"}, domain : Scalar(Domains) \cup {None},
   zone : Zones \cup {None}]
(* A file as the user has edited it.                                       *)
UserFile == [by |-> "user"]

TypeOK ==
  /\ config \in Config \cup {UserFile, None} /\ answers \in Answers
  /\ envrc \in [by : {"init"}, region : Regions] \cup {UserFile, None}
  /\ stub \in {"init", "user", None} /\ state \in {"head", None}
  /\ ghRegion \in Regions \cup {None}
  /\ cmd \in [Cmds -> [step : Steps, a : Answers]]
  /\ \A c \in Cmds : cmd[c].step \in {"state", "envrc", "stub", "push"} =>
       cmd[c].a.region # None
  /\ \A c \in Cmds : cmd[c].step = "config" =>
       LET a == cmd[c].a IN
       /\ None \notin {a.region, a.owner, a.repo, a.provider, a.strategy}
       /\ (a.strategy = "byo") = (a.zone # None) /\ (a.domain # None) = (a.zone # None)
       /\ a.provider = "entra-id" =>
            a.strategy = "byo" /\ a.tenant # None /\ a.users = {} /\ a.org = None
       /\ a.provider = "github" => a.tenant = None /\ a.groups = {}
  /\ agreed \subseteq Files

Init ==
  /\ config = None /\ answers = NoAnswers /\ envrc = None /\ stub = None /\ state = None /\ ghRegion = None
  /\ cmd = [c \in Cmds |-> [step |-> "none", a |-> NoAnswers]]
  /\ agreed = {}

-----------------------------------------------------------------------------
(* What is written.  Only the auth block quotes its values: YAML reads a   *)
(* plain scalar without the white space around it, and as a number if it   *)
(* looks like one.                                                         *)

Plain(x)  == <<IF Trimmed[x] \in Numeric THEN "number" ELSE "string", Trimmed[x]>>
Quoted(x) == <<"string", x>>
Entries(list) == list \ {Blank}

EntraAuthBlock(a) ==
  [issuerUrl |-> "tenant", tenants |-> {a.tenant}, groups |-> a.groups,
   users |-> {}, allowedOrg |-> None]
GithubAuthBlock(users, org) ==
  [issuerUrl |-> None, tenants |-> {}, groups |-> {}, users |-> users, allowedOrg |-> org]

(* Mutant: an organization is written only when there are no users.        *)
AuthBlockUsersOrOrg(a) ==
  IF a.provider = "entra-id" THEN EntraAuthBlock(a)
  ELSE GithubAuthBlock({Quoted(u) : u \in a.users}, IF a.users # {} THEN None ELSE a.org)
(* Mutant: the logins are written like every other name.                   *)
AuthBlockUnquoted(a) ==
  IF a.provider = "entra-id" THEN EntraAuthBlock(a)
  ELSE GithubAuthBlock({Plain(u) : u \in a.users}, a.org)
RenderAuthBlock(a) ==
  IF a.provider = "entra-id" THEN EntraAuthBlock(a)
  ELSE GithubAuthBlock({Quoted(u) : u \in a.users}, a.org)
RenderConfigYaml(a) ==
  LET auth == RenderAuthBlock(a) IN
  [by |-> "init", region |-> Plain(a.region), org |-> Plain(a.owner),
   repo |-> Plain(a.repo), provider |-> a.provider, issuerUrl |-> auth.issuerUrl,
   users |-> auth.users, allowedOrg |-> auth.allowedOrg, tenants |-> auth.tenants,
   groups |-> auth.groups, ownerOnly |-> a.ownerOnly, strategy |-> a.strategy,
   domain |-> IF a.domain = None THEN None ELSE Plain(a.domain), zone |-> a.zone]

(* loadConfig of such a file: its types, and the rules of the schema.      *)
BrowserOf(file) ==
  [Auth!DefaultBrowser EXCEPT
     !.provider = file.provider, !.issuerUrl = file.issuerUrl,
     !.allowedOrg = file.allowedOrg, !.allowedUsers = {u[2] : u \in file.users},
     !.allowedGroups = file.groups, !.allowedTenants = file.tenants,
     !.ownerOnly = file.ownerOnly]
Loads(file) ==
  /\ \A x \in {file.region, file.org, file.repo} \cup file.users : x[1] = "string"
  /\ file.domain # None => file.domain[1] = "string"
  /\ Auth!Accepted(BrowserOf(file), file.strategy)

-----------------------------------------------------------------------------
(* The prompts.  A prompt is repeated until its validator is content; it   *)
(* can be cancelled, which ends the command before it wrote anything.      *)

Answer(c, step, next, a) ==
  /\ cmd[c].step = step
  /\ cmd' = [cmd EXCEPT ![c] = [step |-> next, a |-> a]]
  /\ UNCHANGED <<config, answers, envrc, stub, state, ghRegion>> /\ agreed' = {}

(* parseInteractiveFlags, checkPrereqs and detectDefaults pass.            *)
StartsPrompting(c) ==
  /\ Idle(c)
  /\ Answer(c, cmd[c].step, "account", NoAnswers)

AsksAccount(c) ==
  \E account \in Accounts :
    Answer(c, "account", "provider",
           [cmd[c].a EXCEPT !.region = account[1], !.owner = account[2], !.repo = account[3]])

(* Mutant: Entra ID does not force a zone of one's own.                    *)
AsksProviderAndStrategy(c) ==
  \E provider \in Providers, strategy \in {"byo", "alb-default"} :
    Answer(c, "provider", "domain",
           [cmd[c].a EXCEPT !.provider = provider, !.strategy = strategy])
AsksProvider(c) ==
  \E provider \in Providers, strategy \in {"byo", "alb-default"} :
    /\ provider = "entra-id" => strategy = "byo"
    /\ Answer(c, "provider", "domain",
              [cmd[c].a EXCEPT !.provider = provider, !.strategy = strategy])

(* A zone is picked from the account's, whatever its ID looks like, with   *)
(* its name, or a valid ID is typed and then the apex domain, which no     *)
(* validator looks at; with a prefix in front of it the base domain is not *)
(* blank even if the apex is.                                              *)
AsksDomain(c) ==
  IF cmd[c].a.strategy = "byo"
  THEN \E zone \in Zones, domain \in Domains :
         Answer(c, "domain", "allowlist",
                [cmd[c].a EXCEPT !.zone = zone, !.domain = domain])
  ELSE Answer(c, "domain", "allowlist", cmd[c].a)

AsksAllowlist(c) ==
  IF cmd[c].a.provider = "github"
  THEN \E kind \in SUBSET {"user", "org"}, users \in UserLists :
         /\ IF "user" \in kind THEN Entries(users) # {} ELSE users = {}
         /\ Answer(c, "allowlist", "rest",
                   [cmd[c].a EXCEPT !.users = Entries(users),
                                    !.org = IF "org" \in kind THEN Org ELSE None])
  ELSE \E tenant \in Tenants, groups \in SUBSET Groups :
         Answer(c, "allowlist", "rest",
                [cmd[c].a EXCEPT !.tenant = tenant, !.groups = groups])

AsksRest(c) ==
  \E ownerOnly \in BOOLEAN :
    Answer(c, "rest", "config", [cmd[c].a EXCEPT !.ownerOnly = ownerOnly])

CancelsPrompt(c) ==
  /\ cmd[c].step \in {"account", "provider", "domain", "allowlist", "rest"}
  /\ Answer(c, cmd[c].step, "stopped", NoAnswers)

-----------------------------------------------------------------------------
(* main writes what is absent, and asks before it overwrites config.yaml   *)
(* or .envrc; the other two it leaves alone.                               *)

GoesOn(c, step, next) ==
  /\ cmd[c].step = step
  /\ cmd' = [cmd EXCEPT ![c].step = next]

MaybeOverwrite(file, exists, Write, Keep) ==
  \/ /\ Write
     /\ agreed' = IF exists THEN {file} ELSE {}
  \/ exists /\ Keep /\ agreed' = {}

(* Of the answers, the region is needed afterwards.                        *)
WritesConfig(c) ==
  /\ cmd[c].step = "config"
  /\ cmd' = [cmd EXCEPT ![c] = [step |-> "state",
                                a |-> [NoAnswers EXCEPT !.region = cmd[c].a.region]]]
  /\ MaybeOverwrite("config", config # None,
                 config' = RenderConfigYaml(cmd[c].a) /\ answers' = cmd[c].a,
                 UNCHANGED <<config, answers>>)
  /\ UNCHANGED <<envrc, stub, state, ghRegion>>

(* Without a commit to name there is no state file.                        *)
WritesState(c) ==
  /\ GoesOn(c, "state", "envrc")
  /\ state' \in {state, "head"}
  /\ UNCHANGED <<config, answers, envrc, stub, ghRegion>> /\ agreed' = {}

WritesEnvrc(c) ==
  /\ GoesOn(c, "envrc", "stub")
  /\ MaybeOverwrite("envrc", envrc # None,
                 envrc' = [by |-> "init", region |-> cmd[c].a.region], envrc' = envrc)
  /\ UNCHANGED <<config, answers, stub, state, ghRegion>>

WritesStub(c) ==
  /\ GoesOn(c, "stub", "push")
  /\ stub' = IF stub = None THEN "init" ELSE stub
  /\ UNCHANGED <<config, answers, envrc, state, ghRegion>> /\ agreed' = {}

(* --no-push skips it, a push that fails is only reported.                 *)
PushesVariables(c) ==
  /\ cmd[c].step = "push"
  /\ cmd' = [cmd EXCEPT ![c] = [step |-> "done", a |-> NoAnswers]]
  /\ ghRegion' \in {ghRegion, cmd[c].a.region}
  /\ UNCHANGED <<config, answers, envrc, stub, state>> /\ agreed' = {}

(* The command is killed.                                                  *)
Stops(c) ==
  /\ cmd[c].step \in {"config", "state", "envrc", "stub", "push"}
  /\ cmd' = [cmd EXCEPT ![c] = [step |-> "stopped", a |-> NoAnswers]]
  /\ UNCHANGED <<config, answers, envrc, stub, state, ghRegion>> /\ agreed' = {}

-----------------------------------------------------------------------------
(* --non-interactive.  None: the flag is not given.                        *)

OrElse(x, default) == IF x = None THEN default ELSE x
Given(x) == x \notin {None, Blank}

Provider(f) == OrElse(f.provider, "github")
(* Mutant: the default does not depend on the provider.                    *)
StrategyAlbDefault(f) == OrElse(f.strategy, "alb-default")
Strategy(f) == OrElse(f.strategy, IF Provider(f) = "entra-id" THEN "byo" ELSE "alb-default")

DomainFlagsValid(f) ==
  /\ Provider(f) = "entra-id" => Strategy(f) = "byo"
  /\ IF Strategy(f) = "byo" THEN f.zone \in ValidIds /\ Given(f.domain)
     ELSE f.zone = None /\ f.domain = None
AuthFlagsValid(f) ==
  IF Provider(f) = "github"
  THEN /\ f.tenant = None /\ f.groups = None /\ f.org # Blank
       /\ f.users # None => Entries(f.users) # {}
  ELSE /\ f.users = None /\ f.org = None /\ Given(f.tenant)
FlagsValid(f) ==
  /\ Given(f.owner) /\ Given(f.repo) /\ f.region # Blank
  /\ Provider(f) \in Providers
  /\ DomainFlagsValid(f) /\ AuthFlagsValid(f)

ParseInitFlags(f) ==
  [region |-> Trimmed[OrElse(f.region, DefaultRegion)],
   owner |-> Trimmed[f.owner], repo |-> Trimmed[f.repo],
   provider |-> Provider(f), strategy |-> Strategy(f), zone |-> f.zone,
   domain |-> IF f.domain = None THEN None ELSE Trimmed[f.domain],
   users |-> Entries(OrElse(f.users, {})), org |-> f.org, tenant |-> f.tenant,
   groups |-> OrElse(f.groups, {}), ownerOnly |-> f.ownerOnly]

(* Mutant: the file is opened with 'w' in any case.                        *)
NonInteractiveOverwrites ==
  /\ \E f \in FlagSets :
       /\ FlagsValid(f)
       /\ answers' = ParseInitFlags(f) /\ config' = RenderConfigYaml(answers')
  /\ UNCHANGED <<cmd, envrc, stub, state, ghRegion>> /\ agreed' = {}

(* runNonInteractive: without --force the file is created exclusively.     *)
RunNonInteractive ==
  /\ \E f \in FlagSets, force \in BOOLEAN :
       /\ FlagsValid(f) /\ (force \/ config = None)
       /\ answers' = ParseInitFlags(f) /\ config' = RenderConfigYaml(answers')
       /\ agreed' = IF force THEN {"config"} ELSE {}
  /\ UNCHANGED <<cmd, envrc, stub, state, ghRegion>>
-----------------------------------------------------------------------------

UserEdits ==
  /\ \/ /\ config # None /\ config' = UserFile /\ answers' = NoAnswers
        /\ UNCHANGED <<envrc, stub>>
     \/ envrc # None /\ envrc' = UserFile /\ UNCHANGED <<config, answers, stub>>
     \/ stub # None /\ stub' = "user" /\ UNCHANGED <<config, answers, envrc>>
  /\ UNCHANGED <<state, ghRegion, cmd>>
  /\ agreed' = {}

Prompts(c) ==
  \/ StartsPrompting(c) \/ AsksAccount(c) \/ AsksProvider(c) \/ AsksDomain(c)
  \/ AsksAllowlist(c) \/ AsksRest(c) \/ CancelsPrompt(c)
Writes(c) ==
  \/ WritesConfig(c) \/ WritesState(c) \/ WritesEnvrc(c) \/ WritesStub(c)
  \/ PushesVariables(c) \/ Stops(c)
Next == UserEdits \/ RunNonInteractive \/ \E c \in Cmds : Prompts(c) \/ Writes(c)
Spec == Init /\ [][Next]_vars

-----------------------------------------------------------------------------

ByInit == config # None /\ config.by = "init"

(* Every later command can load the config that init wrote, whatever was   *)
(* answered or given as flags, with one exception: region, owner, repo and *)
(* base domain are written without quotes, and the schema refuses them if  *)
(* YAML reads one as a number.  No login in the auth block can do that.    *)
AreWords(texts) == \A x \in texts : Trimmed[x] \notin Numeric
UnquotedAreWords(a) ==
  AreWords({a.region, a.owner, a.repo}) /\ (a.domain # None => AreWords({a.domain}))
WrittenConfigLoads == ByInit => (Loads(config) <=> UnquotedAreWords(answers))

(* Init never leaves browser pods open, and never lets in anybody else     *)
(* than the answers named, nor fewer: the pod-manager's guard finds a      *)
(* restriction in the config exactly when they named someone (it refuses   *)
(* every browser pod otherwise); the sidecar built from it lets a GitHub   *)
(* user sign in exactly when the user or the organization was named, and   *)
(* has the tenant and the groups that were named.                          *)
SomeoneNamed(a) ==
  a.provider = "entra-id" \/ a.users # {} \/ a.org # None \/ a.ownerOnly
Named(a, u) == u \in a.users \/ (a.org # None /\ u \in OrgMembers)
LetsIn(s, a) ==
  IF a.provider = "github"
  THEN a.users # {} \/ a.org # None =>
         \A u \in Names : Auth!PassesSignIn(s, u) <=> Named(a, u)
  ELSE s.tenants = {a.tenant} /\ s.allowedGroups = a.groups /\ ~s.skipIssuerCheck
RestrictedAsAnswered ==
  ByInit =>
    LET b == BrowserOf(config) IN
    /\ Auth!Restricted(b) <=> SomeoneNamed(answers)
    /\ b.ownerOnly = answers.ownerOnly
    /\ LetsIn(Auth!SharedSidecar(b, None), answers)

(* What can be answered at the prompts can be given as flags, defaults     *)
(* left out, and writes the same config, white space around a value apart; *)
(* only a zone picked from the account's that has an ID the flag's         *)
(* validator refuses cannot.                                               *)
Unless(x, default) == IF x = default THEN None ELSE x
FlagsOf(a) ==
  [region |-> Unless(a.region, DefaultRegion), owner |-> a.owner, repo |-> a.repo,
   provider |-> Unless(a.provider, "github"),
   strategy |-> Unless(a.strategy, IF a.provider = "github" THEN "alb-default" ELSE "byo"),
   zone |-> a.zone, domain |-> a.domain, users |-> Unless(a.users, {}), org |-> a.org,
   tenant |-> a.tenant, groups |-> Unless(a.groups, {}), ownerOnly |-> a.ownerOnly]
ModesAgree ==
  \A c \in Cmds : cmd[c].step = "config" =>
    LET a == cmd[c].a
        f == FlagsOf(a) IN
    /\ FlagsValid(f) <=> a.zone \in ValidIds \cup {None}
    /\ FlagsValid(f) => RenderConfigYaml(ParseInitFlags(f)) = RenderConfigYaml(a)

(* A file the user edited is overwritten only when a command was told to.  *)
Edited(file) == file # None /\ file.by = "user"
EditsAreNotOverwritten ==
  [][/\ Edited(config) /\ ~Edited(config') => "config" \in agreed'
     /\ Edited(envrc) /\ ~Edited(envrc') => "envrc" \in agreed'
     /\ stub = "user" => stub' = "user"]_vars
=============================================================================
