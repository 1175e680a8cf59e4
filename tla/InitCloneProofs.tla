-------------------------- MODULE InitCloneProofs ---------------------------
(* Theorems about InitClone, for any terminals, names, zones and flags.    *)
EXTENDS InitClone, TLAPS

-----------------------------------------------------------------------------
(* The answers so far, by the screens that were answered.                  *)
Accounted(a) == a.region \in Regions /\ a.owner \in Owners /\ a.repo \in Owners
Provided(a) ==
  /\ a.provider \in Providers /\ a.strategy \in {"byo", "alb-default"}
  /\ a.provider = "entra-id" => a.strategy = "byo"
Located(a) ==
  IF a.strategy = "byo" THEN a.zone \in Zones /\ a.domain \in Domains
  ELSE a.zone = None /\ a.domain = None
NoAllowlist(a) == a.users = {} /\ a.org = None /\ a.tenant = None /\ a.groups = {}
Allowed(a) ==
  IF a.provider = "github" THEN a.tenant = None /\ a.groups = {}
  ELSE a.tenant \in Tenants /\ a.users = {} /\ a.org = None
Complete(a) == a \in Answers /\ Accounted(a) /\ Provided(a) /\ Located(a) /\ Allowed(a)

WrittenSteps == {"state", "envrc", "stub", "push"}
Fits(step, a) ==
  /\ step \in Steps /\ a \in Answers
  /\ step \in {"none", "done", "stopped", "account"} => a = NoAnswers
  /\ step \in {"provider", "domain", "allowlist", "rest", "config"} => Accounted(a)
  /\ step \in {"domain", "allowlist", "rest", "config"} => Provided(a)
  /\ step \in {"provider", "domain"} => a.zone = None /\ a.domain = None
  /\ step \in {"allowlist", "rest", "config"} => Located(a)
  /\ step \in {"provider", "domain", "allowlist"} => NoAllowlist(a)
  /\ step \in {"rest", "config"} => Allowed(a)
  /\ step \in WrittenSteps => a.region \in Regions

(* The config that init wrote is that of the answers.                      *)
Written == Complete(answers) /\ config = RenderConfigYaml(answers)
InitInv ==
  /\ \A c \in Cmds : Fits(cmd[c].step, cmd[c].a)
  /\ DOMAIN cmd = Cmds /\ cmd = [c \in Cmds |-> [step |-> cmd[c].step, a |-> cmd[c].a]]
  /\ config \in Config \cup {UserFile, None} /\ answers \in Answers
  /\ ByInit => Written
  /\ envrc \in [by : {"init"}, region : Regions] \cup {UserFile, None}
  /\ stub \in {"init", "user", None} /\ state \in {"head", None}
  /\ ghRegion \in Regions \cup {None}
  /\ agreed \subseteq Files

-----------------------------------------------------------------------------
(* The file that complete answers give.                                    *)

LEMMA RenderFits ==
  ASSUME NEW a, Complete(a)
  PROVE  /\ RenderConfigYaml(a) \in Config /\ RenderConfigYaml(a).by = "init"
<1>1. /\ a \in Answers /\ Accounted(a) /\ Provided(a) /\ Located(a) /\ Allowed(a)
  BY DEF Complete
<1>2. /\ \A x \in Regions : Plain(x) \in Scalar(Regions)
      /\ \A x \in Owners : Plain(x) \in Scalar(Owners)
      /\ \A x \in Domains : Plain(x) \in Scalar(Domains)
      /\ \A x \in Names : Quoted(x) \in Scalar(Names)
  BY InitAssumption DEF Plain, Quoted, Scalar
<1>3. /\ Plain(a.region) \in Scalar(Regions) /\ Plain(a.owner) \in Scalar(Owners)
      /\ Plain(a.repo) \in Scalar(Owners)
      /\ {Quoted(u) : u \in a.users} \in SUBSET Scalar(Names)
  BY <1>1, <1>2 DEF Accounted, Answers
<1>4. LET auth == RenderAuthBlock(a) IN
      /\ auth.issuerUrl \in {"tenant", None} /\ auth.users \in SUBSET Scalar(Names)
      /\ auth.allowedOrg \in {Org, None} /\ auth.tenants \in SUBSET Tenants
      /\ auth.groups \in SUBSET Groups
  <2>1. CASE a.provider = "entra-id"
    BY <1>1, <2>1 DEF RenderAuthBlock, EntraAuthBlock, Allowed, Answers, Provided
  <2>2. CASE a.provider # "entra-id"
    BY <1>1, <1>3, <2>2 DEF RenderAuthBlock, GithubAuthBlock, Answers
  <2> QED
    BY <2>1, <2>2
<1>5. /\ (IF a.domain = None THEN None ELSE Plain(a.domain)) \in Scalar(Domains) \cup {None}
      /\ a.zone \in Zones \cup {None}
      /\ a.provider \in Providers /\ a.strategy \in {"byo", "alb-default"}
      /\ a.ownerOnly \in BOOLEAN
  BY <1>1, <1>2 DEF Answers, Provided
<1> HIDE DEF RenderAuthBlock
<1> QED
  BY <1>3, <1>4, <1>5 DEF RenderConfigYaml, Config

(* The keys of auth.browser that the config stands for.                    *)
LEMMA WrittenBrowser ==
  ASSUME NEW a, NEW file, file = RenderConfigYaml(a)
  PROVE  LET b == BrowserOf(file)
             auth == RenderAuthBlock(a) IN
         /\ b.provider = a.provider /\ b.ownerOnly = a.ownerOnly
         /\ b.issuerUrl = auth.issuerUrl /\ b.allowedOrg = auth.allowedOrg
         /\ b.allowedUsers = {u[2] : u \in auth.users}
         /\ b.allowedTenants = auth.tenants /\ b.allowedGroups = auth.groups
  BY DEF BrowserOf, RenderConfigYaml, Auth!DefaultBrowser

(* The schema's rules accept what init writes, for either provider.        *)
LEMMA WrittenAccepted ==
  ASSUME NEW a, Complete(a), NEW file, file = RenderConfigYaml(a)
  PROVE  Auth!Accepted(BrowserOf(file), file.strategy)
<1>1. Provided(a) /\ Allowed(a)
  BY DEF Complete
<1> DEFINE b == BrowserOf(file)
<1>2. /\ b.provider = a.provider /\ file.strategy = a.strategy
      /\ b.issuerUrl = RenderAuthBlock(a).issuerUrl
      /\ b.allowedOrg = RenderAuthBlock(a).allowedOrg
      /\ b.allowedUsers = {u[2] : u \in RenderAuthBlock(a).users}
      /\ b.allowedTenants = RenderAuthBlock(a).tenants
  BY WrittenBrowser DEF RenderConfigYaml
<1> HIDE DEF b
<1>3. CASE a.provider = "entra-id"
  <2>1. /\ b.issuerUrl = "tenant" /\ b.allowedOrg = None /\ b.allowedUsers = {}
        /\ b.allowedTenants = {a.tenant}
    BY <1>2, <1>3 DEF RenderAuthBlock, EntraAuthBlock
  <2>2. None # Org /\ a.tenant # Blank
    BY <1>1, <1>3, InitAssumption DEF Allowed
  <2>3. Auth!RefineEntraId(b)
    BY <2>1, <2>2 DEF Auth!RefineEntraId, Auth!ParsesAsEntraIssuer, Auth!MultiTenant
  <2> QED
    BY <1>1, <1>2, <1>3, <2>3 DEF Auth!Accepted, Provided, b
<1>4. CASE a.provider = "github"
  BY <1>2, <1>4 DEF Auth!Accepted, b
<1> QED
  BY <1>1, <1>3, <1>4 DEF Provided, Providers

(* A scalar is a string when it is quoted or a word.                       *)
LEMMA WrittenLoads ==
  ASSUME NEW a, Complete(a), NEW file, file = RenderConfigYaml(a)
  PROVE  Loads(file) <=> UnquotedAreWords(a)
<1>1. /\ file.region = Plain(a.region) /\ file.org = Plain(a.owner)
      /\ file.repo = Plain(a.repo) /\ file.users = RenderAuthBlock(a).users
      /\ file.domain = IF a.domain = None THEN None ELSE Plain(a.domain)
  BY DEF RenderConfigYaml
<1>2. \A x : Plain(x)[1] = "string" <=> Trimmed[x] \notin Numeric
  BY DEF Plain
<1>3. \A x \in file.users : x[1] = "string"
  BY <1>1 DEF RenderAuthBlock, EntraAuthBlock, GithubAuthBlock, Quoted
<1>4. (file.domain # None => file.domain[1] = "string")
        <=> (a.domain # None => Trimmed[a.domain] \notin Numeric)
  <2>1. \A x \in Domains : Plain(x) # None
    BY InitAssumption DEF Plain
  <2>2. a.domain \in Domains \cup {None}
    BY DEF Complete, Answers
  <2> QED
    BY <1>1, <1>2, <2>1, <2>2
<1>5. (\A x \in {file.region, file.org, file.repo} \cup file.users : x[1] = "string")
        <=> \A x \in {a.region, a.owner, a.repo} : Trimmed[x] \notin Numeric
  BY <1>1, <1>2, <1>3
<1> QED
  BY <1>4, <1>5, WrittenAccepted DEF Loads, UnquotedAreWords, AreWords

(* The guard finds a restriction exactly where the answers named someone.  *)
LEMMA WrittenRestricts ==
  ASSUME NEW a, Complete(a), NEW file, file = RenderConfigYaml(a)
  PROVE  Auth!Restricted(BrowserOf(file)) <=> SomeoneNamed(a)
<1>2. Provided(a) /\ Allowed(a) /\ a.users \subseteq Names /\ a.org \in {Org, None}
  BY DEF Complete, Answers
<1> DEFINE b == BrowserOf(file)
           auth == RenderAuthBlock(a)
<1>3. /\ b.provider = a.provider /\ b.ownerOnly = a.ownerOnly
      /\ b.allowedOrg = auth.allowedOrg /\ b.allowedTenants = auth.tenants
      /\ b.allowedUsers = {u[2] : u \in auth.users}
  BY WrittenBrowser
<1> HIDE DEF b, auth
<1>5. CASE a.provider = "entra-id"
  <2>1. b.allowedTenants = {a.tenant} /\ a.tenant # Blank /\ a.tenant # None
    BY <1>2, <1>3, <1>5, InitAssumption DEF auth, RenderAuthBlock, EntraAuthBlock, Allowed
  <2>2. Auth!IsSet(b, "allowedTenants")
    BY <2>1 DEF Auth!IsSet, Auth!Entries
  <2>3. "allowedTenants" \in Auth!RestrictionKeys(b.provider)
    BY <1>3, <1>5 DEF Auth!RestrictionKeys
  <2>4. Auth!Restricted(b)
    BY <2>2, <2>3 DEF Auth!Restricted
  <2> QED
    BY <2>4, <1>5 DEF SomeoneNamed, b
<1>6. CASE a.provider = "github"
  <2>1. b.allowedUsers = a.users /\ b.allowedOrg = a.org
    <3>1. auth.users = {Quoted(u) : u \in a.users} /\ auth.allowedOrg = a.org
      BY <1>6 DEF auth, RenderAuthBlock, GithubAuthBlock
    <3>2. \A u \in a.users : Quoted(u)[2] = u
      BY DEF Quoted
    <3>3. b.allowedUsers = {Quoted(u)[2] : u \in a.users}
      BY <1>3, <3>1
    <3> QED
      BY <1>3, <3>1, <3>2, <3>3
  <2>2. Auth!RestrictionKeys(b.provider) = {"allowedOrg", "allowedUsers", "ownerOnly"}
    BY <1>3, <1>6 DEF Auth!RestrictionKeys
  <2>3. Auth!IsSet(b, "allowedUsers") <=> a.users # {}
    <3>1. Blank \notin a.users
      BY <1>2, InitAssumption
    <3>2. Auth!IsSet(b, "allowedUsers") <=> a.users \ {Blank} # {}
      BY <2>1 DEF Auth!IsSet, Auth!Entries
    <3> QED
      BY <3>1, <3>2
  <2>4. Auth!IsSet(b, "allowedOrg") <=> a.org # None
    <3>1. a.org # Blank
      BY <1>2, InitAssumption
    <3> QED
      BY <2>1, <3>1 DEF Auth!IsSet
  <2>5. Auth!IsSet(b, "ownerOnly") <=> a.ownerOnly
    BY <1>3 DEF Auth!IsSet
  <2>6. Auth!Restricted(b) <=>
          \/ Auth!IsSet(b, "allowedOrg") \/ Auth!IsSet(b, "allowedUsers")
          \/ Auth!IsSet(b, "ownerOnly")
    BY <2>2 DEF Auth!Restricted
  <2> QED
    BY <2>3, <2>4, <2>5, <2>6, <1>6 DEF SomeoneNamed, b
<1> QED
  BY <1>2, <1>5, <1>6 DEF Provided, Providers

(* The sidecar lets in the users that the answers named.                   *)
LEMMA WrittenLetsIn ==
  ASSUME NEW a, Complete(a), NEW file, file = RenderConfigYaml(a)
  PROVE  LetsIn(Auth!SharedSidecar(BrowserOf(file), None), a)
<1>1. Provided(a) /\ Allowed(a) /\ a.users \subseteq Names /\ a.org \in {Org, None}
  BY DEF Complete, Answers
<1> DEFINE b == BrowserOf(file)
           auth == RenderAuthBlock(a)
           s == Auth!SharedSidecar(b, None)
<1>2. /\ b.provider = a.provider /\ b.issuerUrl = auth.issuerUrl
      /\ b.allowedOrg = auth.allowedOrg /\ b.allowedTenants = auth.tenants
      /\ b.allowedUsers = {u[2] : u \in auth.users} /\ b.allowedGroups = auth.groups
  BY WrittenBrowser
<1> HIDE DEF b, auth
<1>3. CASE a.provider = "entra-id"
  <2>1. /\ b.issuerUrl = "tenant" /\ b.allowedTenants = {a.tenant}
        /\ b.allowedGroups = a.groups
    BY <1>2, <1>3 DEF auth, RenderAuthBlock, EntraAuthBlock
  <2>2. a.tenant # Blank
    BY <1>1, <1>3, InitAssumption DEF Allowed
  <2>3. /\ s.tenants = {a.tenant} /\ s.allowedGroups = a.groups /\ ~s.skipIssuerCheck
    BY <1>2, <1>3, <2>1, <2>2 DEF Auth!SharedSidecar, Auth!MultiTenant, Auth!Entries
  <2> QED
    BY <1>3, <2>3 DEF LetsIn, b
<1>4. CASE a.provider = "github"
  <2>1. b.allowedUsers = a.users /\ b.allowedOrg = a.org
    <3>1. auth.users = {Quoted(u) : u \in a.users} /\ auth.allowedOrg = a.org
      BY <1>4 DEF auth, RenderAuthBlock, GithubAuthBlock
    <3>2. \A u \in a.users : Quoted(u)[2] = u
      BY DEF Quoted
    <3>3. b.allowedUsers = {Quoted(u)[2] : u \in a.users}
      BY <1>2, <3>1
    <3> QED
      BY <1>2, <3>1, <3>2, <3>3
  <2>2. s.provider = "github" /\ s.githubUsers = a.users /\ s.githubOrg = a.org
    BY <1>2, <1>4, <2>1 DEF Auth!SharedSidecar
  <2> HIDE DEF s
  <2>3. None # Org
    BY InitAssumption
  <2>4. ASSUME a.users # {} \/ a.org # None, NEW u \in Names
        PROVE  Auth!PassesSignIn(s, u) <=> Named(a, u)
    BY <1>1, <2>2, <2>3, <2>4 DEF Auth!PassesSignIn, Named
  <2> QED
    BY <1>4, <2>4 DEF LetsIn, s, b
<1> QED
  BY <1>1, <1>3, <1>4 DEF Provided, Providers

-----------------------------------------------------------------------------
(* The flags.                                                              *)

(* Flags that are valid are complete answers.                              *)
LEMMA FlagsAreComplete ==
  ASSUME NEW f \in FlagSets, FlagsValid(f)
  PROVE  Complete(ParseInitFlags(f))
<1> DEFINE a == ParseInitFlags(f)
<1>1. f \in Flags
  BY InitAssumption
<1>2. /\ a.region = Trimmed[OrElse(f.region, DefaultRegion)]
      /\ a.owner = Trimmed[f.owner] /\ a.repo = Trimmed[f.repo]
      /\ a.provider = Provider(f) /\ a.strategy = Strategy(f) /\ a.zone = f.zone
      /\ a.domain = (IF f.domain = None THEN None ELSE Trimmed[f.domain]) /\ a.users = Entries(OrElse(f.users, {})) /\ a.org = f.org
      /\ a.tenant = f.tenant /\ a.groups = OrElse(f.groups, {}) /\ a.ownerOnly = f.ownerOnly
  BY DEF ParseInitFlags
<1>3. a.region \in Regions
  BY <1>1, <1>2, InitAssumption DEF Flags, FlagsValid, OrElse
<1>4. a.owner \in Owners /\ a.repo \in Owners
  BY <1>1, <1>2, InitAssumption DEF Flags, FlagsValid, Given
<1>5. /\ a.provider \in Providers /\ a.strategy \in {"byo", "alb-default"}
      /\ a.provider = "entra-id" => a.strategy = "byo"
  BY <1>1, <1>2 DEF Flags, FlagsValid, DomainFlagsValid, Strategy, OrElse
<1>6. IF a.strategy = "byo" THEN a.zone \in Zones /\ a.domain \in Domains
      ELSE a.zone = None /\ a.domain = None
  BY <1>1, <1>2, InitAssumption DEF Flags, FlagsValid, DomainFlagsValid, Given
<1>7. IF a.provider = "github"
      THEN a.tenant = None /\ f.groups = None /\ a.org \in {Org, None}
      ELSE a.tenant \in Tenants /\ f.users = None /\ a.org = None
  BY <1>1, <1>2 DEF Flags, FlagsValid, AuthFlagsValid, Given
<1>8. a.users \subseteq Names /\ (f.users = None => a.users = {})
  <2>1. OrElse(f.users, {}) \subseteq Names \cup {Blank}
    BY <1>1 DEF Flags, OrElse
  <2> QED
    BY <2>1, <1>2 DEF Entries, OrElse
<1>9. a.groups \subseteq Groups /\ (f.groups = None => a.groups = {})
  BY <1>1, <1>2 DEF Flags, OrElse
<1>10. a \in Answers
  <2>1. a.ownerOnly \in BOOLEAN
    BY <1>1, <1>2 DEF Flags
  <2>2. /\ a.region \in Regions \cup {None} /\ a.owner \in Owners \cup {None}
        /\ a.repo \in Owners \cup {None} /\ a.provider \in Providers \cup {None}
        /\ a.strategy \in {"byo", "alb-default", None} /\ a.zone \in Zones \cup {None}
        /\ a.domain \in Domains \cup {None} /\ a.users \in SUBSET Names
        /\ a.org \in {Org, None} /\ a.tenant \in Tenants \cup {None}
        /\ a.groups \in SUBSET Groups
    BY <1>3, <1>4, <1>5, <1>6, <1>7, <1>8, <1>9, InitAssumption
  <2> QED
    BY <2>1, <2>2, <1>2 DEF Answers, ParseInitFlags
<1> HIDE DEF a
<1>11. Allowed(a)
  BY <1>7, <1>8, <1>9 DEF Allowed
<1> QED
  BY <1>3, <1>4, <1>5, <1>6, <1>10, <1>11 DEF Complete, Accounted, Provided, Located, a

(* The flags for complete answers are valid if the zone's ID is, and give  *)
(* them back without the white space around them, which YAML does not read.*)
LEMMA AnswersAreFlags ==
  ASSUME NEW a, Complete(a)
  PROVE  LET f == FlagsOf(a) IN
         /\ FlagsValid(f) <=> a.zone \in ValidIds \cup {None}
         /\ FlagsValid(f) => RenderConfigYaml(ParseInitFlags(f)) = RenderConfigYaml(a)
<1> DEFINE f == FlagsOf(a)
<1>1. a \in Answers /\ Accounted(a) /\ Provided(a) /\ Located(a) /\ Allowed(a)
  BY DEF Complete
<1>2. /\ f.region = Unless(a.region, DefaultRegion) /\ f.owner = a.owner /\ f.repo = a.repo
      /\ f.provider = Unless(a.provider, "github")
      /\ f.strategy = Unless(a.strategy, IF a.provider = "github" THEN "alb-default" ELSE "byo")
      /\ f.zone = a.zone /\ f.domain = a.domain /\ f.users = Unless(a.users, {})
      /\ f.org = a.org /\ f.tenant = a.tenant /\ f.groups = Unless(a.groups, {})
      /\ f.ownerOnly = a.ownerOnly
  BY DEF FlagsOf
<1>3. OrElse(f.region, DefaultRegion) = a.region /\ f.region # Blank
  BY <1>1, <1>2, InitAssumption DEF Accounted, Unless, OrElse
<1>4. Given(f.owner) /\ Given(f.repo)
  BY <1>1, <1>2, InitAssumption DEF Accounted, Given
<1>5. Provider(f) = a.provider
  BY <1>1, <1>2, InitAssumption DEF Provided, Providers, Provider, Unless, OrElse
<1>6. Strategy(f) = a.strategy
  BY <1>1, <1>2, <1>5, InitAssumption DEF Provided, Providers, Strategy, Unless, OrElse
<1>7. DomainFlagsValid(f) <=> a.zone \in ValidIds \cup {None}
  BY <1>1, <1>2, <1>5, <1>6, InitAssumption DEF Provided, Located, DomainFlagsValid, Given
<1>8. a.users \subseteq Names /\ a.groups \subseteq Groups /\ a.org \in {Org, None}
  BY <1>1 DEF Answers
<1>9. OrElse(f.users, {}) = a.users /\ (a.users = {} => f.users = None)
  BY <1>2, <1>8, InitAssumption DEF Unless, OrElse
<1>10. OrElse(f.groups, {}) = a.groups /\ (a.groups = {} => f.groups = None)
  BY <1>2, <1>8, InitAssumption DEF Unless, OrElse
<1>11. Entries(a.users) = a.users
  BY <1>8, InitAssumption DEF Entries
<1>12. AuthFlagsValid(f)
  <2>1. CASE a.provider = "github"
    <3>1. f.tenant = None /\ f.groups = None /\ f.org # Blank
      BY <2>1, <1>1, <1>2, <1>8, <1>10, InitAssumption DEF Allowed
    <3>2. f.users # None => Entries(f.users) # {}
      BY <1>2, <1>11 DEF Unless
    <3> QED
      BY <2>1, <3>1, <3>2, <1>5 DEF AuthFlagsValid
  <2>2. CASE a.provider = "entra-id"
    BY <2>2, <1>1, <1>2, <1>5, <1>9, InitAssumption DEF Allowed, AuthFlagsValid, Given
  <2> QED
    BY <2>1, <2>2, <1>1 DEF Provided, Providers
<1>13. FlagsValid(f) <=> a.zone \in ValidIds \cup {None}
  BY <1>1, <1>3, <1>4, <1>5, <1>7, <1>12 DEF FlagsValid, Provided
<1> HIDE DEF f
<1> DEFINE b == ParseInitFlags(f)
<1>14. /\ b.region = Trimmed[a.region] /\ b.owner = Trimmed[a.owner]
       /\ b.repo = Trimmed[a.repo] /\ b.provider = a.provider /\ b.strategy = a.strategy
       /\ b.zone = a.zone /\ b.domain = (IF a.domain = None THEN None ELSE Trimmed[a.domain])
       /\ b.users = a.users /\ b.org = a.org /\ b.tenant = a.tenant
       /\ b.groups = a.groups /\ b.ownerOnly = a.ownerOnly
  BY <1>2, <1>3, <1>5, <1>6, <1>9, <1>10, <1>11 DEF ParseInitFlags
<1> HIDE DEF b
<1>15. \A texts \in {Regions, Owners, Domains} : \A x \in texts :
         Plain(Trimmed[x]) = Plain(x) /\ Trimmed[x] # None
  BY InitAssumption DEF Plain
<1>16. /\ Plain(b.region) = Plain(a.region) /\ Plain(b.owner) = Plain(a.owner)
       /\ Plain(b.repo) = Plain(a.repo)
  BY <1>1, <1>14, <1>15 DEF Accounted
<1>17. (IF b.domain = None THEN None ELSE Plain(b.domain))
         = IF a.domain = None THEN None ELSE Plain(a.domain)
  <2>1. a.domain \in Domains \cup {None}
    BY <1>1 DEF Answers
  <2> QED
    BY <2>1, <1>14, <1>15
<1>18. RenderAuthBlock(b) = RenderAuthBlock(a)
  BY <1>14 DEF RenderAuthBlock, EntraAuthBlock, GithubAuthBlock
<1>19. RenderConfigYaml(b) = RenderConfigYaml(a)
  BY <1>14, <1>16, <1>17, <1>18 DEF RenderConfigYaml
<1> QED
  BY <1>13, <1>19 DEF f, b

-----------------------------------------------------------------------------
(* The invariant.                                                          *)

LEMMA InitStart == ASSUME Init PROVE InitInv
<1>1. \A c \in Cmds : cmd[c].step = "none" /\ cmd[c].a = NoAnswers
  BY DEF Init
<1>2. NoAnswers \in Answers
  BY DEF NoAnswers, Answers
<1>3. \A c \in Cmds : Fits(cmd[c].step, cmd[c].a)
  BY <1>1, <1>2 DEF Fits, Steps, WrittenSteps
<1>4. cmd = [c \in Cmds |-> [step |-> cmd[c].step, a |-> cmd[c].a]]
  BY DEF Init
<1>5. ~ByInit
  BY DEF Init, ByInit
<1> QED
  BY <1>2, <1>3, <1>4, <1>5 DEF Init, InitInv

(* A command goes to another step with answers that fit it; the rest of    *)
(* the invariant is about the files.                                       *)
LEMMA Goes ==
  ASSUME InitInv, NEW c \in Cmds, NEW step, NEW a, Fits(step, a),
         cmd' = [cmd EXCEPT ![c] = [step |-> step, a |-> a]]
  PROVE  /\ \A d \in Cmds : Fits(cmd'[d].step, cmd'[d].a)
         /\ DOMAIN cmd' = Cmds
         /\ cmd' = [d \in Cmds |-> [step |-> cmd'[d].step, a |-> cmd'[d].a]]
<1>1. DOMAIN cmd = Cmds /\ \A d \in Cmds : Fits(cmd[d].step, cmd[d].a)
  BY DEF InitInv
<1>2. cmd = [d \in Cmds |-> [step |-> cmd[d].step, a |-> cmd[d].a]]
  BY DEF InitInv
<1>3. \A d \in Cmds : cmd[d] = [step |-> cmd[d].step, a |-> cmd[d].a]
  BY <1>2
<1>4. DOMAIN cmd' = Cmds /\ \A d \in Cmds : cmd'[d] = IF d = c THEN [step |-> step, a |-> a]
                                                      ELSE cmd[d]
  BY <1>1
<1>5. \A d \in Cmds : cmd'[d] = [step |-> cmd'[d].step, a |-> cmd'[d].a]
  <2>1. TAKE d \in Cmds
  <2>2. CASE d = c
    BY <1>4, <2>2
  <2>3. CASE d # c
    BY <1>3, <1>4, <2>3
  <2> QED
    BY <2>2, <2>3
<1>6. \A d \in Cmds : Fits(cmd'[d].step, cmd'[d].a)
  BY <1>1, <1>4
<1>7. cmd' = [d \in Cmds |-> cmd'[d]]
  BY <1>4
<1>8. [d \in Cmds |-> cmd'[d]] = [d \in Cmds |-> [step |-> cmd'[d].step, a |-> cmd'[d].a]]
  BY <1>5
<1> QED
  BY <1>4, <1>6, <1>7, <1>8

(* What holds of the files when they are left alone.                       *)
LEMMA FilesStay ==
  ASSUME InitInv, UNCHANGED <<config, answers, envrc, stub, state, ghRegion>>, agreed' = {},
         NEW c \in Cmds, NEW step, NEW a, Fits(step, a),
         cmd' = [cmd EXCEPT ![c] = [step |-> step, a |-> a]]
  PROVE  InitInv'
<1>1. /\ \A d \in Cmds : Fits(cmd'[d].step, cmd'[d].a)
      /\ DOMAIN cmd' = Cmds
      /\ cmd' = [d \in Cmds |-> [step |-> cmd'[d].step, a |-> cmd'[d].a]]
  BY Goes
<1>2. ByInit' => Written'
  BY DEF InitInv, ByInit, Written
<1> QED
  BY <1>1, <1>2 DEF InitInv

-----------------------------------------------------------------------------
(* The prompts.                                                            *)

LEMMA PromptsKeep ==
  ASSUME InitInv, NEW c \in Cmds, Prompts(c)
  PROVE  InitInv'
<1> DEFINE a == cmd[c].a
<1>1. Fits(cmd[c].step, a) /\ a \in Answers
  BY DEF InitInv, Fits
<1>2. NoAnswers \in Answers
  BY DEF NoAnswers, Answers
<1> HIDE DEF a
<1>3. CASE StartsPrompting(c)
  <2>1. Fits("account", NoAnswers)
    BY <1>2 DEF Fits, Steps, WrittenSteps
  <2> QED
    BY <1>3, <2>1, FilesStay DEF StartsPrompting, Answer
<1>4. CASE AsksAccount(c)
  <2>1. PICK account \in Accounts :
          Answer(c, "account", "provider",
                 [a EXCEPT !.region = account[1], !.owner = account[2], !.repo = account[3]])
    BY <1>4 DEF AsksAccount, a
  <2> DEFINE b == [NoAnswers EXCEPT !.region = account[1], !.owner = account[2],
                                    !.repo = account[3]]
  <2>2. a = NoAnswers
    BY <1>1, <2>1 DEF Answer, Fits, a
  <2>3. account[1] \in Regions /\ account[2] \in Owners /\ account[3] \in Owners
    BY InitAssumption
  <2>4. b \in Answers
    BY <2>3, <1>2 DEF Answers
  <2>5. Fits("provider", b)
    BY <2>3, <2>4 DEF Fits, Steps, WrittenSteps, Accounted, NoAllowlist, NoAnswers
  <2> QED
    BY <2>1, <2>2, <2>5, FilesStay DEF Answer
<1>5. CASE AsksProvider(c)
  <2>1. PICK provider \in Providers, strategy \in {"byo", "alb-default"} :
          /\ provider = "entra-id" => strategy = "byo"
          /\ Answer(c, "provider", "domain",
                    [a EXCEPT !.provider = provider, !.strategy = strategy])
    BY <1>5 DEF AsksProvider, a
  <2> DEFINE b == [a EXCEPT !.provider = provider, !.strategy = strategy]
  <2>2. Fits("provider", a)
    BY <1>1, <2>1 DEF Answer, a
  <2>3. b \in Answers
    BY <1>1, <2>1 DEF Answers
  <2>4. /\ b.region = a.region /\ b.owner = a.owner /\ b.repo = a.repo
        /\ b.provider = provider /\ b.strategy = strategy /\ b.zone = a.zone
        /\ b.domain = a.domain /\ b.users = a.users /\ b.org = a.org
        /\ b.tenant = a.tenant /\ b.groups = a.groups
    BY <1>1 DEF Answers
  <2> HIDE DEF b
  <2>5. Fits("domain", b)
    BY <2>1, <2>2, <2>3, <2>4
    DEF Fits, Steps, WrittenSteps, Accounted, Provided, NoAllowlist
  <2> QED
    BY <2>1, <2>5, FilesStay DEF Answer, b
<1>6. CASE AsksDomain(c)
  <2>1. CASE a.strategy = "byo"
    <3>1. PICK zone \in Zones, domain \in Domains :
            Answer(c, "domain", "allowlist",
                   [a EXCEPT !.zone = zone, !.domain = domain])
      BY <1>6, <2>1 DEF AsksDomain, a
    <3> DEFINE b == [a EXCEPT !.zone = zone, !.domain = domain]
    <3>2. Fits("domain", a)
      BY <1>1, <3>1 DEF Answer, a
    <3>3. b \in Answers
      BY <1>1 DEF Answers
    <3>4. /\ b.region = a.region /\ b.owner = a.owner /\ b.repo = a.repo
          /\ b.provider = a.provider /\ b.strategy = a.strategy /\ b.users = a.users
          /\ b.org = a.org /\ b.tenant = a.tenant /\ b.groups = a.groups
          /\ b.zone \in Zones /\ b.domain \in Domains
      BY <1>1 DEF Answers
    <3> HIDE DEF b
    <3>5. Fits("allowlist", b)
      BY <2>1, <3>2, <3>3, <3>4
      DEF Fits, Steps, WrittenSteps, Accounted, Provided, Located, NoAllowlist
    <3> QED
      BY <3>1, <3>5, FilesStay DEF Answer, b
  <2>2. CASE a.strategy # "byo"
    <3>1. Answer(c, "domain", "allowlist", a)
      BY <1>6, <2>2 DEF AsksDomain, a
    <3>2. Fits("domain", a)
      BY <1>1, <3>1 DEF Answer, a
    <3>3. Fits("allowlist", a)
      BY <2>2, <3>2 DEF Fits, Steps, WrittenSteps, Located
    <3> QED
      BY <3>1, <3>3, FilesStay DEF Answer
  <2> QED
    BY <2>1, <2>2
<1>7. CASE AsksAllowlist(c)
  <2>1. CASE a.provider = "github"
    <3>1. PICK kind \in SUBSET {"user", "org"}, users \in UserLists :
            Answer(c, "allowlist", "rest",
                   [a EXCEPT !.users = Entries(users),
                             !.org = IF "org" \in kind THEN Org ELSE None])
      BY <1>7, <2>1 DEF AsksAllowlist, a
    <3> DEFINE b == [a EXCEPT !.users = Entries(users),
                              !.org = IF "org" \in kind THEN Org ELSE None]
    <3>2. Fits("allowlist", a)
      BY <1>1, <3>1 DEF Answer, a
    <3>3. Entries(users) \in SUBSET Names
      BY InitAssumption DEF Entries
    <3>4. b \in Answers
      BY <1>1, <3>3 DEF Answers
    <3>5. /\ b.region = a.region /\ b.owner = a.owner /\ b.repo = a.repo
          /\ b.provider = a.provider /\ b.strategy = a.strategy /\ b.zone = a.zone
          /\ b.domain = a.domain /\ b.tenant = a.tenant /\ b.groups = a.groups
      BY <1>1 DEF Answers
    <3> HIDE DEF b
    <3>6. Fits("rest", b)
      BY <2>1, <3>2, <3>4, <3>5
      DEF Fits, Steps, WrittenSteps, Accounted, Provided, Located, NoAllowlist, Allowed
    <3> QED
      BY <3>1, <3>6, FilesStay DEF Answer, b
  <2>2. CASE a.provider # "github"
    <3>1. PICK tenant \in Tenants, groups \in SUBSET Groups :
            Answer(c, "allowlist", "rest", [a EXCEPT !.tenant = tenant, !.groups = groups])
      BY <1>7, <2>2 DEF AsksAllowlist, a
    <3> DEFINE b == [a EXCEPT !.tenant = tenant, !.groups = groups]
    <3>2. Fits("allowlist", a)
      BY <1>1, <3>1 DEF Answer, a
    <3>3. b \in Answers
      BY <1>1 DEF Answers
    <3>4. /\ b.region = a.region /\ b.owner = a.owner /\ b.repo = a.repo
          /\ b.provider = a.provider /\ b.strategy = a.strategy /\ b.zone = a.zone
          /\ b.domain = a.domain /\ b.users = a.users /\ b.org = a.org
          /\ b.tenant = tenant
      BY <1>1 DEF Answers
    <3> HIDE DEF b
    <3>5. Fits("rest", b)
      BY <2>2, <3>2, <3>3, <3>4
      DEF Fits, Steps, WrittenSteps, Accounted, Provided, Located, NoAllowlist, Allowed
    <3> QED
      BY <3>1, <3>5, FilesStay DEF Answer, b
  <2> QED
    BY <2>1, <2>2
<1>8. CASE AsksRest(c)
  <2>1. PICK ownerOnly \in BOOLEAN :
          Answer(c, "rest", "config", [a EXCEPT !.ownerOnly = ownerOnly])
    BY <1>8 DEF AsksRest, a
  <2> DEFINE b == [a EXCEPT !.ownerOnly = ownerOnly]
  <2>2. Fits("rest", a)
    BY <1>1, <2>1 DEF Answer, a
  <2>3. b \in Answers
    BY <1>1 DEF Answers
  <2>4. /\ b.region = a.region /\ b.owner = a.owner /\ b.repo = a.repo
        /\ b.provider = a.provider /\ b.strategy = a.strategy /\ b.zone = a.zone
        /\ b.domain = a.domain /\ b.users = a.users /\ b.org = a.org
        /\ b.tenant = a.tenant /\ b.groups = a.groups
    BY <1>1 DEF Answers
  <2> HIDE DEF b
  <2>5. Fits("config", b)
    BY <2>2, <2>3, <2>4
    DEF Fits, Steps, WrittenSteps, Accounted, Provided, Located, Allowed
  <2> QED
    BY <2>1, <2>5, FilesStay DEF Answer, b
<1>9. CASE CancelsPrompt(c)
  <2>1. Fits("stopped", NoAnswers)
    BY <1>2 DEF Fits, Steps, WrittenSteps
  <2> QED
    BY <1>9, <2>1, FilesStay DEF CancelsPrompt, Answer
<1> QED
  BY <1>3, <1>4, <1>5, <1>6, <1>7, <1>8, <1>9 DEF Prompts

-----------------------------------------------------------------------------
(* What is written.                                                        *)

LEMMA WritesKeep ==
  ASSUME InitInv, NEW c \in Cmds, Writes(c)
  PROVE  InitInv'
<1> DEFINE a == cmd[c].a
<1>1. Fits(cmd[c].step, a) /\ a \in Answers
  BY DEF InitInv, Fits
<1>2. NoAnswers \in Answers
  BY DEF NoAnswers, Answers
<1>3. Fits("done", NoAnswers) /\ Fits("stopped", NoAnswers)
  BY <1>2 DEF Fits, Steps, WrittenSteps
<1>4. cmd[c].step \in WrittenSteps => a.region \in Regions /\ \A s \in WrittenSteps : Fits(s, a)
  BY <1>1 DEF Fits, Steps, WrittenSteps
<1>5. cmd[c] = [step |-> cmd[c].step, a |-> a]
  BY DEF InitInv
(* A step of main leaves the answers alone.                                *)
<1>6. ASSUME NEW s, NEW t \in WrittenSteps, s \in WrittenSteps, GoesOn(c, s, t)
      PROVE  /\ \A d \in Cmds : Fits(cmd'[d].step, cmd'[d].a)
             /\ DOMAIN cmd' = Cmds
             /\ cmd' = [d \in Cmds |-> [step |-> cmd'[d].step, a |-> cmd'[d].a]]
             /\ a.region \in Regions
  <2>1. a.region \in Regions /\ Fits(t, a)
    BY <1>4, <1>6 DEF GoesOn
  <2>2. cmd' = [cmd EXCEPT ![c] = [cmd[c] EXCEPT !.step = t]]
    BY <1>6 DEF GoesOn
  <2>3. [cmd[c] EXCEPT !.step = t] = [step |-> t, a |-> a]
    <3> DEFINE r == [step |-> cmd[c].step, a |-> a]
    <3>1. [r EXCEPT !.step = t] = [step |-> t, a |-> a]
      OBVIOUS
    <3> QED
      BY <1>5, <3>1
  <2> HIDE DEF a
  <2>4. cmd' = [cmd EXCEPT ![c] = [step |-> t, a |-> a]]
    BY <2>2, <2>3
  <2> QED
    BY <2>1, <2>4, Goes
<1> HIDE DEF a
<1>7. CASE WritesConfig(c)
  <2> DEFINE b == [NoAnswers EXCEPT !.region = a.region]
  <2>1. /\ cmd' = [cmd EXCEPT ![c] = [step |-> "state", a |-> b]] /\ cmd[c].step = "config"
    BY <1>7 DEF WritesConfig, a
  <2>2. Complete(a)
    BY <1>1, <2>1 DEF Fits, Complete
  <2>3. Fits("state", b)
    <3>1. a.region \in Regions
      BY <2>2 DEF Complete, Accounted
    <3>2. b \in Answers /\ b.region = a.region
      BY <3>1, <1>2 DEF Answers, NoAnswers
    <3> QED
      BY <3>1, <3>2 DEF Fits, Steps, WrittenSteps
  <2> HIDE DEF b
  <2>4. /\ \A d \in Cmds : Fits(cmd'[d].step, cmd'[d].a)
        /\ DOMAIN cmd' = Cmds
        /\ cmd' = [d \in Cmds |-> [step |-> cmd'[d].step, a |-> cmd'[d].a]]
    BY <2>1, <2>3, Goes
  <2>5. UNCHANGED <<envrc, stub, state, ghRegion>> /\ agreed' \subseteq Files
    BY <1>7 DEF WritesConfig, MaybeOverwrite, Files
  <2>6. config' \in Config \cup {UserFile, None} /\ answers' \in Answers /\ (ByInit' => Written')
    <3>1. CASE config' = RenderConfigYaml(cmd[c].a) /\ answers' = cmd[c].a
      <4>1. config' = RenderConfigYaml(a) /\ answers' = a
        BY <3>1 DEF a
      <4>2. config' \in Config
        BY <4>1, <2>2, RenderFits
      <4>3. Written'
        BY <4>1, <2>2 DEF Written
      <4> QED
        BY <4>1, <4>2, <4>3, <1>1
    <3>2. CASE UNCHANGED <<config, answers>>
      BY <3>2 DEF InitInv, ByInit, Written
    <3> QED
      BY <3>1, <3>2, <1>7 DEF WritesConfig, MaybeOverwrite
  <2> QED
    BY <2>4, <2>5, <2>6 DEF InitInv
<1>8. CASE WritesState(c)
  <2>1. GoesOn(c, "state", "envrc")
    BY <1>8 DEF WritesState
  <2>2. /\ \A d \in Cmds : Fits(cmd'[d].step, cmd'[d].a)
        /\ DOMAIN cmd' = Cmds
        /\ cmd' = [d \in Cmds |-> [step |-> cmd'[d].step, a |-> cmd'[d].a]]
    BY <2>1, <1>6 DEF WrittenSteps
  <2>3. /\ UNCHANGED <<config, answers, envrc, stub, ghRegion>> /\ agreed' = {}
        /\ state' \in {"head", None}
    BY <1>8 DEF WritesState, InitInv
  <2>4. ByInit' => Written'
    BY <2>3 DEF InitInv, ByInit, Written
  <2> QED
    BY <2>2, <2>3, <2>4 DEF InitInv
<1>9. CASE WritesEnvrc(c)
  <2>1. GoesOn(c, "envrc", "stub")
    BY <1>9 DEF WritesEnvrc
  <2>2. /\ \A d \in Cmds : Fits(cmd'[d].step, cmd'[d].a)
        /\ DOMAIN cmd' = Cmds
        /\ cmd' = [d \in Cmds |-> [step |-> cmd'[d].step, a |-> cmd'[d].a]]
        /\ a.region \in Regions
    BY <2>1, <1>6 DEF WrittenSteps
  <2>3. UNCHANGED <<config, answers, stub, state, ghRegion>> /\ agreed' \subseteq Files
    BY <1>9 DEF WritesEnvrc, MaybeOverwrite, Files
  <2>4. envrc' \in [by : {"init"}, region : Regions] \cup {UserFile, None}
    <3>1. CASE envrc' = [by |-> "init", region |-> cmd[c].a.region]
      BY <3>1, <2>2 DEF a
    <3>2. CASE envrc' = envrc
      BY <3>2 DEF InitInv
    <3> QED
      BY <3>1, <3>2, <1>9 DEF WritesEnvrc, MaybeOverwrite
  <2>5. ByInit' => Written'
    BY <2>3 DEF InitInv, ByInit, Written
  <2> QED
    BY <2>2, <2>3, <2>4, <2>5 DEF InitInv
<1>10. CASE WritesStub(c)
  <2>1. GoesOn(c, "stub", "push")
    BY <1>10 DEF WritesStub
  <2>2. /\ \A d \in Cmds : Fits(cmd'[d].step, cmd'[d].a)
        /\ DOMAIN cmd' = Cmds
        /\ cmd' = [d \in Cmds |-> [step |-> cmd'[d].step, a |-> cmd'[d].a]]
    BY <2>1, <1>6 DEF WrittenSteps
  <2>3. /\ UNCHANGED <<config, answers, envrc, state, ghRegion>> /\ agreed' = {}
        /\ stub' \in {"init", "user", None}
    BY <1>10 DEF WritesStub, InitInv
  <2>4. ByInit' => Written'
    BY <2>3 DEF InitInv, ByInit, Written
  <2> QED
    BY <2>2, <2>3, <2>4 DEF InitInv
<1>11. CASE PushesVariables(c)
  <2>1. /\ cmd' = [cmd EXCEPT ![c] = [step |-> "done", a |-> NoAnswers]]
        /\ cmd[c].step \in WrittenSteps
    BY <1>11 DEF PushesVariables, WrittenSteps
  <2>2. /\ \A d \in Cmds : Fits(cmd'[d].step, cmd'[d].a)
        /\ DOMAIN cmd' = Cmds
        /\ cmd' = [d \in Cmds |-> [step |-> cmd'[d].step, a |-> cmd'[d].a]]
    BY <2>1, <1>3, Goes
  <2>3. cmd[c].a.region \in Regions
    BY <2>1, <1>4 DEF a
  <2>4. /\ UNCHANGED <<config, answers, envrc, stub, state>> /\ agreed' = {}
        /\ ghRegion' \in Regions \cup {None}
    BY <1>11, <2>3 DEF PushesVariables, InitInv
  <2>5. ByInit' => Written'
    BY <2>4 DEF InitInv, ByInit, Written
  <2> QED
    BY <2>2, <2>4, <2>5 DEF InitInv
<1>12. CASE Stops(c)
  BY <1>3, <1>12, FilesStay DEF Stops
<1> QED
  BY <1>7, <1>8, <1>9, <1>10, <1>11, <1>12 DEF Writes

(* The steps that no command with prompts takes.                           *)
LEMMA OthersKeep ==
  ASSUME InitInv, RunNonInteractive \/ UserEdits \/ UNCHANGED vars
  PROVE  InitInv'
<1>1. UNCHANGED cmd
  BY DEF RunNonInteractive, UserEdits, vars
<1>2. /\ \A c \in Cmds : Fits(cmd'[c].step, cmd'[c].a)
      /\ DOMAIN cmd' = Cmds
      /\ cmd' = [c \in Cmds |-> [step |-> cmd'[c].step, a |-> cmd'[c].a]]
  BY <1>1 DEF InitInv
<1>3. CASE RunNonInteractive
  <2>1. PICK f \in FlagSets, force \in BOOLEAN :
          /\ FlagsValid(f) /\ answers' = ParseInitFlags(f)
          /\ config' = RenderConfigYaml(ParseInitFlags(f))
          /\ agreed' = IF force THEN {"config"} ELSE {}
    BY <1>3 DEF RunNonInteractive
  <2>2. Complete(ParseInitFlags(f))
    BY <2>1, FlagsAreComplete
  <2>3. config' \in Config /\ answers' \in Answers
    BY <2>1, <2>2, RenderFits DEF Complete
  <2>4. UNCHANGED <<envrc, stub, state, ghRegion>> /\ agreed' \subseteq Files
    BY <1>3, <2>1 DEF RunNonInteractive, Files
  <2>5. ByInit' => Written'
    BY <2>1, <2>2 DEF Written
  <2> QED
    BY <1>2, <2>3, <2>4, <2>5 DEF InitInv
<1>4. CASE UserEdits
  <2>1. UNCHANGED <<state, ghRegion>> /\ agreed' = {}
    BY <1>4 DEF UserEdits
  <2>2. /\ config' \in Config \cup {UserFile, None} /\ answers' \in Answers /\ (ByInit' => Written')
        /\ envrc' \in [by : {"init"}, region : Regions] \cup {UserFile, None}
        /\ stub' \in {"init", "user", None}
    <3>1. CASE config' = UserFile /\ answers' = NoAnswers /\ UNCHANGED <<envrc, stub>>
      <4>1. ~ByInit' /\ NoAnswers \in Answers
        BY <3>1 DEF ByInit, UserFile, NoAnswers, Answers
      <4> QED
        BY <3>1, <4>1 DEF InitInv
    <3>2. CASE envrc' = UserFile /\ UNCHANGED <<config, answers, stub>>
      BY <3>2 DEF InitInv, ByInit, Written
    <3>3. CASE stub # None /\ stub' = "user" /\ UNCHANGED <<config, answers, envrc>>
      BY <3>3 DEF InitInv, ByInit, Written
    <3> QED
      BY <3>1, <3>2, <3>3, <1>4 DEF UserEdits
  <2> QED
    BY <1>2, <2>1, <2>2 DEF InitInv
<1>5. CASE UNCHANGED vars
  <2>1. ByInit' => Written'
    BY <1>5 DEF InitInv, ByInit, Written, vars
  <2> QED
    BY <1>2, <1>5, <2>1 DEF InitInv, vars
<1> QED
  BY <1>3, <1>4, <1>5

LEMMA InitInvHolds == Spec => []InitInv
<1>1. Init => InitInv
  BY InitStart
<1>2. InitInv /\ [Next]_vars => InitInv'
  <2>1. SUFFICES ASSUME InitInv, [Next]_vars PROVE InitInv'
    OBVIOUS
  <2> QED
    BY <2>1, PromptsKeep, WritesKeep, OthersKeep DEF Next
<1> QED
  BY <1>1, <1>2, PTL DEF Spec

-----------------------------------------------------------------------------

(* The files, the variables and the answers are of the modelled types, and *)
(* a command that writes has all its answers: a provider, a strategy that  *)
(* the provider allows, the zone and the apex domain together, and the     *)
(* allowlist of that provider only.                                        *)
THEOREM InitTypeCorrect == Spec => []TypeOK
<1>1. InitInv => TypeOK
  <2> SUFFICES ASSUME InitInv PROVE TypeOK
    OBVIOUS
  <2>1. cmd \in [Cmds -> [step : Steps, a : Answers]]
    <3>1. \A c \in Cmds : [step |-> cmd[c].step, a |-> cmd[c].a] \in [step : Steps, a : Answers]
      BY DEF InitInv, Fits
    <3> QED
      BY <3>1 DEF InitInv
  <2>2. ASSUME NEW c \in Cmds, cmd[c].step = "config",
               NEW a, a = cmd[c].a
        PROVE  /\ None \notin {a.region, a.owner, a.repo, a.provider, a.strategy}
               /\ (a.strategy = "byo") = (a.zone # None)
               /\ (a.domain # None) = (a.zone # None)
               /\ a.provider = "entra-id" =>
                    a.strategy = "byo" /\ a.tenant # None /\ a.users = {} /\ a.org = None
               /\ a.provider = "github" => a.tenant = None /\ a.groups = {}
    <3>1. Accounted(a) /\ Provided(a) /\ Located(a) /\ Allowed(a)
      BY <2>2 DEF InitInv, Fits
    <3>2. None \notin {a.region, a.owner, a.repo, a.provider, a.strategy}
      BY <3>1, InitAssumption DEF Accounted, Provided, Providers
    <3>3. a.strategy = "byo" <=> a.zone # None
      BY <3>1, InitAssumption DEF Located
    <3>4. a.domain # None <=> a.zone # None
      BY <3>1, InitAssumption DEF Located
    <3>5. a.provider = "entra-id" =>
            a.strategy = "byo" /\ a.tenant # None /\ a.users = {} /\ a.org = None
      BY <3>1, InitAssumption DEF Provided, Allowed
    <3>6. a.provider = "github" => a.tenant = None /\ a.groups = {}
      BY <3>1 DEF Allowed
    <3> QED
      BY <3>2, <3>3, <3>4, <3>5, <3>6
  <2>3. \A c \in Cmds : cmd[c].step \in {"state", "envrc", "stub", "push"} =>
          cmd[c].a.region # None
    BY InitAssumption DEF InitInv, Fits, WrittenSteps
  <2> QED
    BY <2>1, <2>2, <2>3 DEF InitInv, TypeOK
<1> QED
  BY <1>1, InitInvHolds, PTL

(* The config that init wrote (renderConfigYaml) loads exactly when YAML   *)
(* reads none of the region, owner, repo and base domain it was answered   *)
(* as a number.                                                            *)
THEOREM WrittenConfigsLoad == Spec => []WrittenConfigLoads
<1>1. InitInv => WrittenConfigLoads
  BY WrittenLoads DEF InitInv, WrittenConfigLoads, Written
<1> QED
  BY <1>1, InitInvHolds, PTL

(* The config that init wrote restricts sign-in, as the pod-manager counts *)
(* it, exactly when the answers named someone, and the sidecar lets in     *)
(* exactly the users, or the tenant and groups, that they named.           *)
THEOREM WrittenConfigsRestrict == Spec => []RestrictedAsAnswered
<1>1. ASSUME InitInv PROVE RestrictedAsAnswered
  <2>1. ByInit => Complete(answers) /\ config = RenderConfigYaml(answers)
    BY <1>1 DEF InitInv, Written
  <2>2. ByInit => BrowserOf(config).ownerOnly = answers.ownerOnly
    BY <2>1, WrittenBrowser
  <2> QED
    BY <2>1, <2>2, WrittenRestricts, WrittenLetsIn DEF RestrictedAsAnswered
<1> QED
  BY <1>1, InitInvHolds, PTL

(* What is answered at the prompts can be given as flags exactly when the  *)
(* flags accept the ID of its zone, and then writes the same config.       *)
THEOREM FlagsSayTheSame == Spec => []ModesAgree
<1>1. ASSUME InitInv PROVE ModesAgree
  <2>1. \A c \in Cmds : cmd[c].step = "config" => Complete(cmd[c].a)
    BY <1>1 DEF InitInv, Fits, Complete
  <2> QED
    BY <2>1, AnswersAreFlags DEF ModesAgree
<1> QED
  BY <1>1, InitInvHolds, PTL

(* A step of any command overwrites what the user edited only when it was  *)
(* told to.                                                                *)
THEOREM EditsAreKept == Spec => EditsAreNotOverwritten
<1>1. InitInv /\ [Next]_vars =>
        [/\ Edited(config) /\ ~Edited(config') => "config" \in agreed'
         /\ Edited(envrc) /\ ~Edited(envrc') => "envrc" \in agreed'
         /\ stub = "user" => stub' = "user"]_vars
  <2> SUFFICES ASSUME InitInv, Next
               PROVE  /\ Edited(config) /\ ~Edited(config') => "config" \in agreed'
                      /\ Edited(envrc) /\ ~Edited(envrc') => "envrc" \in agreed'
                      /\ stub = "user" => stub' = "user"
    OBVIOUS
(* What is edited again stays edited.                                      *)
  <2>1. CASE UserEdits
    <3>1. UserFile # None /\ UserFile.by = "user"
      BY InitAssumption DEF UserFile
    <3> QED
      BY <2>1, <3>1 DEF UserEdits, Edited
  <2>2. CASE RunNonInteractive
    BY <2>2 DEF RunNonInteractive, Edited
  <2>3. ASSUME NEW c \in Cmds, Prompts(c)
        PROVE  UNCHANGED <<config, envrc, stub>>
    BY <2>3 DEF Prompts, StartsPrompting, AsksAccount, AsksProvider, AsksDomain,
                AsksAllowlist, AsksRest, CancelsPrompt, Answer
  <2>4. ASSUME NEW c \in Cmds, Writes(c)
        PROVE  /\ Edited(config) /\ ~Edited(config') => "config" \in agreed'
               /\ Edited(envrc) /\ ~Edited(envrc') => "envrc" \in agreed'
               /\ stub = "user" => stub' = "user"
    <3>1. CASE WritesConfig(c)
      BY <3>1 DEF WritesConfig, MaybeOverwrite, Edited
    <3>2. CASE WritesEnvrc(c)
      BY <3>2 DEF WritesEnvrc, MaybeOverwrite, Edited
    <3>3. CASE WritesStub(c)
      <4>1. UNCHANGED <<config, envrc>> /\ (stub = "user" => stub' = "user")
        BY <3>3, InitAssumption DEF WritesStub
      <4> QED
        BY <4>1
    <3>4. CASE WritesState(c) \/ PushesVariables(c) \/ Stops(c)
      BY <3>4 DEF WritesState, PushesVariables, Stops
    <3> QED
      BY <2>4, <3>1, <3>2, <3>3, <3>4 DEF Writes
  <2> QED
    BY <2>1, <2>2, <2>3, <2>4 DEF Next
<1> QED
  BY <1>1, InitInvHolds, PTL DEF Spec, EditsAreNotOverwritten
=============================================================================
