------------------------- MODULE BrowserAuthProofs --------------------------
(* Theorems about BrowserAuth, for any users, groups, domains and tenants, *)
(* and for every config file that has the schema's types.                  *)
EXTENDS BrowserAuth, TLAPS

(* A pod's sidecar is what BuildBrowserAuthTaskParts makes of the deployed *)
(* config for an owner that the checks let through.                        *)
Built(p, owner) ==
  /\ OwnerValid(deployed, owner)
  /\ pods[p] = BuildBrowserAuthTaskParts(deployed, owner, p)
AuthInv ==
  /\ raw \in RawConfig /\ threw = {} /\ Running \subseteq BrowserPods
  /\ deployed \in Browser \cup {Undefined}
  /\ deployed # Undefined => Accepted(deployed, raw.strategy)
  /\ Running # {} => deployed # Undefined /\ Restricted(deployed)
  /\ \A p \in Running : \E owner \in Identity \cup {Undefined} : Built(p, owner)

-----------------------------------------------------------------------------
(* The schema and the builder.                                             *)

LEMMA ResolvedIsBrowser == ASSUME NEW r \in RawConfig PROVE Resolved(r) \in Browser
<1>1. CASE r.browser # Undefined
  BY <1>1 DEF Resolved, RawConfig
<1>2. CASE r.browser = Undefined
  <2>1. /\ r.oauthAllowedOrg \in {Undefined, Blank, Org}
        /\ Entries(r.oauthAllowedUsers) \in SUBSET (Users \cup {Blank})
    BY DEF RawConfig, Entries
  <2>2. DefaultBrowser \in Browser
    BY DEF DefaultBrowser, Browser, Providers, Issuers
  <2>3. [DefaultBrowser EXCEPT !.allowedOrg = r.oauthAllowedOrg,
                               !.allowedUsers = Entries(r.oauthAllowedUsers)] \in Browser
    BY <2>1, <2>2 DEF Browser
  <2> QED
    BY <1>2, <2>3 DEF Resolved
<1> QED
  BY <1>1, <1>2

(* The schema asks for all that the builder needs.                         *)
LEMMA AcceptedBuilds ==
  ASSUME NEW b \in Browser, NEW strategy, Accepted(b, strategy)
  PROVE  ~BuilderThrows(b)
BY DEF Browser, Providers, Accepted, BuilderThrows, RefineOidc, RefineEntraId,
       ParsesAsEntraIssuer, MultiTenant, Entries

(* The fields of a sidecar, with and without ownerOnly.                    *)
LEMMA SharedFields ==
  ASSUME NEW b \in Browser, NEW owner \in Identity \cup {Undefined}, NEW p \in BrowserPods,
         NEW s, s = BuildBrowserAuthTaskParts(b, owner, p), ~b.ownerOnly
  PROVE  /\ s \in Sidecar /\ s.provider = b.provider /\ s.emailsFile = {}
         /\ b.provider = "github" => s.githubOrg = b.allowedOrg /\ s.githubUsers = b.allowedUsers
         /\ b.provider # "github" =>
              /\ s.allowedGroups = b.allowedGroups
              /\ s.emailDomains = OrEveryone(Entries(b.allowedEmailDomains))
         /\ b.provider = "entra-id" => s.tenants = Entries(b.allowedTenants)
<1>1. s = SharedSidecar(b, owner)
  BY DEF BuildBrowserAuthTaskParts
<1>2. /\ b.provider \in Providers /\ b.allowedOrg \in {Undefined, Blank, Org}
      /\ b.allowedUsers \in SUBSET (Users \cup {Blank})
      /\ b.allowedGroups \in SUBSET Groups
      /\ OrEveryone(Entries(b.allowedEmailDomains)) \in SUBSET (Domains \cup {Everyone})
      /\ Entries(b.allowedTenants) \in SUBSET (Tenants \cup {Personal})
  BY DEF Browser, Entries, OrEveryone
<1>3. s \in Sidecar
  BY <1>1, <1>2 DEF SharedSidecar, Sidecar
<1> QED
  BY <1>1, <1>3 DEF SharedSidecar

LEMMA OwnerFields ==
  ASSUME NEW b \in Browser, NEW owner \in Identity, NEW p \in BrowserPods,
         NEW s, s = BuildBrowserAuthTaskParts(b, owner, p), b.ownerOnly
  PROVE  /\ s \in Sidecar /\ s.provider = b.provider /\ s.owner = owner /\ s.cookieKey = p
         /\ b.provider = "github" =>
              /\ s.githubOrg = Undefined /\ s.githubUsers = {i[1] : i \in Admitted(b, owner)}
              /\ s.emailDomains = {Everyone}
              /\ s.allowedGroups = IF b.allowedOrg = Org THEN {Org} ELSE {}
         /\ b.provider # "github" =>
              /\ s.emailDomains = {} /\ s.emailsFile = Admitted(b, owner)
              /\ s.allowedGroups = b.allowedGroups
         /\ b.provider = "entra-id" =>
              s.tenants = Entries(b.allowedTenants) /\ s.skipIssuerCheck = MultiTenant(b)
<1> DEFINE shared == SharedSidecar(b, owner)
<1>1. s = WithOwner(shared, b, owner, p)
  BY DEF BuildBrowserAuthTaskParts
<1>2. /\ b.provider \in Providers
      /\ b.allowedOrg \in {Undefined, Blank, Org}
      /\ b.allowedUsers \in SUBSET (Users \cup {Blank})
      /\ b.allowedGroups \in SUBSET Groups
      /\ OrEveryone(Entries(b.allowedEmailDomains)) \in SUBSET (Domains \cup {Everyone})
      /\ Entries(b.allowedTenants) \in SUBSET (Tenants \cup {Personal})
      /\ Admitted(b, owner) \in SUBSET Identity
  BY DEF Browser, Entries, OrEveryone, Admitted
<1>3. {i[1] : i \in Admitted(b, owner)} \in SUBSET (Users \cup {Blank})
  BY <1>2 DEF Identity
<1>4. shared \in Sidecar
  BY <1>2 DEF SharedSidecar, Sidecar
<1>5. /\ shared.provider = b.provider /\ shared.owner = owner
      /\ b.provider = "github" => shared.emailDomains = {Everyone}
      /\ b.provider # "github" => shared.allowedGroups = b.allowedGroups
      /\ b.provider = "entra-id" =>
           /\ shared.tenants = Entries(b.allowedTenants)
           /\ shared.skipIssuerCheck = MultiTenant(b)
  <2>1. /\ shared.provider = b.provider /\ shared.owner = owner
        /\ b.provider = "github" => shared.emailDomains = {Everyone}
        /\ b.provider # "github" => shared.allowedGroups = b.allowedGroups
        /\ b.provider = "entra-id" => shared.tenants = Entries(b.allowedTenants)
    BY DEF SharedSidecar
  <2>2. shared.skipIssuerCheck = (b.provider = "entra-id" /\ MultiTenant(b))
    BY DEF SharedSidecar
  <2> QED
    BY <2>1, <2>2 DEF MultiTenant
<1>6. PICK t \in Sidecar : t = shared
  BY <1>4
<1> HIDE DEF shared
<1>7. CASE b.provider = "github"
  <2> DEFINE g == IF b.allowedOrg = Org THEN {Org} ELSE {}
  <2>1. g \in SUBSET (Groups \cup {Org})
    OBVIOUS
  <2>2. s = [[t EXCEPT !.githubOrg = Undefined, !.githubUsers = {i[1] : i \in Admitted(b, owner)},
                       !.allowedGroups = g] EXCEPT !.cookieKey = p]
    BY <1>1, <1>6, <1>7 DEF WithOwner, OwnCookie
  <2> HIDE DEF g
  <2>3. s \in Sidecar
    BY <1>2, <1>3, <1>6, <2>1, <2>2 DEF Sidecar
  <2>4. /\ s.provider = t.provider /\ s.owner = t.owner /\ s.cookieKey = p
        /\ s.githubOrg = Undefined /\ s.githubUsers = {i[1] : i \in Admitted(b, owner)}
        /\ s.emailDomains = t.emailDomains /\ s.allowedGroups = g
    BY <2>2 DEF Sidecar
  <2> QED
    BY <1>5, <1>6, <1>7, <2>3, <2>4 DEF g
<1>8. CASE b.provider # "github"
  <2>1. s = [[t EXCEPT !.emailDomains = {}, !.emailsFile = Admitted(b, owner)]
                EXCEPT !.cookieKey = p]
    BY <1>1, <1>6, <1>8 DEF WithOwner, OwnCookie
  <2>2. s \in Sidecar
    BY <1>2, <1>6, <2>1 DEF Sidecar
  <2>3. /\ s.provider = t.provider /\ s.owner = t.owner /\ s.cookieKey = p
        /\ s.emailDomains = {} /\ s.emailsFile = Admitted(b, owner)
        /\ s.allowedGroups = t.allowedGroups /\ s.tenants = t.tenants
        /\ s.skipIssuerCheck = t.skipIssuerCheck
    BY <2>1 DEF Sidecar
  <2> QED
    BY <1>5, <1>6, <1>8, <2>2, <2>3
<1> QED
  BY <1>7, <1>8

-----------------------------------------------------------------------------
(* The invariant.                                                          *)

LEMMA AuthInit == ASSUME Init PROVE AuthInv
<1>1. Running = {}
  BY DEF Init, Running
<1> QED
  BY <1>1, AuthAssumption DEF Init, AuthInv

LEMMA DeployKeeps == ASSUME AuthInv, Deploy PROVE AuthInv'
<1>1. /\ deployed = Undefined /\ deployed' = Resolved(raw) /\ Accepted(deployed', raw.strategy)
      /\ UNCHANGED <<raw, pods, threw>>
  BY DEF Deploy
<1>2. Running = {} /\ Running' = {}
  BY <1>1 DEF AuthInv, Running
<1>3. deployed' \in Browser
  BY <1>1, ResolvedIsBrowser DEF AuthInv
<1> QED
  BY <1>1, <1>2, <1>3 DEF AuthInv

LEMMA PodUpKeeps == ASSUME AuthInv, NEW p \in BrowserPods, PodUp(p) PROVE AuthInv'
<1>1. /\ deployed # Undefined /\ deployed \in Browser /\ p \notin Running /\ Restricted(deployed)
      /\ UNCHANGED <<raw, deployed>>
  BY DEF PodUp, AuthInv
<1>2. ~BuilderThrows(deployed)
  BY <1>1, AcceptedBuilds DEF AuthInv
<1>3. PICK owner \in Identity \cup {Undefined} :
        /\ OwnerValid(deployed, owner) /\ UNCHANGED threw
        /\ pods' = [q \in Running \cup {p} |->
                      IF q = p THEN BuildBrowserAuthTaskParts(deployed, owner, p) ELSE pods[q]]
  BY <1>2 DEF PodUp
<1>4. Running' = Running \cup {p}
  BY <1>3 DEF Running
<1>5. OwnerValid(deployed, owner)'
  BY <1>1, <1>3 DEF OwnerValid, OwnerAllowed
<1>6. pods'[p] = BuildBrowserAuthTaskParts(deployed', owner, p)
  BY <1>1, <1>3
<1>7. ASSUME NEW q \in Running', q # p
      PROVE  \E o \in Identity \cup {Undefined} : Built(q, o)'
  <2>1. pods'[q] = pods[q] /\ q \in Running
    BY <1>3, <1>4, <1>7
  <2>2. PICK o \in Identity \cup {Undefined} : Built(q, o)
    BY <2>1 DEF AuthInv
  <2>3. Built(q, o)'
    BY <1>1, <2>1, <2>2 DEF Built, OwnerValid, OwnerAllowed
  <2> QED
    BY <2>3
<1>8. \A q \in Running' : \E o \in Identity \cup {Undefined} : Built(q, o)'
  BY <1>5, <1>6, <1>7 DEF Built
<1>9. (deployed \in Browser \cup {Undefined})' /\ Restricted(deployed')
  BY <1>1
<1> QED
  BY <1>1, <1>3, <1>4, <1>8, <1>9 DEF AuthInv

LEMMA PodDownKeeps == ASSUME AuthInv, NEW p \in BrowserPods, PodDown(p) PROVE AuthInv'
<1>1. pods' = [q \in Running \ {p} |-> pods[q]] /\ UNCHANGED <<raw, deployed, threw>>
  BY DEF PodDown, Restrict
<1>2. Running' = Running \ {p}
  BY <1>1 DEF Running
<1>3. ASSUME NEW q \in Running'
      PROVE  \E o \in Identity \cup {Undefined} : Built(q, o)'
  <2>1. pods'[q] = pods[q] /\ q \in Running
    BY <1>1, <1>2
  <2>2. PICK o \in Identity \cup {Undefined} : Built(q, o)
    BY <2>1 DEF AuthInv
  <2>3. Built(q, o)'
    BY <1>1, <2>1, <2>2 DEF Built, OwnerValid, OwnerAllowed
  <2> QED
    BY <2>3
<1> QED
  BY <1>1, <1>2, <1>3 DEF AuthInv

LEMMA StutterKeepsAuth == ASSUME AuthInv, UNCHANGED vars PROVE AuthInv'
<1>1. Running' = Running /\ UNCHANGED <<raw, deployed, pods, threw>>
  BY DEF vars, Running
<1>2. ASSUME NEW q \in Running', NEW o, Built(q, o)
      PROVE  Built(q, o)'
  BY <1>1, <1>2 DEF Built, OwnerValid, OwnerAllowed
<1> QED
  BY <1>1, <1>2 DEF AuthInv

LEMMA AuthInvHolds == Spec => []AuthInv
<1>1. Init => AuthInv
  BY AuthInit
<1>2. AuthInv /\ [Next]_vars => AuthInv'
  BY DeployKeeps, PodUpKeeps, PodDownKeeps, StutterKeepsAuth DEF Next
<1> QED
  BY <1>1, <1>2, PTL DEF Spec

-----------------------------------------------------------------------------
(* The theorems.                                                           *)

(* What podUp deployed for a pod, by the two ways to build it.             *)
LEMMA SidecarOf ==
  ASSUME AuthInv, NEW p \in Running
  PROVE  /\ p \in BrowserPods /\ deployed \in Browser /\ Restricted(deployed)
         /\ \E owner \in Identity \cup {Undefined} : Built(p, owner)
         /\ deployed.ownerOnly => \E owner \in Identity : Built(p, owner)
<1>1. PICK owner \in Identity \cup {Undefined} : Built(p, owner)
  BY DEF AuthInv
<1>2. deployed.ownerOnly => owner \in Identity
  BY <1>1 DEF Built, OwnerValid
<1> QED
  BY <1>1, <1>2 DEF AuthInv

(* The config, the deployed settings and every sidecar have their types,   *)
(* which a sidecar owes to the owner checks: admitted owners are users.    *)
THEOREM AuthTypeCorrect == Spec => []TypeOK
<1>1. ASSUME AuthInv
      PROVE  TypeOK
  <2>1. ASSUME NEW p \in Running
        PROVE  pods[p] \in Sidecar
    <3>1. CASE deployed.ownerOnly
      BY <1>1, <3>1, SidecarOf, OwnerFields DEF Built
    <3>2. CASE ~deployed.ownerOnly
      BY <1>1, <3>2, SidecarOf, SharedFields DEF Built
    <3> QED
      BY <3>1, <3>2
  <2> QED
    BY <1>1, <2>1 DEF AuthInv, TypeOK, Running
<1> QED
  BY <1>1, AuthInvHolds, PTL

(* Whatever the config file says, if the schema accepts it then            *)
(* registerTaskDef never throws in the middle of a pod-up: schema.ts asks  *)
(* for all that oauth2-proxy.ts and entra-id.ts need.                      *)
THEOREM AcceptedConfigsBuild == Spec => []AcceptedConfigNeverThrows
<1>1. AuthInv => AcceptedConfigNeverThrows
  BY DEF AuthInv, AcceptedConfigNeverThrows
<1> QED
  BY <1>1, AuthInvHolds, PTL

(* With ownerOnly a browser pod opens for its owner and the admins only:   *)
(* whatever else the config lists, whoever owns the other pods, and also   *)
(* with a session made on another pod, whose cookie secret differs.        *)
THEOREM OnlyTheOwnerGetsIn == Spec => []OwnerOnlyIsOwnerOnly
<1>1. ASSUME AuthInv, NEW p \in Running, NEW u \in Users, deployed.ownerOnly, CanOpen(u, p)
      PROVE  <<u, Form(deployed)>> \in {pods[p].owner} \cup deployed.adminUsers
  <2>1. PICK q \in Running : pods[q].cookieKey = pods[p].cookieKey /\ CanSignIn(u, q)
    BY <1>1 DEF CanOpen
  <2>2. PICK o \in Identity : Built(p, o)
    BY <1>1, SidecarOf
  <2>3. PICK a \in Identity : Built(q, a)
    BY <1>1, SidecarOf
  <2>4. q = p
    BY <1>1, <2>1, <2>2, <2>3, SidecarOf, OwnerFields DEF Built
  <2>5. /\ pods[p].owner = o /\ o[2] = Form(deployed) /\ o \in Users \X {"login", "email"}
        /\ \A i \in deployed.adminUsers : i[2] = Form(deployed)
        /\ deployed.adminUsers \subseteq Users \X {"login", "email"}
    BY <1>1, <2>2, SidecarOf, OwnerFields DEF Built, OwnerValid, Browser, Identity
  <2>6. CASE deployed.provider = "github"
    <3>1. /\ pods[p].provider = "github" /\ pods[p].githubOrg = Undefined
          /\ pods[p].githubUsers = {i[1] : i \in Admitted(deployed, o)}
      BY <1>1, <2>2, <2>6, SidecarOf, OwnerFields DEF Built
    <3>2. PICK i \in Admitted(deployed, o) : u = i[1]
      BY <2>1, <2>4, <3>1, AuthAssumption DEF CanSignIn, PassesSignIn, Admitted
    <3>3. i[2] = Form(deployed) /\ i \in Users \X {"login", "email"}
      BY <2>5, <3>2 DEF Admitted
    <3> QED
      BY <2>5, <3>2, <3>3 DEF Admitted
  <2>7. CASE deployed.provider # "github"
    <3>1. pods[p].emailDomains = {} /\ pods[p].emailsFile = Admitted(deployed, o)
      BY <1>1, <2>2, <2>7, SidecarOf, OwnerFields DEF Built
    <3>2. <<u, "email">> \in Admitted(deployed, o)
      BY <1>1, <3>1 DEF CanOpen, PassesRequest
    <3> QED
      BY <2>5, <2>7, <3>2 DEF Admitted, Form
  <2> QED
    BY <2>6, <2>7
<1>2. AuthInv => OwnerOnlyIsOwnerOnly
  BY <1>1 DEF OwnerOnlyIsOwnerOnly
<1> QED
  BY <1>2, AuthInvHolds, PTL

(* The guard's reading of the config is the sidecar's: one restriction     *)
(* that auth-guard.ts counts keeps out whoever it does not name, whatever  *)
(* blank or wildcard entries the config holds beside it.                   *)
LEMMA RestrictionHolds ==
  ASSUME AuthInv, NEW p \in Running, ~deployed.ownerOnly
  PROVE  /\ pods[p].provider = deployed.provider
         /\ deployed.provider = "github" =>
              pods[p].githubOrg # Undefined \/ pods[p].githubUsers # {}
         /\ deployed.provider # "github" =>
              \/ pods[p].provider = "entra-id" /\ pods[p].tenants # {}
                   /\ Personal \notin pods[p].tenants
              \/ pods[p].allowedGroups # {}
              \/ Everyone \notin pods[p].emailDomains
<1>1. /\ p \in BrowserPods /\ deployed \in Browser /\ Restricted(deployed)
      /\ \E owner \in Identity \cup {Undefined} : Built(p, owner)
  BY SidecarOf
<1>2. /\ pods[p].provider = deployed.provider
      /\ deployed.provider = "github" =>
           /\ pods[p].githubOrg = deployed.allowedOrg
           /\ pods[p].githubUsers = deployed.allowedUsers
      /\ deployed.provider # "github" =>
           /\ pods[p].allowedGroups = deployed.allowedGroups
           /\ pods[p].emailDomains = OrEveryone(Entries(deployed.allowedEmailDomains))
      /\ deployed.provider = "entra-id" => pods[p].tenants = Entries(deployed.allowedTenants)
  BY <1>1, SharedFields DEF Built
<1>3. PICK key \in RestrictionKeys(deployed.provider) : IsSet(deployed, key)
  BY <1>1 DEF Restricted
<1>4. deployed.provider \in Providers /\ deployed.allowedOrg \in {Undefined, Blank, Org}
  BY <1>1 DEF Browser
<1>5. CASE deployed.provider = "github"
  BY <1>2, <1>3, <1>4, <1>5, AuthAssumption DEF RestrictionKeys, IsSet, Entries
<1>6. CASE deployed.provider = "entra-id"
  BY <1>2, <1>3, <1>6 DEF RestrictionKeys, IsSet, Entries, OrEveryone
<1>7. CASE deployed.provider = "oidc"
  BY <1>2, <1>3, <1>7 DEF RestrictionKeys, IsSet, Entries, OrEveryone
<1> QED
  BY <1>2, <1>4, <1>5, <1>6, <1>7 DEF Providers

(* Whatever the config file says, a pod that pod-up lets through does not  *)
(* open to every account of its identity provider.                         *)
THEOREM StrangersStayOut == Spec => []NoPodIsOpenToAll
<1>1. ASSUME AuthInv, NEW p \in Running, NEW u \in Users, Stranger(u), CanOpen(u, p)
      PROVE  FALSE
  <2>1. PICK q \in Running : CanSignIn(u, q)
    BY <1>1 DEF CanOpen
  <2>2. /\ \A r \in Running : /\ u \notin pods[r].githubUsers
                              /\ DomainOf[u] \notin pods[r].emailDomains
                              /\ <<u, "email">> \notin pods[r].emailsFile
        /\ u \notin OrgMembers /\ GroupsOf[u] = {} /\ TenantOf[u] = Personal
    BY <1>1 DEF Stranger
  <2>3. PassesRequest(pods[p], u) /\ PassesSignIn(pods[q], u)
    BY <1>1, <2>1 DEF CanOpen, CanSignIn
  <2>4. CASE deployed.ownerOnly
    <3>1. PICK o \in Identity : Built(q, o)
      BY <1>1, <2>4, SidecarOf
    <3>2. CASE deployed.provider = "github"
      <4>1. /\ pods[q].provider = "github" /\ pods[q].githubOrg = Undefined
            /\ pods[q].githubUsers = {i[1] : i \in Admitted(deployed, o)}
        BY <1>1, <2>4, <3>1, <3>2, SidecarOf, OwnerFields DEF Built
      <4>2. pods[q].githubUsers # {}
        BY <4>1 DEF Admitted
      <4> QED
        BY <2>2, <2>3, <4>1, <4>2, AuthAssumption DEF PassesSignIn
    <3>3. CASE deployed.provider # "github"
      <4>1. pods[p].emailDomains = {}
        BY <1>1, <2>4, <3>3, SidecarOf, OwnerFields DEF Built
      <4> QED
        BY <2>2, <2>3, <4>1 DEF PassesRequest
    <3> QED
      BY <3>2, <3>3
  <2>5. CASE ~deployed.ownerOnly
    <3>1. CASE deployed.provider = "github"
      BY <1>1, <2>2, <2>3, <2>5, <3>1, RestrictionHolds DEF PassesSignIn
    <3>2. CASE deployed.provider # "github"
      <4>1. pods[p].provider # "github" /\ GroupsAt(pods[p].provider, u) = {}
        BY <1>1, <2>2, <2>5, <3>2, RestrictionHolds DEF GroupsAt
      <4>2. /\ pods[p].provider = "entra-id" =>
                 pods[p].tenants = {} \/ Personal \in pods[p].tenants
            /\ pods[p].allowedGroups = {}
            /\ Everyone \in pods[p].emailDomains
        BY <2>2, <2>3, <4>1 DEF PassesRequest
      <4> QED
        BY <1>1, <2>5, <3>2, <4>2, RestrictionHolds
    <3> QED
      BY <3>1, <3>2
  <2> QED
    BY <2>4, <2>5
<1>2. AuthInv => NoPodIsOpenToAll
  BY <1>1 DEF NoPodIsOpenToAll
<1> QED
  BY <1>2, AuthInvHolds, PTL

(* An owner that pod-up accepted under ownerOnly, and who has the groups,  *)
(* the organization and the tenant the config asks for, can sign in.       *)
THEOREM OwnersGetIn == Spec => []OwnerCanSignIn
<1>1. ASSUME AuthInv, NEW p \in Running, NEW u, u = pods[p].owner[1], deployed.ownerOnly,
             u \in OrgMembers, GroupsOf[u] = Groups, TenantOf[u] = HomeTenant,
             deployed.allowedTenants = {} \/ HomeTenant \in deployed.allowedTenants
      PROVE  CanSignIn(u, p)
  <2>1. PICK o \in Identity : Built(p, o)
    BY <1>1, SidecarOf
  <2>2. /\ deployed \in Browser /\ deployed # Undefined /\ p \in BrowserPods
        /\ Accepted(deployed, raw.strategy)
    BY <1>1, SidecarOf DEF AuthInv
  <2>3. /\ pods[p].owner = o /\ pods[p].provider = deployed.provider
        /\ o[2] = Form(deployed) /\ o \in Users \X {"login", "email"}
    BY <1>1, <2>1, <2>2, OwnerFields DEF Built, OwnerValid, Identity
  <2>4. o = <<u, Form(deployed)>> /\ o \in Admitted(deployed, o)
    BY <1>1, <2>3 DEF Admitted
  <2>5. CASE deployed.provider = "github"
    <3>1. /\ pods[p].githubUsers = {i[1] : i \in Admitted(deployed, o)}
          /\ pods[p].emailDomains = {Everyone}
          /\ pods[p].allowedGroups \in {{}, {Org}}
      BY <1>1, <2>1, <2>2, <2>5, OwnerFields DEF Built
    <3>2. u \in pods[p].githubUsers
      BY <1>1, <2>3, <2>4, <3>1
    <3>3. GroupsAt(pods[p].provider, u) = {Org}
      BY <1>1, <2>3, <2>5 DEF GroupsAt
    <3> QED
      BY <2>3, <2>5, <3>1, <3>2, <3>3 DEF CanSignIn, PassesSignIn, PassesRequest
  <2>6. CASE deployed.provider # "github"
    <3>1. /\ pods[p].emailsFile = Admitted(deployed, o)
          /\ pods[p].allowedGroups = deployed.allowedGroups
          /\ deployed.provider = "entra-id" =>
               pods[p].tenants = Entries(deployed.allowedTenants)
      BY <1>1, <2>1, <2>2, <2>6, OwnerFields DEF Built
    <3>2. <<u, "email">> \in pods[p].emailsFile
      BY <2>4, <2>6, <3>1 DEF Form
    <3>3. \/ deployed.allowedGroups = {}
          \/ GroupsAt(pods[p].provider, u) \cap deployed.allowedGroups # {}
      BY <1>1, <2>2, <2>3, <2>6 DEF GroupsAt, Browser
    <3>4. deployed.provider = "entra-id" =>
            pods[p].tenants = {} \/ TenantOf[u] \in pods[p].tenants
      BY <1>1, <2>2, <3>1 DEF Accepted, RefineEntraId, Entries
    <3> QED
      BY <1>1, <2>3, <2>6, <3>1, <3>2, <3>3, <3>4 DEF CanSignIn, PassesSignIn, PassesRequest
  <2> QED
    BY <2>5, <2>6
<1>2. AuthInv => OwnerCanSignIn
  BY <1>1 DEF OwnerCanSignIn
<1> QED
  BY <1>2, AuthInvHolds, PTL
=============================================================================
