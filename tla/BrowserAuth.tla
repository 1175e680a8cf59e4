---------------------------- MODULE BrowserAuth -----------------------------
(***************************************************************************)
(* Who can open a browser pod: the auth part of config/config.yaml as the  *)
(* schema accepts and resolves it (infra/lib/config/schema.ts), the checks *)
(* pod-up makes of it (auth-guard.ts, owner-authz.ts), the oauth2-proxy    *)
(* sidecar it builds from it (oauth2-proxy.ts, owner-authz.ts), and what   *)
(* oauth2-proxy makes of that, as the comments of these files describe it. *)
(*                                                                         *)
(* A name in the config is blank, a wildcard, or stands for a user, group, *)
(* domain or tenant; lists are sets.  Keys that do not bear on who is let  *)
(* in (scope, claims, overage) are left out.                               *)
(***************************************************************************)
EXTENDS Functions

CONSTANTS
  BrowserPods, Users, Groups, Domains, Tenants,
  Org, HomeTenant,  \* the organization and the tenant a config may name
  OrgMembers,       \* Org's members
  GroupsOf, DomainOf, TenantOf,  \* the other facts about each user
  Everyone,         \* the domain "*"
  Personal,         \* the tenant of personal Microsoft accounts
  Blank,            \* an entry of white space
  Undefined,        \* a key without a value
  RawConfigs        \* the config files that are tried

VARIABLES
  raw,      \* config/config.yaml
  deployed, \* auth.browser as the pod-manager has it; Undefined before a deploy
  pods,     \* the sidecar of each running browser pod
  threw     \* the pods whose task definition could not be built

vars == <<raw, deployed, pods, threw>>

Providers == {"github", "entra-id", "oidc"}
(* The shapes of issuerUrl: one Entra tenant, "common" and its like, some  *)
(* other https URL, an http URL.                                           *)
Issuers   == {Undefined, "tenant", "multi", "https", "http"}
(* An owner or admin: a user, named by GitHub login or by email address.   *)
Identity  == Users \X {"login", "email"}

Browser ==
  [provider : Providers, issuerUrl : Issuers, allowedOrg : {Undefined, Blank, Org},
   allowedUsers : SUBSET (Users \cup {Blank}), allowedGroups : SUBSET Groups,
   allowedEmailDomains : SUBSET (Domains \cup {Everyone, Blank}),
   allowedTenants : SUBSET (Tenants \cup {Personal, Blank}),
   ownerOnly : BOOLEAN, adminUsers : SUBSET Identity]
DefaultBrowser ==
  [provider |-> "github", issuerUrl |-> Undefined, allowedOrg |-> Undefined,
   allowedUsers |-> {}, allowedGroups |-> {}, allowedEmailDomains |-> {},
   allowedTenants |-> {}, ownerOnly |-> FALSE, adminUsers |-> {}]
RawConfig ==
  [browser : Browser \cup {Undefined}, strategy : {"byo", "alb-default"},
   oauthAllowedOrg : {Undefined, Org}, oauthAllowedUsers : SUBSET (Users \cup {Blank})]

ASSUME AuthAssumption == RawConfigs \subseteq RawConfig /\ Org # Undefined

Sidecar ==
  [provider : Providers, githubOrg : {Undefined, Blank, Org},
   githubUsers : SUBSET (Users \cup {Blank}), allowedGroups : SUBSET (Groups \cup {Org}),
   emailDomains : SUBSET (Domains \cup {Everyone}), emailsFile : SUBSET Identity,
   tenants : SUBSET (Tenants \cup {Personal}), skipIssuerCheck : BOOLEAN,
   cookieKey : BrowserPods \cup {"shared"}, owner : Identity \cup {Undefined}]

TypeOK ==
  /\ raw \in RawConfig
  /\ deployed \in Browser \cup {Undefined}
  /\ DOMAIN pods \subseteq BrowserPods /\ threw \subseteq BrowserPods
  /\ \A p \in DOMAIN pods : pods[p] \in Sidecar

-----------------------------------------------------------------------------
(* schema.ts.                                                              *)

Entries(set) == set \ {Blank}

RefineOidc(b) ==
  /\ b.allowedOrg \notin {Org} /\ b.allowedUsers = {} /\ b.allowedTenants = {}
  /\ b.issuerUrl \in {"tenant", "multi", "https"}

MultiTenant(b) == b.issuerUrl = "multi"
ParsesAsEntraIssuer(b) == b.issuerUrl \in {"tenant", "multi"}
(* Mutant: the schema does not ask a multi-tenant issuer for tenants.      *)
RefineEntraIdAnyTenant(b) ==
  /\ b.allowedOrg \notin {Org} /\ b.allowedUsers = {}
  /\ ParsesAsEntraIssuer(b) /\ Blank \notin b.allowedTenants
(* A blank entry is not a GUID.                                            *)
RefineEntraId(b) ==
  /\ b.allowedOrg \notin {Org} /\ b.allowedUsers = {}
  /\ ParsesAsEntraIssuer(b)
  /\ MultiTenant(b) => b.allowedTenants # {}
  /\ Blank \notin b.allowedTenants

Accepted(b, strategy) ==
  /\ b.provider = "oidc" => RefineOidc(b)
  /\ b.provider = "entra-id" => RefineEntraId(b)
  /\ b.provider \in {"oidc", "entra-id"} => strategy = "byo"

(* resolveConfig: without auth.browser the deprecated github.oauthAllowed* *)
(* keys count; with it they are ignored.                                   *)
Resolved(r) ==
  IF r.browser # Undefined THEN r.browser
  ELSE [DefaultBrowser EXCEPT !.allowedOrg = r.oauthAllowedOrg,
                              !.allowedUsers = Entries(r.oauthAllowedUsers)]

-----------------------------------------------------------------------------
(* auth-guard.ts and validateOwnerAuthorization: what pod-up refuses.      *)

(* Mutant: the wildcard domain counts as a restriction.                    *)
IsSetWithWildcard(auth, key) ==
  CASE key = "ownerOnly"           -> auth.ownerOnly
    [] key = "allowedOrg"          -> auth.allowedOrg \notin {Undefined, Blank}
    [] key = "allowedUsers"        -> Entries(auth.allowedUsers) # {}
    [] key = "allowedGroups"       -> auth.allowedGroups # {}
    [] key = "allowedEmailDomains" -> Entries(auth.allowedEmailDomains) # {}
    [] key = "allowedTenants"      -> /\ Entries(auth.allowedTenants) # {}
                                      /\ Personal \notin auth.allowedTenants

(* isSet: a wildcard among the domains, or the personal tenant among the   *)
(* tenants, cancels that restriction.                                      *)
IsSet(auth, key) ==
  CASE key = "ownerOnly"           -> auth.ownerOnly
    [] key = "allowedOrg"          -> auth.allowedOrg \notin {Undefined, Blank}
    [] key = "allowedUsers"        -> Entries(auth.allowedUsers) # {}
    [] key = "allowedGroups"       -> auth.allowedGroups # {}
    [] key = "allowedEmailDomains" -> /\ Entries(auth.allowedEmailDomains) # {}
                                      /\ Everyone \notin auth.allowedEmailDomains
    [] key = "allowedTenants"      -> /\ Entries(auth.allowedTenants) # {}
                                      /\ Personal \notin auth.allowedTenants

RestrictionKeys(provider) ==
  CASE provider = "github"   -> {"allowedOrg", "allowedUsers", "ownerOnly"}
    [] provider = "entra-id" -> {"allowedTenants", "allowedGroups",
                                 "allowedEmailDomains", "ownerOnly"}
    [] provider = "oidc"     -> {"allowedGroups", "allowedEmailDomains", "ownerOnly"}

Restricted(auth) == \E key \in RestrictionKeys(auth.provider) : IsSet(auth, key)

Form(auth) == IF auth.provider = "github" THEN "login" ELSE "email"

OwnerAllowed(auth, owner) ==
  IF auth.provider = "github"
  THEN LET listed == Entries(auth.allowedUsers) IN
       listed = {} \/ owner[1] \in listed \/ owner \in auth.adminUsers
  ELSE LET domains == Entries(auth.allowedEmailDomains) IN
       domains = {} \/ Everyone \in domains \/ DomainOf[owner[1]] \in domains

(* validateOwnerAuthorization.                                             *)
OwnerValid(auth, owner) ==
  auth.ownerOnly =>
    /\ owner # Undefined /\ owner[2] = Form(auth)
    /\ \A a \in auth.adminUsers : a[2] = Form(auth)
    /\ OwnerAllowed(auth, owner)

-----------------------------------------------------------------------------
(* The sidecar.  An unset allowedEmailDomains becomes "*".                 *)

OrEveryone(domains) == IF domains = {} THEN {Everyone} ELSE domains

BuilderThrows(auth) ==
  \/ auth.provider = "entra-id" /\ ~ParsesAsEntraIssuer(auth)
  \/ auth.provider = "entra-id" /\ MultiTenant(auth) /\ Entries(auth.allowedTenants) = {}
  \/ auth.provider = "oidc" /\ auth.issuerUrl \notin {"tenant", "multi", "https"}

(* buildOauth2ProxyContainer with the secrets every pod shares.            *)
SharedSidecar(auth, owner) ==
  LET github == auth.provider = "github"
      entra  == auth.provider = "entra-id" IN
  [provider        |-> auth.provider,
   githubOrg       |-> IF github THEN auth.allowedOrg ELSE Undefined,
   githubUsers     |-> IF github THEN auth.allowedUsers ELSE {},
   allowedGroups   |-> IF github THEN {} ELSE auth.allowedGroups,
   emailDomains    |-> IF github THEN {Everyone}
                       ELSE OrEveryone(Entries(auth.allowedEmailDomains)),
   emailsFile      |-> {},
   tenants         |-> IF entra THEN Entries(auth.allowedTenants) ELSE {},
   skipIssuerCheck |-> entra /\ MultiTenant(auth),
   cookieKey       |-> "shared",
   owner           |-> owner]

(* Mutant: the owner is left out of the admitted identities.               *)
AdminsOnly(auth, owner) == auth.adminUsers
Admitted(auth, owner) == {owner} \cup auth.adminUsers

(* Mutant: the pod keeps the cookie secret that all pods share.            *)
SharedCookie(s, p) == s
(* The init container writes a cookie secret of the task's own.            *)
OwnCookie(s, p) == [s EXCEPT !.cookieKey = p]

(* buildOwnerAuthorization over the shared sidecar, for pod p.             *)
WithOwner(s, auth, owner, p) ==
  OwnCookie(
    IF auth.provider = "github"
    THEN [s EXCEPT !.githubOrg = Undefined,
                   !.githubUsers = {i[1] : i \in Admitted(auth, owner)},
                   !.allowedGroups = IF auth.allowedOrg = Org THEN {Org} ELSE {}]
    ELSE [s EXCEPT !.emailDomains = {}, !.emailsFile = Admitted(auth, owner)],
    p)

BuildBrowserAuthTaskParts(auth, owner, p) ==
  LET shared == SharedSidecar(auth, owner) IN
  IF auth.ownerOnly THEN WithOwner(shared, auth, owner, p) ELSE shared

-----------------------------------------------------------------------------
(* oauth2-proxy: a listed GitHub user skips the organization check, and    *)
(* the user list counts at sign-in only; emails, groups and tenants count  *)
(* on every request.  A session is a cookie under the pod's cookie secret, *)
(* whichever pod it was made on.                                           *)

GroupsAt(provider, u) ==
  IF provider # "github" THEN GroupsOf[u]
  ELSE IF u \in OrgMembers THEN {Org} ELSE {}

PassesRequest(s, u) ==
  /\ \/ Everyone \in s.emailDomains \/ DomainOf[u] \in s.emailDomains
     \/ <<u, "email">> \in s.emailsFile
  /\ s.allowedGroups = {} \/ GroupsAt(s.provider, u) \cap s.allowedGroups # {}
  /\ s.provider = "entra-id" =>
       /\ s.tenants = {} \/ TenantOf[u] \in s.tenants
       /\ s.skipIssuerCheck \/ TenantOf[u] = HomeTenant

PassesSignIn(s, u) ==
  s.provider = "github" =>
    \/ u \in s.githubUsers
    \/ s.githubOrg = Org /\ u \in OrgMembers
    \/ s.githubOrg = Undefined /\ s.githubUsers = {}

Running == DOMAIN pods
CanSignIn(u, p) == PassesSignIn(pods[p], u) /\ PassesRequest(pods[p], u)
CanOpen(u, p) ==
  /\ PassesRequest(pods[p], u)
  /\ \E q \in Running : pods[q].cookieKey = pods[p].cookieKey /\ CanSignIn(u, q)

-----------------------------------------------------------------------------

Init ==
  /\ raw \in RawConfigs /\ deployed = Undefined
  /\ pods = [p \in {} |-> {}] /\ threw = {}

(* cdk deploy: loadConfig; a config that is not accepted stops synth.      *)
Deploy ==
  /\ deployed = Undefined
  /\ Accepted(Resolved(raw), raw.strategy)
  /\ deployed' = Resolved(raw)
  /\ UNCHANGED <<raw, pods, threw>>

(* podUp's two checks, before anything is created, and the task definition.*)
PodUp(p) ==
  /\ deployed # Undefined /\ p \notin Running /\ Restricted(deployed)
  /\ \E owner \in Identity \cup {Undefined} :
       /\ OwnerValid(deployed, owner)
       /\ IF BuilderThrows(deployed)
          THEN threw' = threw \cup {p} /\ pods' = pods
          ELSE /\ pods' = [q \in Running \cup {p} |->
                            IF q = p THEN BuildBrowserAuthTaskParts(deployed, owner, p)
                            ELSE pods[q]]
               /\ threw' = threw
  /\ UNCHANGED <<raw, deployed>>

PodDown(p) ==
  /\ p \in Running
  /\ pods' = Restrict(pods, Running \ {p})
  /\ UNCHANGED <<raw, deployed, threw>>

Next == Deploy \/ \E p \in BrowserPods : PodUp(p) \/ PodDown(p)
Spec == Init /\ [][Next]_vars

-----------------------------------------------------------------------------

(* No running browser pod is open to every account its identity provider   *)
(* can authenticate: a user of no organization, group or company, whom no  *)
(* sidecar names, cannot open it.  The guard's reading of the config and   *)
(* the sidecar builder's agree.                                            *)
Stranger(u) ==
  /\ u \notin OrgMembers /\ GroupsOf[u] = {} /\ TenantOf[u] = Personal
  /\ \A p \in Running :
       /\ u \notin pods[p].githubUsers /\ DomainOf[u] \notin pods[p].emailDomains
       /\ <<u, "email">> \notin pods[p].emailsFile
NoPodIsOpenToAll ==
  \A p \in Running, u \in Users : Stranger(u) => ~CanOpen(u, p)

(* With ownerOnly a pod opens for its owner and the admins, and for nobody *)
(* else, also not with a session made on another pod.                      *)
OwnerOnlyIsOwnerOnly ==
  \A p \in Running, u \in Users :
    deployed.ownerOnly /\ CanOpen(u, p) =>
      <<u, Form(deployed)>> \in {pods[p].owner} \cup deployed.adminUsers

(* An owner that pod-up accepted can sign in to the pod, when the owner    *)
(* has the organization, groups and tenant the config asks for.            *)
OwnerCanSignIn ==
  \A p \in Running :
    LET u == pods[p].owner[1] IN
    /\ deployed.ownerOnly
    /\ u \in OrgMembers /\ GroupsOf[u] = Groups /\ TenantOf[u] = HomeTenant
    /\ deployed.allowedTenants = {} \/ HomeTenant \in deployed.allowedTenants
    => CanSignIn(u, p)

(* A config the schema accepted never makes registerTaskDef throw in the   *)
(* middle of a pod-up: the schema's checks are the builder's.              *)
AcceptedConfigNeverThrows == threw = {}
=============================================================================
